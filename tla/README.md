# A TLA+ model of buteo-syncml

buteo-syncml is a SyncML 1.1/1.2 library: one device acts as a *client*, another
as a *server*, and the two synchronise their databases by exchanging packages of
SyncML commands over HTTP or OBEX. This directory holds TLA+ modules that model
the library as it is written in `src/src`, TLC configurations that check them on
small instances, and theorems about them that TLAPS proves for every instance.

The model puts *this* code against itself wherever both sides are in it: a
`ClientSessionHandler` and a `ServerSessionHandler`, a worker of an OBEX client and
one of an OBEX server, what the element classes write and what the parser reads,
the change log of one device and that of the other. Most of what can go wrong in a
synchronization goes wrong between the two (a message that nobody waits for, a
package cut in an unlucky place, one side that saves what the other gave up), and no
unit test of the repository runs both.

## 1. Inventory

| Component (files) | State | Operations | Hard behaviour | What makes it correct |
|---|---|---|---|---|
| **Session, common part** (`SessionHandler`) | `iSyncState`, `iSyncFinished`, `iSessionClosed`, `iProcessing`, targets, command responses | `startReceivedSync`, one handler per fragment, `handleFinal`, `handleEndOfMessage`, `abortSync`, `exitSync`, `saveSession`, `setTransportStatus` | aborts while a message is processed, events after the end, errors reported one message late | a session ends once, is saved only if it finished well, does nothing afterwards |
| **Client session** (`client/ClientSessionHandler`) | the same | `initiateSync`, `handleNotificationXML`, `handleSANPackage`, alerts, Sync, finals, mappings, `messageParsed`, `resendPackage` | the server may change the mode, or ask for credentials; sync without initialization phase | it answers in every state, and saves only what the server saved |
| **Server session** (`server/ServerSessionHandler`) | the same | `serveRequest`, `initiateSync`, alerts, Sync, Map, finals, `messageParsed` | reverts to slow sync, packages cut into messages, the last message | the same, and it has every mapping |
| **Sync modes** (`SyncMode`) | direction, initiator, type | to and from alert codes, revert, refresh | not every mode has a code | both sides mean the same mode |
| **Sync target** (`SyncTarget`) | mode, reverted, discovered changes, anchors, mappings | `discoverLocalChanges`, `revertSyncMode`, `setRefreshFromClient`, UID mappings | a revert after the changes were discovered | the changes that are sent fit the mode that is saved |
| **Response generator, packages** (`ResponseGenerator`, `*Package`) | queues of statuses and packages | `addStatus`, `addPackage`, `generateNextMessage`, `write` of each package | what is left of a package when a message is full | nothing is lost or sent twice |
| **Prefetcher** (`SyncItemPrefetcher`) | keys to fetch, items fetched, batch size | `prefetch`, `getItem` | a timer between two messages; an item that is gone | every item is sent once, with its data |
| **Command handling** (`CommandHandler`) | pending item ids, command references | Sync, Map, Add, Replace, Delete; statuses | batches of which single items fail; late statuses | one status per command, each counted once |
| **Storage handling, conflicts** (`StorageHandler`, `ConflictResolver`) | batches, the large object that is being built | add, replace, delete, commit; chunks | chunks that are interrupted; changes on both sides | one result per item, nothing stored in part |
| **Change log** (`ChangeLog`, `DatabaseHandler`) | anchors, last sync time, mappings, per device and database | load, save, remove | a crash or a failed statement in the middle | a log is the old one or the new one; a fast sync starts from logs that agree |
| **Authentication** (`SessionAuthentication`, `AuthHelper`, `NonceStorage`) | what was required, who is authenticated, nonces | compose and check credentials, challenges | a nonce kept from the session before; resends | no downgrade; the right password opens; an end to the resends |
| **Device information** (`DevInfHandler`, `SyncMLDevInf`, ...) | whether the remote one was received | Put, Get, Results | two versions, one nested and one flat; order within a message | it is read as it was written, before what relies on it |
| **Elements, encoders** (`syncelements/*`, `*Encoder`) | none | write each element | optional fields | what is written can be read |
| **Message parser** (`SyncMLMessageParser`) | the fragments of one message, the reader | `parseResponse`, one `read` function per element, `takeFragments` | messages that are cut, control characters, a second parse | every message is taken as it was written, or refused |
| **Transport base** (`BaseTransport`) | waiting or not, a buffer of one message | `sendSyncML`, `receive`, `receive(data)`, `purgeAndResendBuffer` | a second message overwrites the first | no message is lost between two sessions |
| **HTTP transport** (`HTTPTransport`) | the first message, resend attempts | `init`, `doSend`, `httpRequestFinished` | a late answer, a resend, a second `init` | one answer per request |
| **OBEX transports** (`OBEXTransport`, `OBEXClientWorker`, `OBEXServerWorker`, `OBEXDataHandler`) | a worker thread with a mailbox, the link, one message that a server keeps | `connect`, PUT, GET, `disconnect`, `close`, timeouts | threads that wait for each other and for the other device | every wait ends, messages are fetched once |
| **Agent, listener** (`SyncAgent`, `RequestListener`) | one session, one listener | `startSync`, `listen`, `abort`, `pauseSync`, `cleanUp`, the queued first event and end | events that are queued while something else ends | one report of the end of each operation, nothing of an earlier one |
| **Notification** (`ServerAlertedNotification`) | header, databases | generate, parse | bit fields, signed chars, messages that are cut | a client begins what the server asked for |
| **Suspend log, configuration** | small | | | see section 6 |

The components interact by direct calls within one device (parser → session →
command handler → storage; session → response generator → transport), by queued
Qt signals (the parser's `parsingComplete`, the end of a session towards the
agent, transport events), by jobs posted to the worker thread of an OBEX transport
and events posted back, and by messages between the two devices. A device runs
its session in one event loop: what interleaves is the two devices, the queued
signals, the worker threads, the network and the user.

What is hard to test is listed with its line under `hazards` in `PROJECT.json`,
each with the properties that cover it.

## 2. Modules

```
SyncModes <- SessionHandler <- ClientSession, ServerSession <- SyncSession
          <- SyncPromise                                        |
                                   SyncSessionProps (INSTANCE SyncPromise)
                                        |                      |
                                  SyncSessionMC        SyncSessionSafety
                                                         <- SyncSessionSavesLast
                                                         <- SyncSessionAgreement

ItemExchange                                      <- ItemExchangeProps        <- ItemExchangeMC
ItemSending                                       <- ItemSendingProps         <- ItemSendingMC
                                                     ItemSendingProps         <- ItemSendingSafety
SyncModes <- ChangeLog <- SessionSaving           <- SessionSavingProps       <- SessionSavingMC
             ChangeLog <- LogPromise (INSTANCE)      SessionSavingProps       <- SessionSavingSafety
SyncMLElements <- MessageParser                   <- MessageParserProps       <- MessageParserMC
SessionAuthentication, HTTPTransport
          <- SessionOpening                       <- SessionOpeningProps      <- SessionOpeningMC
                                                     SessionOpeningProps      <- SessionOpeningSafety
ServerAlertedNotification, SyncModes
          <- SessionNotification                  <- SessionNotificationProps <- SessionNotificationMC
OBEXTransport <- SyncAgent                        <- SyncAgentProps           <- SyncAgentMC
                                                     SyncAgentProps           <- SyncAgentSafety
SequenceLemmas                                    <- SessionOpeningSafety, SyncAgentSafety
```

Every part has a module (or a chain of modules) that models code, a `...Props` module
with its properties, an `...MC` module with the instances for TLC, and where something
is proved a `...Safety` module with the theorems; those of SyncSession take three modules. A session is
cut into parts where one hands over to the next: `SessionNotification` and
`SessionOpening` end where `SyncSession` begins; `SyncSession` treats a Sync element
as one step, into which `ItemExchange` looks on the side that receives it and
`ItemSending` on the side that sends it; `SessionSaving` is what comes of
`saveSession`; `MessageParser` and `SyncAgent` are below and above all of it.

### Sessions

* **SyncModes** — `SyncMode.cpp`: modes as records, `ModeOf` (the constructor
  from an alert code) and `ToSyncMLCode`, with the numbers of `datatypes.h`.
* **SessionHandler** — what both roles share. Every variable is a function of
  the party, named after the member it stands for (`syncState` is `iSyncState`,
  `armed` is `BaseTransport::iHandleIncomingData`, ...; the comments of the
  declarations give the list). One action per kind of fragment, with everything the
  handler does: the status it queues, the package it queues, the target it changes.
  `ExitSync`, `AbortSync` (outside a message), `AbortInMessage` (inside: the exit
  waits for the end of the message), `FinishSync` are the ways out.
* **ClientSession**, **ServerSession** — the virtual functions: starting,
  `syncAlertReceived`, `syncReceived`, `mapReceived`, `finalReceived` (one
  definition per branch of its `switch`) and `messageParsed`.
* **SyncSession** — both sessions, the network, the faults, `Spec` and `FairSpec`.
* **SyncPromise** — the abstract specification: items reach a storage while the
  session is open; the server saves a database only if all that its mode owes was
  exchanged; the client saves only after the server and in the server's mode.
  `KeepsPromise` says that SyncSession implements it, under the refinement mapping
  `stored` = the set of items applied, `outcome` = closed and how, `agreed` = the
  mode of each saved target.

The processing of one message is atomic in the code (one event-loop turn), and
the model takes it fragment by fragment: `BeginMessage` or `ServeRequest`,
one `Handle...` per fragment, `Handle...Final` if the message closed its package,
`EndOf...Message`. Only the other device, the network and the user can come in
between, and they touch nothing a handler reads; faults reach a session between two
messages only, as they do in its event loop.

### Items

* **ItemExchange** — what those sessions carry, and what is left of it for the
  next one: the items of one database, two ways, over several sessions.
  `WriteSync` is a `LocalChangesPackage` writing one Sync element; `Handle` is
  `CommandHandler::handleSync`: `ComposeBatches`, then the three commits of
  `StorageHandler` with the `ConflictResolver` of a server, the codes of the
  items and the new mappings. `ExchangeMappings` is the client's Map and the
  server's `handleMap`, `SaveSession` the change log; `UserAdd`, `UserModify` and
  `UserDelete` stand for what happens on the devices between two sessions.
* **ItemSending** — the sending side at the grain of a command, with the
  prefetcher (`SyncItemPrefetcher.cpp`) as a record and operators on it: `BeginMessage`, `WriteCommand` (`LocalChangesPackage::write`, with the
  chunks of a large item and the prefetcher's `getItem`) and `EndMessage`;
  `IdlePrefetch` is the timer with which the prefetcher reads ahead;
  `HandleStatus` is `processItemStatus`, which finds the change a status is about
  and counts it in `SyncResults`. `UserRemoves` takes an item away while the session
  sends, `ExitSync` ends the session at any point.

### Change logs

* **ChangeLog** — the two tables, and what each SQL statement does to them; `load`.
* **SessionSaving** — the change logs of both devices. A session is one record here,
  and its saving is `ChangeLog::save()` statement by statement for each database:
  `EnsureTables`, `Begin`, `SaveAnchors` (delete, insert), `SaveMaps` (delete, one
  insert a mapping), `Commit`; `Remove` is that of `cleanUp()`, which has no
  transaction. `Fail` is a statement that fails, with its rollback, `Crash` a device
  that stops between any two. `disk` is what is stored for good, `open` what the
  statements see. `StartSync` loads the anchors and has `Mode` compare them.
* **LogPromise** — the abstract specification: a log is one value, replaced in one
  step by that of a later session, and forgotten only when that was asked for.
  `KeepsLog` says that SessionSaving implements it, under `log` = what is on disk
  (none, if there are no anchors) and `asked` = the databases left to clean.

### Messages

* **SyncMLElements** — what the element classes and packages write, the device
  information with them, as the tokens an XML reader finds in it, from the params
  structures of `Fragments.h`: a structure is a function from field names, without the fields that
  have their default.
* **MessageParser** — every `read` function as a row of a table (which elements it
  knows, and how each is read) and a frame on a stack, one token a step; the buffer
  of `BaseTransport`, `parsingComplete`, `parsingError`, `purgeAndResendBuffer` and
  the second parse; what `SessionHandler` does with each outcome.

### Getting into a session

* **SessionAuthentication** — the class, as operators on a record: what either side
  composes, checks, challenges with and remembers (`NonceStorage`).
* **HTTPTransport** — a transport as a record: `DoSend`, `HttpRequestFinished`, the
  resend of a first message, and how often its slots are connected.
* **SessionOpening** — several sessions of one client over HTTP, up to the point where
  the server has acknowledged the initialization. The library has no HTTP server: the
  server is external. One kind checks credentials with the other half of
  `SessionAuthentication`, one challenges until it has what it demands, one accepts
  nothing.
* **ServerAlertedNotification**, **SessionNotification** — the OMA DS 1.2
  notification, byte by byte; the server that composes it, a transport that may
  lose or cut it, the `RequestListener` that parses it, and the client session that
  is set up for it.

### Devices

* **OBEXTransport** — the objects of OBEX, the worker threads of a client and of a server,
  the link between them, and the transports in the main threads. A worker takes jobs
  from its mailbox and posts events; while it waits for the other device it does nothing
  else. A call that waits for the worker is a step that only the worker can take away.
* **SyncAgent** — two applications, agents and listeners on top: `StartSync`,
  `Listen`, `AbortSession`, `AbortListen`, `PauseSync`, the queued events
  (`HandleEvent`), `ReportEnd`, and the destruction of a transport. What the sessions
  say is a number of messages that they take in turn.

### What is abstracted

* **Bytes.** A message is full when its bytes are; the model chooses where. In
  SyncSession: after any number of statuses beyond `cfg.room`, or after a package
  whose kind is in `cfg.fillers`, or within a package of changes or mappings
  (`Cuts`, `Parts`, `Sendable`). In ItemSending: after any command.
  `cfg.maxChanges` and `cfg.max` are the configured number of changes per message.
* **Items** are names; what was stored is the sequence `applied`, so that a
  second delivery shows. What a party changed since the last sync (`Fresh`) is
  part of what it has (`Whole`); a slow or a first sync sends the latter.
* In SyncSession **device information** says nothing the model needs (both devices run
  this code, which announces all sync types), and both devices run with `AUTH_NONE`;
  SyncMLElements and SessionOpening model the two.
* In ItemExchange a **content** is one write of one user. Its data is one part, or two
  if it is large; a chunk is a part. Where a large object is cut is a matter of bytes, so
  one that is written for the first time always takes two elements. The commands of
  an element are taken by their index, as the code takes them by `ItemId`.
* **Plug-ins** are external. They number their items, never use a key twice, and
  report a change no matter who made it: a session's own writes are told from a
  user's by the time that was saved. In ItemExchange that time is not a number:
  `dirty` is what is newer, and a save empties it, but for what `StillReported` keeps.
  Their errors are one error.
* In ItemExchange the **anchors** are one bit: they match unless the server saved a
  session and the client did not. SessionSaving has them as the seconds they are.
* A **text** of a message is a number or a name, with the commas it holds counted, as
  the purge removes them. Namespaces and CDATA are left out: the reader finds the same.
* **Digests** and passwords are "right" or "wrong"; a nonce is a number.
* The bytes of the **digest** of a notification are zero: no session looks at them.

## 3. Runs

Deadlock is not checked: sessions end, and then nothing happens any more. What a
deadlock check would say, the liveness properties say of the right states.

| Run (distinct states) | Instance | Shows |
|---|---|---|
| `Sessions` (158,024) | every direction, initiator, configured type, first or later sync, matching or mismatching anchors, slow and fast mappings; two databases of which the server has any; one and two databases in messages with room for next to nothing; no initialization phase | types, `ModesAgree`, `AnchorsExchanged`; `AppliedOnce`, `MappingsComplete` and the refinement `KeepsPromise` wherever packages are cut; under fairness `EventuallySaved`: a session is saved by both sides, or the reason why not is reported |
| `Faults` (1,055,695) | every kind of fault, two of them in a session, also with a first package that is cut, with changes that go with the alerts in one message or in several, and with `omit` | `HalfDuplex`, `EndsOnce`, `ClientSavesLast`, `ClosedIsSilent` |
| `Items` (119,991) | two sessions and two or three changes by the users, after a first sync of one item of each side; aborts, large items, failing commits, both policies, one or two changes an element | `NothingForgotten`: what the sides do not agree on is reported again; `StoredWhole`, `StatusTruthful`, `PolicyRespected` |
| `Sending` (498,689) | five changes, one to three commands a message or two chunks, an item the user removes, a message without a command, statuses that come late or twice | `SentOnce`, `SentWhole`, `EverythingSent` |
| `Saving` (108,757) | two databases and two sessions with one fault; one database and three sessions with two; two directions; sessions in the same second; no transactions | `Whole`, `FastMeansAgreed`, `SavedIfCalm`, the refinement `KeepsLog` |
| `Messages` (78,512) | five scripts of one or two messages with every command, both versions of the device information, challenges, XML data and a text with commas; cut, stained or with a strange element at one token in thirteen, and with one where no parser goes on | `ReadsAsWritten`, `RefusedWithCause`, `EveryMessageEnds` |
| `Opening` (17,387) | 91 clients and servers: none, basic and MD5, with and without nonces, right and wrong passwords, small messages that are accepted and that are refused, up to three sessions, two failures and two resends | `NoDowngrade`, `AcceptedFirst`, `RightPasswordOpens`, `InitializedOnce`, `EveryOpeningEnds` |
| `San` (1,788) | every mode, one to three databases in any order, clients that lack some, the limits of each bit field, both kinds of `char`, a transport that loses and cuts | `ReadsAsWritten`, `BeginsAsAsked`, `EveryNotificationEnds` |
| `Devices` (98,547) | two agents over OBEX, up to two operations each; an abort or a broken link; workers that give up at any time; a garbled request, a database that cannot be opened | `EachEndsOnce`, `InTurn`, `MessageFetched`, `BothEnd`, `EndsWell` |

Three runs show where the code does not do what it says; `findings` in `PROJECT.json`
quotes the comments:

| Violation | Finding |
|---|---|
| `StaleChanges` | a target that reverts to slow sync after it discovered its changes keeps the fast ones |
| `Echoes` | the time of a sync is meant to be rounded up to the next second and is rounded down, so a session that ends in the second in which it wrote reports its own writes to the next one |
| `HttpExample` | the documented example initializes the transport, `startSync` does it again, and every answer is handled twice |

### Bounds, and why they are enough

**Sessions.** Two databases are the least for which packages of several targets interleave
and for which one may be refused while the other goes on; three items are the least
for which a package is cut twice. `maxChanges` 2 and a `room` of two more than there are
databases force both kinds of cut. With less a message has no room for the answers to the
NEXT_MESSAGE alerts, one for each database, and its own question, and the two devices ask
each other for ever: this is real in the code (`SessionHandler.cpp:774`), and only for
messages of a size that no device uses, so the instances stay above it. Two faults reach every pair of
a lost message and a late abort. A session is short (at most six messages when
nothing is cut), so behaviours are explored in full, with no bound on their length.
`EventuallySaved` takes one excuse: that the server is `Deaf` (next section), and only where its
last package may be cut, which `Roomy` says: small messages with fast mappings, with two
databases or from the client only. The safety properties hold there too. Configurations that `Sessions` leaves out, on purpose, are
those that end badly: a first package that is cut, and a sync from the client without initialization phase, in which the
client never learns the server's anchors and mode. `ModesAgree` is stated for modes
that have an alert code, `ClientSavesLast` without `omit` and for a first package that is
`FirstPackageWhole`: its device information and alerts are in one message, and so are the
changes that a sync without initialization phase sends with them, if the server may ask
for a slow sync instead. Where such changes are cut it ends its package while the client
is still sending the first one, the two packages cross, and the client takes the end of
the server's for that of the last one.

**Items.** Each side has an item of its own and one of the other, mapped, under
keys that cross; a change on each side is what a conflict takes, and a third
(where nothing is aborted and no commit fails) lets an item change again after the
conflict. Two sessions are the least in which what the first one saved, or did not
save, is used. `NothingForgotten` names in `Forgetful` what it does not speak of:
refused items, clashes, duplicates, `quick` sessions and `shared` keys with large items,
each of which violates it (next section). No configuration of `Items` is `quick`: `Echoes` is the
one that is.

**Sending.** Five changes are two batches of the prefetcher and a rest; a hint of 0 and
a negative one come up, as do a large item between two small ones and one at the end.

**Saving.** Each of two sessions can be saved or lost by either device, and the third
meets what the two left; two mappings are the least of which one can be stored without
the other. What does not depend on these numbers is proved (section 4).

**Messages.** A cut, a stain or a strange element at every token is the same question at
many places; every thirteenth meets every kind of frame in the five scripts. A strange element is
refused in two kinds of places (beside the header and the body, and before the first type of the
capabilities of 1.1), which `MCStrange` has and `RefusedWithCause` names; anywhere else it is
passed over. One script has a text with commas; a message that is purged and has one is the premise of
`ReadsAsWritten`: without it TLC finds the property violated. XML
data of an item is spared (next section), and so are capabilities of 1.1 that have a
value before their first property, which this library never writes.

**Opening.** Three sessions are a first one, one with the nonce of the first, and one that
heals after a disturbed one. `AcceptedFirst` has two halves: a session gets behind its
initialization only if the server has accepted the client, for every configuration; and a client
holds its items back until then, for those that send an initialization. Without one
(`noInit`) they are in the first message, with the credentials. `RightPasswordOpens` speaks of undisturbed sessions, where
`Welcome` says which servers take what the client was told to use.

**San.** Counts and lengths take the values around each limit: 7, 8, 15, 16, 17
databases, URIs of 127, 128 and 255 characters, names of up to 256. `Fits` and `Told` say what
the format has room for; `signed` is whether a `char` is signed in the build (it is on
x86, and is not on ARM).

**Devices.** Two operations of an agent are the least in which something of the first can
reach the second. Four messages are one in each direction after the opening ones.

### Fairness

Only what a running event loop or worker does is fair, and nothing that fails, aborts
or times out:

* `SyncSession`: weak fairness of `Progress` (event loops run, queued signals are
  delivered, and a transport that does not fail delivers). It is used where nothing
  fails (`Sessions`). When a message is lost or one user aborts, the other device waits
  until its transport times out, and the transport decides whether it does.
* `MessageParser`: the parser goes on reading what it has.
* `SessionOpening`: weak fairness of `Progress`, none of `Fail`: requests finish, one way
  or another, as `QNetworkAccessManager` promises.
* `SessionNotification`: of `InitiateSync`, `SANPackageReceived` and `ListenEvent`.
* `SyncAgent`: of the event loop and of the worker of each device; none of `Timeout`, so that
  `BothEnd` does not rest on a worker giving up, and none of the application. An
  agent whose listener ended without a session leaves its transport open, with the worker
  in it and the request that this took: only a deletion by the application ends that. `BothEnd`
  is about a device whose peer does not stay like this (`LeftOpen`); without this premise TLC
  finds it violated.
* `ItemSending`: of writing, of the idle timer and of the statuses, none of `ExitSync`
  and `UserRemoves`.
* `SessionSaving`, `ItemExchange`: none, as they have no liveness property.

### Known deviations

Met while modelling, each a behaviour of the code that the checked properties leave
out by a premise or an instance; an instance without the premise shows it.

*Sessions.*
* In FINALIZING the server does not call `receive()` though its last package may not be
  out (`ServerSessionHandler.cpp:369`): it is deaf when the client asks for the rest.
* The first message of a session is processed as the last of its package whatever it
  holds (`ServerSessionHandler.cpp:131`). Where that package is cut the two devices are a
  package apart from then on, and a client can save what the server gives up (above).
* A one-way slow mode is announced with the code of the fast mode (`SyncMode.cpp:190`).
* With `fast-maps-send` the client may omit its last package after changes were received
  (`ClientSessionHandler.cpp:489`), and the server waits for it.

*Items.*
* The time of a sync is cut to the second where it should be rounded up
  (`SessionHandler.cpp:1111`: the result of `addSecs` is dropped), so what a session wrote
  within its last second is taken for the user's change (`quick`): `Echoes` shows it.
  In such a session `StoredWhole` fails too: an item that came back in this way, and that the other
  user has deleted meanwhile, is added without data.
* A large item that is added carries the other side's key, and conflicts with whatever has
  that key here (`StorageHandler.cpp:321`, `shared`).
* A plug-in that cannot write a chunk (`fails = {"write"}`): `appendLargeObjectData`
  drops the object it was building (`StorageHandler.cpp:295`), and nothing tells the next
  chunk of the same item from a first or an only one, so part of an item is stored.
* An item answered with an error is not sent again: the `abortSync` signal of
  `CommandHandler` (`CommandHandler.cpp:206`) is connected to nothing, and the session is
  saved.
* When one user deletes what the other modifies, the item comes back under a new
  key on the side that deleted it, with a second mapping, but `mapToLocalUID`
  (`SyncTarget.cpp:274`) still finds the first one.
* Duplicates that a plug-in detects are answered `ALREADY_EXISTS` and get no mapping
  (`CommandHandler.cpp:680`).
* A server names no source in a Replace or Delete, so the statuses of the client never match
  its references: `SyncResults` of a server does not count them.
* A plug-in that leaves out the items that are gone loses its whole batch: the commands go
  out without data.

*Change logs.*
* Anchors are seconds: two sessions that begin in the same one can match though one of
  them was not saved (`brisk`).
* Mappings that cannot be read are only logged: the fast sync goes on without them. A save
  that fails is only logged, and the session reported as finished.
* `cleanUp`, documented to return true on success (`SyncAgent.h:666`), returns the result of
  the last database only.
* If `transaction()` fails the statements are executed all the same, and a failure of one is
  not undone (`transacts`).

*Messages.*
* `readMixed` looks for the end of its element and nothing else
  (`SyncMLMessageParser.cpp:1603`): at a cut or a control character within XML data it
  loops for ever.
* The purge that removes control characters, the only thing it is documented to do
  (`BaseTransport.h:84`), removes every comma too (`BaseTransport.cpp:396`): a vCard whose
  message had one control character anywhere is stored with the parts of its names run together.
* A message that was cut is reported as one with invalid characters, and parsed twice.

*Opening.*
* A transport that is initialized twice handles every answer twice (`HttpExample`);
  one that is used for two sessions in a row is.
* In a sync without initialization phase `resendPackage` composes the changes again
  and no credentials (`ClientSessionHandler.cpp:528`): a challenge is answered with
  nothing, and where MD5 began without a nonce, so that no credentials are pending, one
  challenge after the other is.
* Where the first package does not fit into one message and that message is refused,
  `resendPackage` composes the package again behind what is left of the first
  (`ClientSessionHandler.cpp:525`): the credentials go out with the old Final element, and
  the session opens before the server has the rest. `InitializedOnce` leaves this out by
  `ComposedBehind`; the clients of `Odd` with room for three packages do it.
* After an answer that was lost, MD5 costs one session that fails.
* A server of this library that demands no credentials aborts a client that sends some;
  `HandleBasic` challenges for basic where MD5 was demanded.

*Notification.*
* Where `char` is signed, the codes 208 to 210 are read as others, a notification of eight or
  more databases has none, and URIs of more than 127 characters cannot be read; anywhere,
  16 databases are written as 0 and 17 as 1, and the two low bits of the version are
  shifted out of their byte (`ServerAlertedNotification.cpp:219`).
* Two databases of one MIME type cannot both be had: the client refuses.
* After a notification that could not be sent the session is aborted, set to PREPARED and
  left receiving (`ServerSessionHandler.cpp:710`).

*Devices.*
* A listener that ends without a session (aborted, or by a request it cannot read) leaves its
  transport open, which `Transport.h:153` has `SyncAgent` close; the premise of `BothEnd`.
* `listen()` blocks the main thread until a client has connected.
* Aborting before the first event was handled (`SyncAgent.cpp:416`) leaves a transport that
  is opened afterwards and never closed (`early`).
* A notification over OBEX is not sent: `sendSAN` does not call `prepareSend`
  (`BaseTransport.cpp:128`).

## 4. Proofs

The theorems hold for every value of the constants that the assumptions allow: any
databases and items, any `Fresh` and `Whole`, any number of mappings, any set of
configurations and any number and kind of faults. The assumptions are about types
(`DataAssumption` and `ConfigAssumption` of SyncSession, `MapsAssumption`,
`ConfigsAssumption` of SessionSaving, `RoomAssumption` and `KindAssumption` of
SessionOpening), but for two: a plug-in reports a change once (`ListsOnce`, in
`ConfigsAssumption` of ItemSending), and a schedule of the agents that disturbs anything
has timeouts (`ConfigAssumption` of SyncAgent; the proofs do not use it).

### Sessions

* **SyncSessionSafety** — `TypeCorrect`: `Spec => []TypeOK`. `TypeOK` is inductive
  as it stands. The work is in `Generate` and `Cuts` (what is left of a queue
  that was cut is a queue of packages) and in the modes: `ModesAnnounced` says
  that whatever alert code is read, the mode it gives has that code again, and that what a
  revert, a refresh or taking over a server's sync makes of a mode that has a code is one that
  has a code, so that an alert for it can be written. It comes back as it was announced, unless
  it was slow and its code is that of the fast mode.
* In the same module `TurnsTaken`: `Spec => []HalfDuplex`. `HalfDuplex` is
  not inductive: an initiator could send its first message while another one is under
  way. `Turns` adds that there is no message at all before the initiator has left
  its first state. Each action is then one of: it moves a message (network →
  parser → processing), consumes one, replaces one by its answer, or sends the
  first one. `EndsInOrder`: `Spec => []EndsOnce`, inductive relative to `TypeOK`.
  `SilentOnceClosed`: `Spec => ClosedIsSilent`, an action property, from `TypeOK`,
  `EndsOnce` and `Turns`: a closed session is in an end state, in which every handler
  either declines or only queues, and nothing is sent.
* **SyncSessionSavesLast** — `ClientLast`: `Spec => []ClientSavesLast`. No message says "I
  have saved": what makes a client finish is the end of a package, and that it is the end
  of the right one follows from where the ends of packages are. The invariant is `Ordered`,
  for a first package that is whole and a client that does not omit its last one. It gives,
  for the state of each session, what may be in its queue, in a message on its way to
  the other one and in the rest of a message that is being handled, and in which order. For
  example (`ItemsSent`): once the client has sent its changes, every end of a package that
  it may still read comes after something that takes it out of that state (a Sync, or
  where there was no initialization phase an alert), so that it does not take it for that
  of the last package. `FirstTaken` and `ChangesCut` are what `FirstPackageWhole` is
  needed for: a server may ask for a slow sync only after it has seen all changes that the
  client sent with its alerts. `MappingsSent`, `Finalized` and `OneFinal` lead to
  `SavedFirst`: the client is FINALIZING or finished only if the server is finished.
  `EndsOnce` makes of the states what the change logs hold.
* **SyncSessionAgreement** — `OneMode`: `Spec => [](Orderly => ModesAgree)`, and `AnchorsKnown`:
  `Spec => [](Orderly => AnchorsExchanged)`. `Orderly` is about the configuration alone: the
  first package is whole, the client does not omit its last one (both as for `ClientLast`),
  and `ModesTold`: a server that is sent changes only, by a client that needs no
  initialization phase, never sends an alert back (`finalReceived` composes the alerts with
  the changes it does not send), so the client goes on with the mode it began with. All
  configurations of the run `Sessions` are orderly. The argument: what a server makes of the
  alert of a database is settled before the alert is written (`ModeAtServer`, from the code,
  the anchors and the configuration), so every alert and status, in a queue or on its way,
  can be said to be one that agrees with it (`ForServer`, `ForClient`), and so can every target
  (`ServerTargets`, `ClientTargets`). `Heard` follows each database from the alert in the
  client's queue to the server's targets, to the alert in its queue and back: while a
  message is on its way, or when the client has finished, a database of the client is
  anchored or it is at one of these places. For that alerts must come before what ends the
  state they are understood in (`ClientOrder`, `ServerOrder`, `AlertsEarly`), which `Ordered`
  says of packages and not of the alerts in them. The invariant `Together` holds only while
  no session was given up (`Sound`).

### Items

* **ItemSendingSafety** — `OnceInOrder`: `Spec => []SentOnce`, and `WithTheirData`:
  `Spec => []SentWhole`, for any lists of changes, any number of commands a message and
  any batch size of the prefetcher, none or a negative one as well. `IInv` says what is
  left of the changes (`LeftInv`: those behind the ones that were sent; an item that is
  under way in chunks is the first of them) and what the prefetcher holds
  (`PrefetcherInv`: exactly the items between the last that was asked for and the last
  that was fetched, and of each what the plug-in had). A prefetcher with a negative hint is why
  `IInv` also needs `Enough`: it has then more items in hand than the message has room
  for, so that it is not asked beyond its batch before the next one is fetched.

### Change logs

* **SessionSavingSafety** — `LogTypes`: `Spec => []TypeOK`; `LogsWhole`:
  `Spec => []Whole`; and `LogsPromised`: `Spec => KeepsLog`, the refinement of
  LogPromise. `Whole` says nothing of a saving that is under way, so it is not
  inductive. `SavingInv` adds, for each device and where transactions can be had:
  what its statements see differs from what is stored in the log that is being saved
  only (`Seen`); what each statement has made of that log (`Written`); and that the
  logs still to be saved are those of older sessions (`Due`), which is why a commit
  is a `Save` of LogPromise and not a step back. Every statement within the
  transaction is then a stutter, `Commit` a `Save`, the first half of `Remove` a
  `Forget`, and `Finish`, `Fail`, `Crash` and `CleanUp` change at most what is asked for.
* `FastAgreed`: `Spec => []FastMeansAgreed`, on top of `SavingInv`. What ties the logs of
  two devices together is that an anchor names its session: `AnchorsInv` says that where
  sessions do not share a second (`brisk`) the anchors of a row, stored or not, are those of
  the session that wrote it, and `ModesInv` that the mode of an open session is still what
  a comparison of the stored anchors gives. Equal anchors are then rows of one session.
* `CalmSaved`: `Spec => []SavedIfCalm`. `CalmInv` follows each device through its
  statements in a session that nothing went wrong with: every log that it is done with
  has a row, and the one it is at has its row from `insertAnchors` on.

### Opening

* **SessionOpeningSafety** — `AcceptedBeforeOpen`: `Spec => []AcceptedFirst`, and
  `NeverDowngraded`: `Spec => []NoDowngrade`, for any configurations and any number of
  sessions. Both need what is on its way: that every answer that would open a session was
  given in this session by a server that had accepted the client (`PostsInv`, `EventsInv`), also
  one that comes late or twice, and that what is queued to be sent goes from basic
  credentials to digests and not back (`Creds`). That a client with an initialization holds
  its items back is a second invariant on top (`ItemsInv`): they may be queued for a moment in a
  session that is already over (`Waits`), while a message is processed, but not when it is done
  (`Holds`), and what the transport sends again is a message that was sent before.
* In the same module `WelcomeOpens`: `Spec => [](~cfg.prepared => RightPasswordOpens)`. The
  premise leaves out an application that calls `init()` of the transport too: the run
  `HttpExample` shows that no session of such a client opens. `WelcomeInv` adds to the
  invariant above what a session is that nothing disturbs (`CalmInv`): one message or one
  answer is under way, at the server, at the transport or at the parser; the message has
  the credentials the client can give now; and the answer accepts it (`Good`), or is the one
  challenge of the session, which brings the nonce that the server stored (`Bad`). The
  property speaks of a session and the one before it, so the invariant has to say what one
  session leaves to the next: that the two sides hold the same nonce at its end (`Agreed`,
  in `Ended`), or that a client has none yet (`StartInv`). After a disturbed session they may
  differ; then a digest is rejected, a second challenge would not be answered, and the
  session fails, but with the nonces agreed again. `OrderInv` says that
  what the server remembers of an earlier session cannot be taken for this one.

### Devices

* **SyncAgentSafety** — `ToldOnce`: `Spec => []EachEndsOnce`, for any number of
  operations, aborts, broken links and deleted agents, and for aborts before the first
  event was handled (`early`), which the run leaves out. The invariant is `Fine`, of each
  device by itself: a session is closed just as long as its end is the last step of the
  event that is being handled or is in the queue, and only one of the two (`Program`,
  `Events`); an agent without a session has no event left that would wake one (`Vital`);
  and a main thread that waits, waits for the last job in the mailbox of its worker
  (`Fits`), so that the end of that job takes away the step it was posted for.
  `FetchedOrDropped`: `Spec => MessageFetched`, an action property. A server sends by keeping
  its message until it is asked for it, so that the next message would replace one that
  was not fetched: nothing in `SendSyncML` asks whether there is one. The invariant
  `MessageInv` (`TurnsKept`) says why there is none. The main thread is at one of a few
  places of an answer, a wait or a close (`Stage`); of waiting for a message, having one
  in the queue and answering it there is one at a time (`Turns`); a worker does not have
  a message waited for before a fetching (`InOrder`); and a message that is kept is offered
  still, or a failure that will end the session is in the queue before the next message
  (`Keeps`), or the transport is being closed, and is released after its thread has
  ended (`Threads`).
* **SequenceLemmas** — what appending, dropping and filtering do to the members and the
  places of a sequence of any kind; used by SessionOpeningSafety and SyncAgentSafety.

## 5. What is only model-checked

* `AppliedOnce`, `MappingsComplete` and the refinement `KeepsPromise` of SyncSession need an
  invariant like `Together` of SyncSessionAgreement that also says which items are queued and
  on their way.
* The batches of ItemExchange are folds over sequences, sorted sets and selections, and what
  they compute needs an induction over data, which the provers cannot do:
  `NothingForgotten`, `StoredWhole`, `StatusTruthful`, `PolicyRespected`.
* SyncMLElements, MessageParser and ServerAlertedNotification are recursive:
  `ReadsAsWritten` of both, `RefusedWithCause`, `BeginsAsAsked`.
* `InitializedOnce` of SessionOpening and `InTurn` of SyncAgent are safety properties
  within reach, not proved. The first needs what the server took of each message under way,
  the second an order of the events of two devices.
* Liveness (`EventuallySaved`, `EverythingSent`, `Every...Ends`, `BothEnd`, `EndsWell`): the
  prover does not handle ENABLED, so what fairness gives stays with TLC.

## 6. What is not modelled

* **Suspend and resume** are not reachable in the code (`Q_ASSERT( 0 )` on the client,
  INTERNAL_ERROR on the server), and `SuspendLog` is used by nothing.
* **Sessions**: client-side Map commands, `noResp`, informative alerts other than
  NEXT_MESSAGE, busy signalling (IN_PROGRESS), EMI tags, the configured mode REFRESH
  (`SyncAgent.h` calls it unsupported), a storage that has no format to offer
  (DATABASE_FAILURE, `ServerSessionHandler.cpp:82`), a database that a client set up by a
  server cannot find (`ClientSessionHandler.cpp:574`). The mappings a session starts with are in
  ItemExchange (`StartSession`) instead of in the targets.
* **ItemExchange**: one-way and refresh syncs, several databases, items that users modify
  during a session (the code would never report them: it reads its changes at the
  start and saves the time of the end), parents, types and formats of items;
  `fast-maps-send` is off.
* **Opening**: both sides demanding credentials at once, formats of credentials that
  are not supported, user aborts, redirection, proxies and SSL, several transports. The
  nonces are stored for a pair of devices; the code stores them by the name of the remote
  device, which the server's answer may change (`ClientSessionHandler.cpp:296`). A server of
  the kind "class" challenges a client without credentials, where the code would accept one.
* **Notification**: the one for device management and `checkDigest`, which nothing calls.
* **Devices**: the `terminate()` of a worker that has not ended when the wait for it times
  out (`OBEXTransport.cpp:155`), workers that cannot be set up, `init()` of an OBEX transport that is in use,
  OBEX of other implementations (their headers, negative results, rejected sessions),
  configurations that are refused.
* **Device information**: what a session makes of the types a database exchanges.
* WbXML is a library of its own; reading the XML configuration is plain I/O.

## 7. Plan

1. Session core; items; opening, notification, messages, devices, sending and change logs
   (done).
2. Proofs of the safety properties of sending, saving, opening and of the ends of the
   agents' operations, and that who has the right password gets in (done).
3. Proof that the client saves last, from where the ends of the packages are, and that the
   two sides agree on modes and anchors (done).
4. Proofs: `InTurn` of the agents; `InitializedOnce` of an opening; the refinement of
   `SyncPromise`.
5. ItemExchange: one-way and refresh syncs, items modified during a session.
