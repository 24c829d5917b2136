---------------------------- MODULE ItemExchange ----------------------------
(***************************************************************************)
(* What the sessions of SyncSession carry: the items of one database, two  *)
(* ways, over several synchronizations of the same client and server.      *)
(* LocalChangesPackage writes a party's changes into Sync elements,        *)
(* CommandHandler and StorageHandler commit those of the other party,      *)
(* ConflictResolver decides for the server, SyncTarget maps the keys of    *)
(* the one side to those of the other, ChangeLog keeps the mappings and    *)
(* the time of the last synchronization.                                   *)
(*                                                                         *)
(* A Sync element is written, and is handled, in one turn of the event     *)
(* loop: one action each.  The order of the messages of a session is the   *)
(* subject of SyncSession; here it is the order of a session that nothing  *)
(* disturbs, broken off at any point by an abort.                          *)
(***************************************************************************)
EXTENDS Integers, Sequences, FiniteSets, SequencesExt

CONSTANTS
    Configs,        \* the ways the two devices are configured
    MaxWrites,      \* how often the users change something, at most ...
    MaxSessions     \* ... and the number of sessions, in one behaviour

Client  == "CLIENT"
Server  == "SERVER"
Party   == {Client, Server}
Other(p) == IF p = Client THEN Server ELSE Client

VARIABLES
    cfg,        \* the configuration, a member of Configs
    store,      \* the storage of a party: what a key holds
    nextKey,    \* the key a party's storage gives to its next item
    dirty,      \* what getModifications reports for the last sync time
    savedMaps,  \* the mappings in the change log of a party
    anchored,   \* do the anchors of the two change logs match?
    phase,      \* where the session is, or "idle"
    slow,       \* is it a slow sync?
    maps,       \* SyncTarget::iUIDMappings
    discovered, \* SyncTarget::iLocalChangesDiscovered
    changes,    \* SyncTarget::iLocalChanges
    queue,      \* the commands a LocalChangesPackage has left to write
    offset,     \* its iLargeObjectState.iOffset, in parts
    channel,    \* the Sync element on its way, if any
    building,   \* StorageHandler::iLargeObject, with its key and data
    answer,     \* the statuses of the Sync element handled last
    recent,     \* the keys this session wrote in the storage of a party
    writes,     \* how often the users have changed something
    sessions,   \* the number of sessions started
    refused,    \* has an item been answered with an error, ever?
    contested   \* what both users changed before this session

device  == <<store, nextKey, dirty, recent>>
log     == <<savedMaps, anchored>>
target  == <<maps, discovered, changes>>
sending == <<queue, offset>>
history == <<writes, sessions, refused, contested>>
vars    == <<cfg, device, log, phase, slow, target, sending, channel, building,
             answer, history>>

-----------------------------------------------------------------------------
(***************************************************************************)
(* Items.  A content is a write of a user.  Its data is one part, or two   *)
(* if it is large: the parts are what the chunks of a large object carry.  *)
(***************************************************************************)
NoKey   == 0
Key     == Nat \ {NoKey}
Content == [by : Party, n : 0..MaxWrites]
Part    == [of : Content, part : {1, 2}]

IsLarge(c) == c.n \in cfg.large
Whole(c)   == [i \in 1..(IF IsLarge(c) THEN 2 ELSE 1) |-> [of |-> c, part |-> i]]

LocalChange == [added : SUBSET Key, modified : SUBSET Key, removed : SUBSET Key]
NoChanges   == [added |-> {}, modified |-> {}, removed |-> {}]

Command    == [cmd : {"Add", "Replace", "Delete"}, key : Key]
ItemParams == [cmd : {"Add", "Replace", "Delete"}, source : Nat, target : Nat,
               data : Seq(Part), more : BOOLEAN]
UIDMapping == [remote : Nat, local : Nat]

NoObject   == [key |-> NoKey, rkey |-> NoKey, data |-> <<>>]
IsBuilding(object) == object # NoObject

\* The codes of items; those from 400 on are errors, but for the two that say
\* how a conflict or a duplicate was dealt with
Failures  == {"COMMAND_FAILED", "COMMAND_NOT_ALLOWED"}
ItemCodes == Failures \cup
             {"SUCCESS", "ITEM_ADDED", "CHUNKED_ITEM_ACCEPTED", "ITEM_NOT_DELETED",
              "ALREADY_EXISTS", "RESOLVED_WITH_SERVER_DATA", "RESOLVED_CLIENT_WINNING"}

-----------------------------------------------------------------------------
(***************************************************************************)
(* The storage plug-ins, which are not part of the library: a plug-in      *)
(* numbers its items, never uses a key twice, and reports what changed     *)
(* after a time, no matter whether a user or a session changed it.         *)
(***************************************************************************)
Touched(d, adds, mods, dels) ==
    [added    |-> (d.added \cup adds) \ dels,
     modified |-> (d.modified \cup (mods \ d.added)) \ dels,
     removed  |-> d.removed \cup (dels \ d.added)]

With(f, g)    == [k \in DOMAIN f \cup DOMAIN g |-> IF k \in DOMAIN g THEN g[k] ELSE f[k]]
Without(f, S) == [k \in DOMAIN f \ S |-> f[k]]

-----------------------------------------------------------------------------
(***************************************************************************)
(* SyncTarget: the first mapping that matches is the one that counts.      *)
(***************************************************************************)
First(ms, Match(_)) == ms[SelectInSeq(ms, Match)]

MapToLocalUID(ms, rkey) ==
    IF \E i \in DOMAIN ms : ms[i].remote = rkey
    THEN First(ms, LAMBDA m : m.remote = rkey).local
    ELSE NoKey

MapToRemoteUID(ms, lkey) ==
    IF \E i \in DOMAIN ms : ms[i].local = lkey
    THEN First(ms, LAMBDA m : m.local = lkey).remote
    ELSE NoKey

RemoveUIDMapping(ms, lkey) == RemoveFirstMatch(ms, LAMBDA m : m.local = lkey)

\* discoverLocalChanges of a two-way sync
LocalChanges(p, whole) ==
    IF whole THEN [NoChanges EXCEPT !.added = DOMAIN store[p]] ELSE dirty[p]

-----------------------------------------------------------------------------
(***************************************************************************)
(* LocalChangesPackage.  The commands are written in order, at most        *)
(* maxChanges of them to a Sync element; a large object that was not begun *)
(* in an earlier element breaks off the element after its first chunk.     *)
(* An item whose data cannot be read is written without any.               *)
(***************************************************************************)
Ascending(S) == SetToSortSeq(S, <)

Commands(c) ==
    LET Of(cmd, S) == [i \in 1..Cardinality(S) |-> [cmd |-> cmd, key |-> Ascending(S)[i]]]
    IN Of("Add", c.added) \o Of("Replace", c.modified) \o Of("Delete", c.removed)

Read(p, c) ==
    IF c.cmd = "Delete" \/ c.key \notin DOMAIN store[p] THEN <<>> ELSE store[p][c.key]

\* A server names its own key in an Add, and the client's key in the others
ItemOf(p, c, data, more) ==
    [cmd    |-> c.cmd,
     source |-> IF p = Client \/ c.cmd = "Add" THEN c.key ELSE NoKey,
     target |-> IF p = Client \/ c.cmd = "Add" THEN NoKey
                ELSE MapToRemoteUID(maps[p], c.key),
     data   |-> data,
     more   |-> more]

\* Mutant: the first chunk is sent again with the last one
UnsentDataFromStart(p, i) == Read(p, queue[p][i])

\* The data of the i-th command in the queue that was not sent before
UnsentData(p, i) ==
    LET data == Read(p, queue[p][i]) IN
    IF i = 1 THEN SubSeq(data, offset[p] + 1, Len(data)) ELSE data

\* Whole items, and perhaps the first chunk of a large one that is begun
WriteSync(p) ==
    LET count    == IF Len(queue[p]) < cfg.maxChanges THEN Len(queue[p]) ELSE cfg.maxChanges
        begun    == {i \in 1..count : Len(Read(p, queue[p][i])) > 1 /\ (i = 1 => offset[p] = 0)}
        full     == IF begun = {} THEN count ELSE Min(begun) - 1
        Full(i)  == ItemOf(p, queue[p][i], UnsentData(p, i), FALSE)
        Chunk(i) == ItemOf(p, queue[p][i], SubSeq(Read(p, queue[p][i]), 1, 1), TRUE)
        left     == SubSeq(queue[p], full + 1, Len(queue[p]))
    IN
    /\ channel' = <<[items |-> [i \in 1..full |-> Full(i)]
                               \o (IF begun = {} THEN <<>> ELSE <<Chunk(full + 1)>>),
                     last  |-> left = <<>>]>>
    /\ queue' = [queue EXCEPT ![p] = left]
    /\ offset' = [offset EXCEPT ![p] = IF begun = {} THEN 0 ELSE 1]

SendSync(p) ==
    /\ phase = p
    /\ channel = <<>>
    /\ WriteSync(p)
    /\ answer' = <<>>
    /\ UNCHANGED <<cfg, device, log, phase, slow, target, building, history>>

-----------------------------------------------------------------------------
(***************************************************************************)
(* CommandHandler::composeBatches: the items of a Sync element are sorted  *)
(* into the batches of StorageHandler (functions of the item's index, as   *)
(* its QMaps are of the item's id), or answered at once.  W are the items  *)
(* whose data the plug-in does not take.                                   *)
(***************************************************************************)
LocalKey(p, item) ==
    IF item.cmd = "Add"   THEN NoKey
    ELSE IF p = Client    THEN item.target
    ELSE MapToLocalUID(maps[p], item.source)

\* What a large object is known by while it is built
ObjectKey(p, item) == IF item.cmd = "Add" THEN item.source ELSE LocalKey(p, item)

Put(f, i, value) == With(f, [j \in {i} |-> value])
Respond(batch, i, code) == [batch EXCEPT !.codes = Put(@, i, code)]

\* startLargeObjectAdd and startLargeObjectReplace
StartLargeObject(p, item) ==
    [key  |-> IF LocalKey(p, item) \in DOMAIN store[p] THEN LocalKey(p, item) ELSE NoKey,
     rkey |-> ObjectKey(p, item),
     data |-> <<>>]

\* The last chunk.  The object goes to its batch under the key it is known by
FinishLargeObject(p, batch, i, item, wrote) ==
    LET object == batch.building
        entry  == [key |-> object.rkey, data |-> object.data \o item.data]
        free   == [batch EXCEPT !.building = NoObject]
    IN
    IF ObjectKey(p, item) # object.rkey THEN Respond(free, i, "COMMAND_NOT_ALLOWED")
    ELSE IF ~wrote                      THEN Respond(free, i, "COMMAND_FAILED")
    ELSE IF object.key = NoKey          THEN [free EXCEPT !.adds = Put(@, i, entry)]
    ELSE [free EXCEPT !.replaces = Put(@, i, entry)]

\* A chunk that is not the last one
AppendChunk(p, batch, i, item, wrote) ==
    LET object == IF IsBuilding(batch.building) THEN batch.building
                  ELSE StartLargeObject(p, item)
    IN
    IF wrote
    THEN Respond([batch EXCEPT !.building = [object EXCEPT !.data = @ \o item.data]],
                 i, "CHUNKED_ITEM_ACCEPTED")
    ELSE Respond([batch EXCEPT !.building = NoObject], i, "COMMAND_FAILED")

\* An item that is not chunked; a Replace of what is not there is an Add
BatchItem(p, batch, i, item, wrote) ==
    LET entry == [key |-> LocalKey(p, item), data |-> item.data] IN
    IF ~wrote
    THEN Respond(batch, i, "COMMAND_FAILED")
    ELSE IF entry.key \in DOMAIN store[p]
    THEN [batch EXCEPT !.replaces = Put(@, i, entry)]
    ELSE [batch EXCEPT !.adds = Put(@, i, entry)]

DeleteItem(p, batch, i, item) ==
    IF IsBuilding(batch.building)
    THEN Respond(batch, i, "COMMAND_FAILED")
    ELSE [batch EXCEPT !.deletes = Put(@, i, [key |-> LocalKey(p, item), data |-> <<>>])]

ComposeBatches(p, items, W) ==
    LET Compose(batch, i) ==
            LET item == items[i] IN
            IF item.cmd = "Delete" THEN DeleteItem(p, batch, i, item)
            ELSE IF item.more      THEN AppendChunk(p, batch, i, item, i \notin W)
            ELSE IF IsBuilding(batch.building)
                                   THEN FinishLargeObject(p, batch, i, item, i \notin W)
            ELSE BatchItem(p, batch, i, item, i \notin W)
    IN FoldLeft(Compose,
                [building |-> building[p], adds |-> <<>>, replaces |-> <<>>,
                 deletes |-> <<>>, codes |-> <<>>],
                [i \in DOMAIN items |-> i])

-----------------------------------------------------------------------------
(***************************************************************************)
(* ConflictResolver.  Only a server resolves conflicts.  Every command is  *)
(* asked for as one that deletes nothing.                                  *)
(***************************************************************************)
\* Mutant: only the items that were removed here are looked for
IsConflictOfRemoved(p, c, key) ==
    /\ p = Server
    /\ key # NoKey
    /\ key \in c.removed

IsConflict(p, c, key) ==
    /\ p = Server
    /\ key # NoKey
    /\ key \in c.removed \cup c.modified

LocalSideWins == cfg.policy = "PREFER_LOCAL_CHANGES"

Conflicts(p, c, batch) == {i \in DOMAIN batch : IsConflict(p, c, batch[i].key)}
Keys(batch, S)         == {batch[i].key : i \in S}

\* What the plug-in is given of a batch
Surviving(p, c, batch) ==
    IF LocalSideWins THEN DOMAIN batch \ Conflicts(p, c, batch) ELSE DOMAIN batch

RemoveLocalChanges(c, K) == [c EXCEPT !.removed = @ \ K, !.modified = @ \ K]

\* resolveConflicts of items: a local change that lost is forgotten
ResolveItems(p, c, batch) ==
    IF LocalSideWins THEN c
    ELSE RemoveLocalChanges(c, Keys(batch, Conflicts(p, c, batch)))

\* resolveConflicts of keys: a local modification that won is sent as an Add,
\* for the remote side has the item no more
ResolveKeys(p, c, batch) ==
    LET lost == Keys(batch, Conflicts(p, c, batch)) IN
    IF LocalSideWins
    THEN [c EXCEPT !.modified = @ \ lost, !.added = @ \cup (lost \cap c.modified)]
    ELSE RemoveLocalChanges(c, lost)

-----------------------------------------------------------------------------
(***************************************************************************)
(* StorageHandler: the three commits, each after its resolution of         *)
(* conflicts, and CommandHandler::commitBatches, which turns their results *)
(* into statuses and mappings.  F are the items the plug-in fails for.     *)
(***************************************************************************)
Resolved(p, c, batch, i, code) ==
    IF i \notin Conflicts(p, c, batch) THEN code
    ELSE IF LocalSideWins              THEN "RESOLVED_WITH_SERVER_DATA"
    ELSE "RESOLVED_CLIENT_WINNING"

Duplicate(stored, data) == cfg.detects /\ \E k \in DOMAIN stored : stored[k] = data

\* Mutant: the items a plug-in failed to replace are not told apart
CommitReplacedItemsAll(p, stored, c, batch, F) ==
    LET done == {i \in Surviving(p, c, batch) \ F : batch[i].key \in DOMAIN stored}
    IN
    [stored  |-> With(stored, [k \in Keys(batch, done) |->
                                  batch[CHOOSE i \in done : batch[i].key = k].data]),
     changes |-> ResolveItems(p, c, batch),
     done    |-> done,
     codes   |-> [i \in DOMAIN batch |-> Resolved(p, c, batch, i, "SUCCESS")]]

\* An outcome: what the storage holds, the change list, the code of each item,
\* and the keys that were added, written and removed
CommitAddedItems(p, c, batch, F) ==
    LET given == Surviving(p, c, batch) \ F
        dups  == {i \in given : Duplicate(store[p], batch[i].data)}
        done  == given \ dups
        Key_(i) == nextKey[p] + Cardinality({j \in done : j < i})
    IN
    [stored  |-> With(store[p], [k \in {Key_(i) : i \in done} |->
                                    batch[CHOOSE i \in done : Key_(i) = k].data]),
     changes |-> ResolveItems(p, c, batch),
     key     |-> [i \in DOMAIN batch |-> IF i \in done THEN Key_(i) ELSE batch[i].key],
     done    |-> done,
     codes   |-> [i \in DOMAIN batch |->
                     IF i \notin Surviving(p, c, batch)
                                    THEN Resolved(p, c, batch, i, "ITEM_ADDED")
                     ELSE IF i \in F    THEN "COMMAND_FAILED"
                     ELSE IF i \in dups THEN "ALREADY_EXISTS"
                     ELSE Resolved(p, c, batch, i, "ITEM_ADDED")]]

CommitReplacedItems(p, stored, c, batch, F) ==
    LET done == {i \in Surviving(p, c, batch) \ F : batch[i].key \in DOMAIN stored}
    IN
    [stored  |-> With(stored, [k \in Keys(batch, done) |->
                                  batch[CHOOSE i \in done : batch[i].key = k].data]),
     changes |-> ResolveItems(p, c, batch),
     done    |-> done,
     codes   |-> [i \in DOMAIN batch |->
                     IF i \in Surviving(p, c, batch) \ done THEN "COMMAND_FAILED"
                     ELSE Resolved(p, c, batch, i, "SUCCESS")]]

CommitDeletedItems(p, stored, c, batch, F) ==
    LET given == Surviving(p, c, batch) \ F
        done  == {i \in given : batch[i].key \in DOMAIN stored}
    IN
    [stored  |-> Without(stored, Keys(batch, done)),
     changes |-> ResolveKeys(p, c, batch),
     done    |-> done,
     unmap   |-> given,
     codes   |-> [i \in DOMAIN batch |->
                     IF i \notin Surviving(p, c, batch)
                                             THEN Resolved(p, c, batch, i, "SUCCESS")
                     ELSE IF i \in F         THEN "COMMAND_FAILED"
                     ELSE IF i \notin done   THEN "ITEM_NOT_DELETED"
                     ELSE Resolved(p, c, batch, i, "SUCCESS")]]

\* manageNewMappings: the added items, and those whose Add lost a conflict
NewMappings(p, items, c, batch, added) ==
    LET ids == added.done \cup (DOMAIN batch \ Surviving(p, c, batch)) IN
    [n \in 1..Cardinality(ids) |->
        [remote |-> items[Ascending(ids)[n]].source,
         local  |-> added.key[Ascending(ids)[n]]]]

Unmapped(ms, batch, ids) ==
    FoldLeft(LAMBDA acc, i : RemoveUIDMapping(acc, batch[i].key), ms, Ascending(ids))

-----------------------------------------------------------------------------
(***************************************************************************)
(* handleSyncElement of an element that is accepted.  The first one has a  *)
(* server discover its own changes, before any item is committed.          *)
(***************************************************************************)
Discovered(p) == IF discovered[p] THEN changes[p] ELSE LocalChanges(p, slow)

\* What both users changed, with the contents of both sides, by the server's key
Contest(clients, servers) ==
    {[key |-> k, client |-> store[Client][MapToRemoteUID(maps[Server], k)],
      server |-> store[Server][k]] :
        k \in {k \in servers.modified : MapToRemoteUID(maps[Server], k) \in clients.modified}}

\* The element handled by p, given what the plug-in does not write and fails for
Handle(p, items, W, F) ==
    LET batch    == ComposeBatches(p, items, W)
        added    == CommitAddedItems(p, Discovered(p), batch.adds, F)
        replaced == CommitReplacedItems(p, added.stored, added.changes, batch.replaces, F)
        deleted  == CommitDeletedItems(p, replaced.stored, replaced.changes, batch.deletes, F)
        codes    == With(With(batch.codes, added.codes), With(replaced.codes, deleted.codes))
        addKeys  == {added.key[i] : i \in added.done}
        modKeys  == Keys(batch.replaces, replaced.done)
        delKeys  == Keys(batch.deletes, deleted.done)
    IN
    /\ store' = [store EXCEPT ![p] = deleted.stored]
    /\ nextKey' = [nextKey EXCEPT ![p] = @ + Cardinality(added.done)]
    /\ dirty' = [dirty EXCEPT ![p] = Touched(@, addKeys, modKeys, delKeys)]
    /\ recent' = [recent EXCEPT ![p] = @ \cup addKeys \cup modKeys \cup delKeys]
    /\ maps' = [maps EXCEPT ![p] =
                   Unmapped(@, batch.deletes, deleted.unmap)
                   \o NewMappings(p, items, Discovered(p), batch.adds, added)]
    /\ discovered' = [discovered EXCEPT ![p] = TRUE]
    /\ changes' = [changes EXCEPT ![p] = deleted.changes]
    /\ building' = [building EXCEPT ![p] = batch.building]
    /\ answer' = [i \in DOMAIN items |-> [by |-> p, item |-> items[i], code |-> codes[i]]]
    /\ refused' = (refused \/ \E i \in DOMAIN items : codes[i] \in Failures)

\* The items a plug-in may refuse to write, and those it may fail to commit
MayFail(kind, items) == IF kind \in cfg.fails THEN SUBSET DOMAIN items ELSE {{}}

HandleSync(p) ==
    /\ phase = Other(p)
    /\ channel # <<>>
    /\ LET sync == channel[1] IN
       /\ \E W \in MayFail("write", sync.items), F \in MayFail("commit", sync.items) :
             Handle(p, sync.items, W, F)
       /\ phase' = IF ~sync.last THEN phase ELSE IF p = Server THEN Server ELSE "mapping"
       \* the last package received, the server composes its own
       /\ queue' = IF sync.last /\ p = Server
                   THEN [queue EXCEPT ![Server] = Commands(changes'[Server])] ELSE queue
    /\ contested' = IF p = Server /\ ~discovered[Server]
                    THEN Contest(changes[Client], Discovered(Server)) ELSE contested
    /\ channel' = <<>>
    /\ UNCHANGED <<cfg, log, slow, offset, writes, sessions>>

-----------------------------------------------------------------------------
(***************************************************************************)
(* A session, from the discovery of the client's changes to the saves.     *)
(* A client starts without mappings, unless the server alerted it.         *)
(***************************************************************************)
StartSession(alerted) ==
    /\ phase = "idle"
    /\ sessions < MaxSessions
    /\ sessions' = sessions + 1
    /\ phase' = Client
    /\ slow' = ~anchored
    /\ maps' = [p \in Party |-> IF slow' \/ (p = Client /\ ~alerted) THEN <<>>
                                ELSE savedMaps[p]]
    /\ discovered' = [p \in Party |-> p = Client]
    /\ changes' = [p \in Party |-> IF p = Client THEN LocalChanges(Client, slow') ELSE NoChanges]
    /\ queue' = [p \in Party |-> IF p = Client THEN Commands(changes'[Client]) ELSE <<>>]
    /\ offset' = [p \in Party |-> 0]
    /\ building' = [p \in Party |-> NoObject]
    /\ recent' = [p \in Party |-> {}]
    /\ contested' = {}
    /\ answer' = <<>>
    /\ UNCHANGED <<cfg, store, nextKey, dirty, log, channel, writes, refused>>

\* Mutant: the two keys of a mapping are not swapped
AddMappingsUnswapped == maps[Server] \o maps[Client]

\* LocalMappingsPackage, and handleMap of the server: what is remote to the one
\* side is local to the other
AddMappings ==
    maps[Server] \o [i \in DOMAIN maps[Client] |->
                        [remote |-> maps[Client][i].local, local |-> maps[Client][i].remote]]

ExchangeMappings ==
    /\ phase = "mapping"
    /\ phase' = "finalizing"
    /\ maps' = [maps EXCEPT ![Server] = AddMappings]
    /\ answer' = <<>>
    /\ UNCHANGED <<cfg, device, log, slow, discovered, changes, sending, channel,
                   building, history>>

\* saveSession: the time it stores is cut to the second, so that what a quick
\* session wrote itself was written after that time
StillReported(p) ==
    IF cfg.quick
    THEN [added    |-> dirty[p].added \cap recent[p],
          modified |-> dirty[p].modified \cap recent[p],
          removed  |-> dirty[p].removed \cap recent[p]]
    ELSE NoChanges

SaveSession(p) ==
    /\ savedMaps' = [savedMaps EXCEPT ![p] = maps[p]]
    /\ dirty' = [dirty EXCEPT ![p] = StillReported(p)]
    /\ answer' = <<>>
    /\ UNCHANGED <<cfg, store, nextKey, recent, slow, target, sending, channel,
                   building, history>>

\* The server saves with its last message, the client when it has that message
SaveServer ==
    /\ phase = "finalizing"
    /\ phase' = "closing"
    /\ anchored' = FALSE
    /\ SaveSession(Server)

SaveClient ==
    /\ phase = "closing"
    /\ phase' = "idle"
    /\ anchored' = TRUE
    /\ SaveSession(Client)

\* The session ends before its end: nothing of it is saved, but what the
\* storages were given stays there
Abort ==
    /\ cfg.aborts
    /\ phase # "idle"
    /\ phase' = "idle"
    /\ channel' = <<>>
    /\ answer' = <<>>
    /\ UNCHANGED <<cfg, device, log, slow, target, sending, building, history>>

-----------------------------------------------------------------------------
(***************************************************************************)
(* The users.  Without cfg.clashes a user does not delete what the other   *)
(* user modified since the last synchronization, nor modify what the other *)
(* user deleted.                                                           *)
(***************************************************************************)
Counterpart(p, k) ==
    IF p = Server THEN MapToRemoteUID(savedMaps[Server], k) ELSE MapToLocalUID(savedMaps[Server], k)

UserStep(p) ==
    /\ phase = "idle"
    /\ writes < cfg.writes
    /\ writes' = writes + 1
    /\ answer' = <<>>
    /\ UNCHANGED <<cfg, recent, log, phase, slow, target, sending, channel, building,
                   sessions, refused, contested>>

UserContent(p) == Whole([by |-> p, n |-> writes + 1])

UserAdd(p) ==
    /\ UserStep(p)
    /\ store' = [store EXCEPT ![p] = Put(@, nextKey[p], UserContent(p))]
    /\ nextKey' = [nextKey EXCEPT ![p] = @ + 1]
    /\ dirty' = [dirty EXCEPT ![p] = Touched(@, {nextKey[p]}, {}, {})]

UserModify(p, k) ==
    /\ UserStep(p)
    /\ cfg.clashes \/ Counterpart(p, k) \notin dirty[Other(p)].removed
    /\ store' = [store EXCEPT ![p][k] = UserContent(p)]
    /\ dirty' = [dirty EXCEPT ![p] = Touched(@, {}, {k}, {})]
    /\ UNCHANGED nextKey

UserDelete(p, k) ==
    /\ UserStep(p)
    /\ cfg.clashes \/ Counterpart(p, k) \notin dirty[Other(p)].modified
    /\ store' = [store EXCEPT ![p] = Without(@, {k})]
    /\ dirty' = [dirty EXCEPT ![p] = Touched(@, {}, {}, {k})]
    /\ UNCHANGED nextKey

-----------------------------------------------------------------------------
(***************************************************************************)
(* The configuration: policy is the server's conflict resolution policy,   *)
(* maxChanges the property of that name, large the writes that are large,  *)
(* detects whether the plug-ins detect duplicates, shared whether the two  *)
(* sides use the same keys for different items, fails what the plug-ins    *)
(* may fail in, writes the number of changes by the users, alerted whether *)
(* the server may alert the client, and the client start on its own;       *)
(* quick, aborts and clashes as told above.                                *)
(***************************************************************************)
Config == [policy : {"PREFER_LOCAL_CHANGES", "PREFER_REMOTE_CHANGES"},
           maxChanges : Nat \ {0}, large : SUBSET (0..MaxWrites),
           detects : BOOLEAN, shared : BOOLEAN, fails : SUBSET {"write", "commit"},
           writes : 0..MaxWrites, alerted : SUBSET BOOLEAN,
           quick : BOOLEAN, aborts : BOOLEAN, clashes : BOOLEAN]

ASSUME ConfigAssumption ==
    /\ MaxWrites \in Nat
    /\ MaxSessions \in Nat
    /\ Configs \subseteq Config

\* The server's keys, when each side had an item and they were synchronised: a
\* side gave its own item the first key, and the other's the second
ServerKey(n) == n + (IF cfg.shared THEN 1 ELSE 100)

Init ==
    /\ cfg \in Configs
    /\ LET mine(p) == Whole([by |-> p, n |-> 0]) IN
       store = [p \in Party |-> IF p = Client
                                THEN (1 :> mine(Client) @@ 2 :> mine(Server))
                                ELSE (ServerKey(1) :> mine(Server) @@ ServerKey(2) :> mine(Client))]
    /\ nextKey = [p \in Party |-> IF p = Client THEN 3 ELSE ServerKey(3)]
    /\ dirty = [p \in Party |-> NoChanges]
    /\ savedMaps = [p \in Party |->
                       IF p = Client THEN <<[remote |-> ServerKey(1), local |-> 2]>>
                       ELSE <<[remote |-> 1, local |-> ServerKey(2)],
                              [remote |-> 2, local |-> ServerKey(1)]>>]
    /\ anchored = TRUE
    /\ phase = "idle"
    /\ slow = FALSE
    /\ maps = [p \in Party |-> <<>>]
    /\ discovered = [p \in Party |-> FALSE]
    /\ changes = [p \in Party |-> NoChanges]
    /\ queue = [p \in Party |-> <<>>]
    /\ offset = [p \in Party |-> 0]
    /\ channel = <<>>
    /\ building = [p \in Party |-> NoObject]
    /\ answer = <<>>
    /\ recent = [p \in Party |-> {}]
    /\ writes = 0
    /\ sessions = 0
    /\ refused = FALSE
    /\ contested = {}

Synchronise ==
    \/ \E p \in Party : SendSync(p) \/ HandleSync(p)
    \/ ExchangeMappings
    \/ SaveServer
    \/ SaveClient

Next ==
    \/ \E alerted \in cfg.alerted : StartSession(alerted)
    \/ Synchronise
    \/ Abort
    \/ \E p \in Party :
          \/ UserAdd(p)
          \/ \E k \in DOMAIN store[p] : UserModify(p, k) \/ UserDelete(p, k)

Spec == Init /\ [][Next]_vars

=============================================================================
