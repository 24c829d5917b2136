--------------------------- MODULE SessionHandler ---------------------------
(***************************************************************************)
(* The part of a SyncML session that does not depend on its role:          *)
(* SessionHandler, the ResponseGenerator that packs its answers into       *)
(* messages, the SyncTargets it synchronises, and the BaseTransport that   *)
(* carries its messages.  A client and a server session stand side by      *)
(* side: every variable of a session is a function of the party.           *)
(* ClientSession and ServerSession add what the two roles do differently,  *)
(* SyncSession composes them.                                              *)
(*                                                                         *)
(* A session runs in one event loop.  One message is processed without a   *)
(* break, so an action per fragment of it is finer than what the code does *)
(* and only the other party's actions come between two of them.            *)
(***************************************************************************)
EXTENDS Naturals, Sequences, SyncModes

CONSTANTS
    Db,             \* the databases, by one name on both sides
    Item,           \* the items of the databases
    Fresh,          \* what a party changed in a database since the last sync
    Whole,          \* everything a party has in a database
    Configs,        \* the ways the two sides are configured
    FaultKinds,     \* the faults the environment may cause ...
    MaxFaults       \* ... and how many of them, in one behaviour

Client  == "CLIENT"
Server  == "SERVER"
Party   == {Client, Server}
Other(p) == IF p = Client THEN Server ELSE Client

PackageKinds == {"Alert", "Sync", "Map", "PutGet", "Results", "Final"}

ASSUME DataAssumption ==
    /\ Fresh \in [Party -> [Db -> Seq(Item)]]
    /\ Whole \in [Party -> [Db -> Seq(Item)]]
    /\ MaxFaults \in Nat

VARIABLES
    cfg,             \* the configuration of both sides, a member of Configs
    syncState,       \* iSyncState
    syncFinished,    \* iSyncFinished
    sessionClosed,   \* iSessionClosed
    syncWithoutInit, \* iSyncWithoutInitPhase
    cmdResp,         \* cmdRespMap: is it filled, and what it has for "alert"
    remoteInf,       \* DevInfHandler::iRemoteDevInfReceived
    statuses,        \* ResponseGenerator::iStatuses
    packages,        \* ResponseGenerator::iPackages
    targets,         \* iSyncTargets
    processing,      \* iProcessing
    fragments,       \* the fragments of the message still to be processed
    last,            \* aLastMessageInPackage
    changeLog,       \* what saveSession wrote: the targets of each save
    applied,         \* the items handed to the storage plug-ins, in order
    armed,           \* BaseTransport::iHandleIncomingData
    incoming,        \* BaseTransport::iIncomingData, a buffer of one message
    parsed,          \* messages parsed, their parsingComplete still queued
    net,             \* messages on their way to a party
    faults           \* the faults caused so far

vars == <<cfg, syncState, syncFinished, sessionClosed, syncWithoutInit, cmdResp,
          remoteInf, statuses, packages, targets, processing, fragments, last,
          changeLog, applied, armed, incoming, parsed, net, faults>>

reading == <<processing, fragments, last>>
link    == <<armed, incoming, parsed, net>>
control == <<syncState, syncFinished, sessionClosed>>
storage == <<changeLog, applied>>
peer    == <<cmdResp, remoteInf>>

-----------------------------------------------------------------------------
(***************************************************************************)
(* States, statuses, packages and messages.  A package is queued as the    *)
(* fragments it will be read back as; Final is the element that makes the  *)
(* parser report the last message of a package.  The parser also moves a   *)
(* Put and Results next to the header: no handler of the fragments it      *)
(* overtakes reads what they set, so here they keep their place.           *)
(***************************************************************************)
InitStates     == {"PREPARED", "LOCAL_INIT", "REMOTE_INIT"}
ExchangeStates == {"SENDING_ITEMS", "RECEIVING_ITEMS", "SENDING_MAPPINGS",
                   "RECEIVING_MAPPINGS", "FINALIZING"}
ProgressStates == InitStates \cup ExchangeStates
ErrorStates    == {"INTERNAL_ERROR", "DATABASE_FAILURE", "ABORTED", "CONNECTION_ERROR",
                   "INVALID_SYNCML_MESSAGE", "UNSUPPORTED_SYNC_TYPE",
                   "UNSUPPORTED_STORAGE_TYPE"}
SyncStates     == {"NOT_PREPARED", "SYNC_FINISHED"} \cup ProgressStates \cup ErrorStates

NoDb      == "-"
Commands  == {"SyncHdr", "Alert", "Put", "Get", "Results", "Sync", "Item", "Map"}
Responses == {"SUCCESS", "ITEM_ADDED", "REFRESH_REQUIRED", "NOT_FOUND",
              "COMMAND_NOT_ALLOWED", "COMMAND_FAILED"}

StatusOf(cmd, db, code) == [kind |-> "Status", cmd |-> cmd, db |-> db, code |-> code]
Alert(code, db)         == [kind |-> "Alert", code |-> code, db |-> db]
Changes(db, items)      == [kind |-> "Sync", db |-> db, items |-> items]
Mappings(db, items)     == [kind |-> "Map", db |-> db, items |-> items]
Header                  == [kind |-> "Header"]
DevInf                  == [kind |-> "PutGet"]
DevInfResults           == [kind |-> "Results"]
FinalPackage            == [kind |-> "Final"]

Status   == [kind : {"Status"}, cmd : Commands, db : Db \cup {NoDb}, code : Responses]
Package  == [kind : {"Alert"}, code : SyncCodes \cup {NEXT_MESSAGE}, db : Db]
            \cup [kind : {"Sync", "Map"}, db : Db, items : Seq(Item)]
            \cup [kind : {"PutGet", "Results", "Final"}]
Fragment == {Header} \cup Status \cup Package
Message  == Seq(Fragment)

(***************************************************************************)
(* SyncTarget.                                                             *)
(***************************************************************************)
Target == [db : Db, mode : AlertMode, reverted : BOOLEAN, discovered : BOOLEAN,
           changes : Seq(Item), mapped : Seq(Item), anchored : BOOLEAN]

NewTarget(db, mode) ==
    [db |-> db, mode |-> mode, reverted |-> FALSE, discovered |-> FALSE,
     changes |-> <<>>, mapped |-> <<>>, anchored |-> FALSE]

RevertSyncMode(t) ==
    IF t.mode.type = "FAST"
    THEN [t EXCEPT !.mode = ToSlowSync(@), !.reverted = TRUE]
    ELSE t

\* Mutant: setRefreshFromClient without its check of the direction
RefreshOrRevertAnyDirection(t) ==
    IF t.mode.init = "CLIENT"
    THEN [t EXCEPT !.mode = SetRefresh(@)]
    ELSE RevertSyncMode(t)

\* SyncTarget::setRefreshFromClient, or a revert when it declines
RefreshOrRevert(t) ==
    IF t.mode.dir = "FROM_CLIENT" /\ t.mode.init = "CLIENT"
    THEN [t EXCEPT !.mode = SetRefresh(@)]
    ELSE RevertSyncMode(t)

\* A refresh is discovered only by a client that is the source of it
Discoverable(p, t) ==
    \/ t.discovered
    \/ (Sends(p, t.mode.dir) /\ t.mode.type = "REFRESH") => p = Client

\* Mutant: a slow sync that sends what a fast one does
LocalChangesAlwaysFresh(p, t) ==
    IF Sends(p, t.mode.dir) THEN Fresh[p][t.db] ELSE <<>>

LocalChanges(p, t) ==
    IF ~Sends(p, t.mode.dir)                     THEN <<>>
    ELSE IF t.mode.type # "FAST" \/ cfg.first    THEN Whole[p][t.db]
    ELSE Fresh[p][t.db]

DiscoverLocalChanges(p, t) ==
    IF t.discovered \/ ~Discoverable(p, t)
    THEN t
    ELSE [t EXCEPT !.discovered = TRUE, !.changes = LocalChanges(p, t)]

HasTarget(p, db) == \E i \in DOMAIN targets[p] : targets[p][i].db = db
TargetOf(p, db)  == targets[p][CHOOSE i \in DOMAIN targets[p] : targets[p][i].db = db]

\* targets with the one of db replaced by Op of it
WithTarget(p, db, Op(_)) ==
    [targets EXCEPT ![p] =
        [i \in DOMAIN @ |-> IF @[i].db = db THEN Op(@[i]) ELSE @[i]]]

-----------------------------------------------------------------------------
(***************************************************************************)
(* Leaving a session.  exitSync closes it once, saves the session if it    *)
(* ended well, and drops the packages and the targets.                     *)
(***************************************************************************)
ExitSync(p) ==
    IF sessionClosed[p]
    THEN UNCHANGED <<sessionClosed, changeLog, packages, targets>>
    ELSE /\ sessionClosed' = [sessionClosed EXCEPT ![p] = TRUE]
         /\ changeLog' = IF syncState'[p] = "SYNC_FINISHED"
                         THEN [changeLog EXCEPT ![p] = Append(@, targets[p])]
                         ELSE changeLog
         /\ packages' = [packages EXCEPT ![p] = <<>>]
         /\ targets' = [targets EXCEPT ![p] = <<>>]

\* Mutant: the session is left without being finished
AbortSyncUnfinished(p, state) ==
    /\ ~sessionClosed[p]
    /\ syncState' = [syncState EXCEPT ![p] = state]
    /\ UNCHANGED syncFinished
    /\ ExitSync(p)

\* abortSync( aState ) called while no message is processed
AbortSync(p, state) ==
    /\ ~sessionClosed[p]
    /\ syncState' = [syncState EXCEPT ![p] = state]
    /\ syncFinished' = [syncFinished EXCEPT ![p] = TRUE]
    /\ ExitSync(p)

\* Mutant: an abort of a session that was closed before
AbortInMessageWhenClosed(p, state) ==
    /\ syncState' = [syncState EXCEPT ![p] = state]
    /\ syncFinished' = [syncFinished EXCEPT ![p] = TRUE]
    /\ UNCHANGED sessionClosed

\* abortSync( aState ) called from the processing of a message: the exit waits
AbortInMessage(p, state) ==
    IF sessionClosed[p]
    THEN UNCHANGED control
    ELSE /\ syncState' = [syncState EXCEPT ![p] = state]
         /\ syncFinished' = [syncFinished EXCEPT ![p] = TRUE]
         /\ UNCHANGED sessionClosed

\* getLastError: what the remote party answered to our alerts, if that explains it
LastError(p) ==
    IF syncState[p] = "SYNC_FINISHED"      THEN "SYNC_FINISHED"
    ELSE IF cmdResp[p].alert = "NOT_FOUND" THEN "UNSUPPORTED_STORAGE_TYPE"
    ELSE "INTERNAL_ERROR"

SetSyncState(p, state) ==
    /\ syncState' = [syncState EXCEPT ![p] = state]
    /\ UNCHANGED <<syncFinished, sessionClosed>>

-----------------------------------------------------------------------------
(***************************************************************************)
(* ResponseGenerator::generateNextMessage.  How many bytes a status or a   *)
(* command takes is abstracted to the choice of where the message is cut:  *)
(* after some of the statuses; or, all statuses written, after some of the *)
(* packages, the next of which may be written in part.  A message is cut   *)
(* after a package that may fill it, or anywhere if it was not ample, that *)
(* is if its statuses took the room.  A package of changes stops at        *)
(* maxChanges items, and the part of a package closes the message.  A part *)
(* has one item at least, but for changes that the room runs out for.      *)
(***************************************************************************)
Parts(pkg, ample, first) ==
    CASE pkg.kind = "Sync" -> {n \in 0..(Len(pkg.items) - 1) :
                                  /\ n <= cfg.maxChanges
                                  /\ (ample /\ first) => n > 0
                                  /\ (ample /\ "Sync" \notin cfg.fillers) => n = cfg.maxChanges}
      [] pkg.kind = "Map"  -> {n \in 1..(Len(pkg.items) - 1) : ample => "Map" \in cfg.fillers}
      [] OTHER             -> {}

Fits(pkg) == pkg.kind = "Sync" => Len(pkg.items) <= cfg.maxChanges

\* Mutant: the last item that was written is written again
RemainderOverlapping(pkg, n) ==
    [pkg EXCEPT !.items = IF n = 0 THEN @ ELSE SubSeq(@, n, Len(@))]

\* What is left of a package when n items of it are written
Remainder(pkg, n) == [pkg EXCEPT !.items = SubSeq(@, n + 1, Len(@))]

\* The cut of a queue after w packages, and the cut n items into the next one
CutAfter(pkgs, w) ==
    [written |-> SubSeq(pkgs, 1, w), left |-> SubSeq(pkgs, w + 1, Len(pkgs))]

CutWithin(pkgs, w, n) ==
    [written |-> Append(SubSeq(pkgs, 1, w), [pkgs[w + 1] EXCEPT !.items = SubSeq(@, 1, n)]),
     left    |-> <<Remainder(pkgs[w + 1], n)>> \o SubSeq(pkgs, w + 2, Len(pkgs))]

Uncut(pkgs) == [written |-> <<>>, left |-> pkgs]

\* The cuts of a queue of packages: what is written of it, and what is left
Cuts(pkgs, ample) ==
    LET fitting == {w \in 0..Len(pkgs) : \A i \in 1..w : Fits(pkgs[i])}
        MayEnd(w) == w = Len(pkgs) \/ ~ample \/ (w > 0 /\ pkgs[w].kind \in cfg.fillers)
    IN
    {CutAfter(pkgs, w) : w \in {w \in fitting : MayEnd(w)}}
    \cup
    UNION {{CutWithin(pkgs, w, n) : n \in Parts(pkgs[w + 1], ample, w = 0)} :
           w \in fitting \ {Len(pkgs)}}

\* A message of the first k statuses and of the packages that a cut writes
Generate(p, k, cut) ==
    /\ net' = [net EXCEPT ![Other(p)] =
                  Append(@, <<Header>> \o SubSeq(statuses[p], 1, k) \o cut.written)]
    /\ statuses' = [statuses EXCEPT ![p] = SubSeq(@, k + 1, Len(@))]

\* sendNextMessage asks for more when it has no package to send
NextMessageAlerts(p) ==
    [i \in DOMAIN targets[p] |-> Alert(NEXT_MESSAGE, targets[p][i].db)]

Queue(p) == IF packages[p] = <<>> THEN NextMessageAlerts(p) ELSE packages[p]

\* The cuts open to sendNextMessage, with the number of statuses written
Sendable(p) ==
    LET all == Len(statuses[p]) IN
    {s \in [k : 0..all, cut : Cuts(Queue(p), all <= cfg.room)] :
        s.k < all => s.k >= cfg.room /\ s.cut = Uncut(Queue(p))}

\* BaseTransport::receive(): a message that is already there is read at once
Receive(p) ==
    IF incoming[p] # <<>>
    THEN /\ parsed' = [parsed EXCEPT ![p] = Append(@, incoming[p][1])]
         /\ incoming' = [incoming EXCEPT ![p] = <<>>]
         /\ UNCHANGED armed
    ELSE /\ armed' = [armed EXCEPT ![p] = TRUE]
         /\ UNCHANGED <<incoming, parsed>>

SendAndReceive(p) ==
    /\ \E s \in Sendable(p) :
          /\ Generate(p, s.k, s.cut)
          /\ packages' = [packages EXCEPT ![p] = s.cut.left]
    /\ Receive(p)

-----------------------------------------------------------------------------
(***************************************************************************)
(* The fragments of a message, one handler each.                           *)
(***************************************************************************)
Reading(p, kind) ==
    /\ processing[p]
    /\ fragments[p] # <<>>
    /\ Head(fragments[p]).kind = kind

Consume(p) ==
    /\ fragments' = [fragments EXCEPT ![p] = Tail(@)]
    /\ UNCHANGED <<processing, last>>

AddStatuses(p, new) == statuses' = [statuses EXCEPT ![p] = @ \o new]

AddPackages(p, new) == packages' = [packages EXCEPT ![p] = @ \o new]

\* Mutant: the fragments are left with the parser
TakeMessageAgain(p, isLast) ==
    /\ processing' = [processing EXCEPT ![p] = TRUE]
    /\ fragments' = [fragments EXCEPT ![p] = Head(parsed[p])]
    /\ last' = [last EXCEPT ![p] = isLast]
    /\ UNCHANGED parsed

\* The fragments are taken from the parser, to be handled one by one
TakeMessage(p, isLast) ==
    /\ processing' = [processing EXCEPT ![p] = TRUE]
    /\ fragments' = [fragments EXCEPT ![p] = Head(parsed[p])]
    /\ last' = [last EXCEPT ![p] = isLast]
    /\ parsed' = [parsed EXCEPT ![p] = Tail(@)]

\* handleParsingComplete and processMessage up to the first fragment
BeginMessage(p) ==
    /\ parsed[p] # <<>>
    /\ ~processing[p]
    /\ syncState[p] # "NOT_PREPARED"
    /\ TakeMessage(p, FALSE)
    /\ UNCHANGED <<cfg, control, syncWithoutInit, peer, statuses, packages, targets,
                   storage, armed, incoming, net, faults>>

\* The first message, taken by the RequestListener: serveRequest of a server,
\* handleNotificationXML of a client.  Both prepare the session, and both
\* process the message as the last one of its package.
ServeRequest(p) ==
    /\ parsed[p] # <<>>
    /\ syncState[p] = "NOT_PREPARED"
    /\ SetSyncState(p, "PREPARED")
    /\ TakeMessage(p, TRUE)
    /\ UNCHANGED <<cfg, syncWithoutInit, peer, statuses, packages, targets,
                   storage, armed, incoming, net, faults>>

\* Without authentication analyzeHeader leaves the header to SessionHandler
HandleHeader(p) ==
    /\ Reading(p, "Header")
    /\ AddStatuses(p, <<StatusOf("SyncHdr", NoDb, "SUCCESS")>>)
    /\ Consume(p)
    /\ UNCHANGED <<cfg, control, syncWithoutInit, peer, packages, targets,
                   storage, link, faults>>

\* The SyncHdr statuses of these two parties are SUCCESS, which changes nothing
HandleStatus(p) ==
    LET status == Head(fragments[p]) IN
    /\ Reading(p, "Status")
    /\ cmdResp' = [cmdResp EXCEPT ![p] =
                      [filled |-> TRUE,
                       alert  |-> IF status.cmd = "Alert" THEN status.code ELSE @.alert]]
    /\ targets' = IF status.cmd = "Alert" /\ status.code = "REFRESH_REQUIRED"
                  THEN WithTarget(p, status.db, RevertSyncMode)
                  ELSE targets
    /\ Consume(p)
    /\ UNCHANGED <<cfg, control, syncWithoutInit, remoteInf, statuses, packages,
                   storage, link, faults>>

\* handlePutElement then handleGetElement: the two elements of a DevInfPackage
HandleDevInf(p) ==
    /\ Reading(p, "PutGet")
    /\ remoteInf' = [remoteInf EXCEPT ![p] = TRUE]
    /\ AddStatuses(p, <<StatusOf("Put", NoDb, "SUCCESS"), StatusOf("Get", NoDb, "SUCCESS")>>)
    /\ AddPackages(p, <<DevInfResults>>)
    /\ Consume(p)
    /\ UNCHANGED <<cfg, control, syncWithoutInit, cmdResp, targets, storage, link, faults>>

HandleResults(p) ==
    /\ Reading(p, "Results")
    /\ remoteInf' = [remoteInf EXCEPT ![p] = TRUE]
    /\ AddStatuses(p, <<StatusOf("Results", NoDb, "SUCCESS")>>)
    /\ Consume(p)
    /\ UNCHANGED <<cfg, control, syncWithoutInit, cmdResp, packages, targets,
                   storage, link, faults>>

\* handleInformativeAlert, of the one such alert that the two parties send
HandleNextMessageAlert(p) ==
    /\ Reading(p, "Alert")
    /\ Head(fragments[p]).code = NEXT_MESSAGE
    /\ AddStatuses(p, <<StatusOf("Alert", Head(fragments[p]).db, "SUCCESS")>>)
    /\ Consume(p)
    /\ UNCHANGED <<cfg, control, syncWithoutInit, peer, packages, targets,
                   storage, link, faults>>

\* The Final element: it ends the package, and is no fragment of its own
HandleFinalElement(p) ==
    /\ Reading(p, "Final")
    /\ fragments' = [fragments EXCEPT ![p] = Tail(@)]
    /\ last' = [last EXCEPT ![p] = TRUE]
    /\ UNCHANGED <<cfg, control, syncWithoutInit, peer, statuses, packages, targets,
                   processing, storage, link, faults>>

-----------------------------------------------------------------------------
(***************************************************************************)
(* handleSyncElement, after syncReceived accepted the element or not: the  *)
(* element is rejected with all its items, or its items are committed and  *)
(* mapped.  A client that sends its mappings fast queues them here.        *)
(***************************************************************************)
ItemStatuses(sync, code) ==
    <<StatusOf("Sync", sync.db, IF code = "ITEM_ADDED" THEN "SUCCESS" ELSE code)>>
    \o [i \in DOMAIN sync.items |-> StatusOf("Item", sync.db, code)]

RejectSync(p, sync, code) ==
    /\ AddStatuses(p, ItemStatuses(sync, code))
    /\ UNCHANGED <<packages, targets, applied>>

CommitSync(p, sync) ==
    LET Commit(t) == [DiscoverLocalChanges(p, t) EXCEPT !.mapped = @ \o sync.items] IN
    /\ AddStatuses(p, ItemStatuses(sync, "ITEM_ADDED"))
    /\ targets' = WithTarget(p, sync.db, Commit)
    /\ applied' = [applied EXCEPT ![p][sync.db] = @ \o sync.items]
    /\ IF p = Client /\ cfg.fastMaps /\ sync.items # <<>>
       THEN AddPackages(p, <<Mappings(sync.db, sync.items)>>)
       ELSE UNCHANGED packages

HandleSyncElement(p, accepted) ==
    LET sync == Head(fragments[p]) IN
    IF ~accepted
    THEN RejectSync(p, sync, "COMMAND_NOT_ALLOWED")
    ELSE IF ~HasTarget(p, sync.db)
    THEN RejectSync(p, sync, "NOT_FOUND")
    ELSE IF ~Discoverable(p, TargetOf(p, sync.db))
    THEN RejectSync(p, sync, "COMMAND_FAILED")
    ELSE CommitSync(p, sync)

\* composeLocalChanges: a package per target, empty ones included
LocalChangesPackages(tgts) ==
    [i \in DOMAIN tgts |-> Changes(tgts[i].db, tgts[i].changes)]

\* The alerts of composeClientInitialization and composeServerInitialization
InitializationAlerts(tgts) ==
    [i \in DOMAIN tgts |-> Alert(ToSyncMLCode(tgts[i].mode), tgts[i].db)]

\* handleEndOfMessage of a session that neither sends nor finishes
EndIdle(p) ==
    /\ UNCHANGED <<syncState, syncFinished, statuses, link>>
    /\ IF syncFinished[p]
       THEN ExitSync(p)
       ELSE UNCHANGED <<sessionClosed, changeLog, packages, targets>>

\* finishSync, and the exit at the end of the message
FinishSync(p) ==
    /\ syncState' = [syncState EXCEPT ![p] = "SYNC_FINISHED"]
    /\ syncFinished' = [syncFinished EXCEPT ![p] = TRUE]
    /\ ExitSync(p)

\* All fragments are handled: what is left is handleFinal, if the message is
\* the last of its package, then handleEndOfMessage
AtFinal(p)        == processing[p] /\ fragments[p] = <<>> /\ last[p]
AtEndOfMessage(p) == processing[p] /\ fragments[p] = <<>> /\ ~last[p]

FinalHandled(p)   == last' = [last EXCEPT ![p] = FALSE] /\ UNCHANGED <<processing, fragments>>
MessageHandled(p) == processing' = [processing EXCEPT ![p] = FALSE]
                     /\ UNCHANGED <<fragments, last>>

=============================================================================
