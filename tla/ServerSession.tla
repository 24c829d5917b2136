---------------------------- MODULE ServerSession ----------------------------
(***************************************************************************)
(* ServerSessionHandler: what a server session does with an alert, a Sync, *)
(* a Map and the end of a package, and what it answers when it has         *)
(* processed a message.                                                    *)
(***************************************************************************)
EXTENDS SessionHandler

\* composeSyncML11ServerAlertedSyncPackage
ServerAlerts ==
    [i \in DOMAIN cfg.dbs |-> Alert(ToSyncMLCode(cfg.mode), cfg.dbs[i])]

\* initiateSync over SyncML 1.1: the server alerts the client, then waits for
\* the client to initialize the session.  Every database has a format to offer.
InitiateServerSync ==
    LET pkgs == ServerAlerts \o <<FinalPackage>> IN
    /\ cfg.mode.init = Server
    /\ syncState[Server] = "NOT_PREPARED"
    /\ ~sessionClosed[Server]
    /\ syncWithoutInit' = [syncWithoutInit EXCEPT ![Server] = cfg.noInit]
    /\ SetSyncState(Server, "PREPARED")
    /\ \E cut \in Cuts(pkgs, TRUE) :
          /\ Generate(Server, 0, cut)
          /\ packages' = [packages EXCEPT ![Server] = cut.left]
    /\ Receive(Server)
    /\ UNCHANGED <<cfg, peer, targets, reading, storage, faults>>

-----------------------------------------------------------------------------
(***************************************************************************)
(* syncAlertReceived.                                                      *)
(***************************************************************************)
\* anchorMismatch: only a fast sync has anchors to compare
AnchorMismatch(alert) ==
    /\ ModeOf(alert.code).type = "FAST"
    /\ cfg.first \/ alert.db \in cfg.mismatch

RefreshRequired(alert) ==
    ModeOf(alert.code).type = "SLOW" \/ cfg.mode.type = "SLOW" \/ AnchorMismatch(alert)

\* setupTargetByClient: every device of this code announces all sync types in
\* its device information, so a server that has it may ask for a refresh.  The
\* mappings it loads or clears are part of ItemExchange.StartSession.
TargetByClient(alert) ==
    LET t == [NewTarget(alert.db, ModeOf(alert.code)) EXCEPT !.anchored = TRUE] IN
    IF ~RefreshRequired(alert) THEN t
    ELSE IF remoteInf[Server]  THEN RefreshOrRevert(t)
    ELSE RevertSyncMode(t)

SetupTargetByClient(alert) ==
    IF alert.db \notin cfg.served
    THEN /\ AddStatuses(Server, <<StatusOf("Alert", alert.db, "NOT_FOUND")>>)
         /\ UNCHANGED targets
    ELSE /\ AddStatuses(Server, <<StatusOf("Alert", alert.db,
                IF RefreshRequired(alert) THEN "REFRESH_REQUIRED" ELSE "SUCCESS")>>)
         /\ targets' = [targets EXCEPT ![Server] = Append(@, TargetByClient(alert))]

\* acknowledgeTarget: the client reverts a target to slow sync
AcknowledgedByServer(t) == [RevertSyncMode(t) EXCEPT !.mapped = <<>>, !.anchored = TRUE]

AcknowledgeTargetOfServer(alert) ==
    /\ targets' = WithTarget(Server, alert.db, AcknowledgedByServer)
    /\ AddStatuses(Server, <<StatusOf("Alert", alert.db,
                       IF HasTarget(Server, alert.db) THEN "SUCCESS" ELSE "NOT_FOUND")>>)

HandleServerAlert ==
    LET alert == Head(fragments[Server]) IN
    /\ Reading(Server, "Alert")
    /\ alert.code \in SyncCodes
    /\ Consume(Server)
    /\ \/ /\ syncState[Server] \in {"PREPARED", "REMOTE_INIT"}
          /\ SetupTargetByClient(alert)
          /\ SetSyncState(Server, "REMOTE_INIT")
       \/ /\ syncState[Server] = "LOCAL_INIT"
          /\ AcknowledgeTargetOfServer(alert)
          /\ UNCHANGED control
       \/ /\ syncState[Server] \notin InitStates
          /\ AddStatuses(Server, <<StatusOf("Alert", alert.db, "COMMAND_NOT_ALLOWED")>>)
          /\ UNCHANGED <<control, targets>>
    /\ UNCHANGED <<cfg, syncWithoutInit, peer, packages, storage, link, faults>>

-----------------------------------------------------------------------------
(***************************************************************************)
(* syncReceived and mapReceived.                                           *)
(***************************************************************************)
Reverts == \E i \in DOMAIN targets[Server] : targets[Server][i].reverted

\* A Sync during the initialization: the client does sync without init phase
SyncInInit == syncState[Server] = "REMOTE_INIT" /\ ~Reverts

ServerAcceptsSync ==
    SyncInInit \/ syncState[Server] \in {"LOCAL_INIT", "RECEIVING_ITEMS"}

HandleServerSync ==
    /\ Reading(Server, "Sync")
    /\ HandleSyncElement(Server, ServerAcceptsSync)
    /\ syncWithoutInit' = [syncWithoutInit EXCEPT ![Server] = @ \/ SyncInInit]
    /\ IF ServerAcceptsSync
       THEN SetSyncState(Server, "RECEIVING_ITEMS")
       ELSE UNCHANGED control
    /\ Consume(Server)
    /\ UNCHANGED <<cfg, peer, changeLog, link, faults>>

\* Mappings after the last package of items begin the mapping package
AcceptMap(map) ==
    LET AddMappings(t) == [t EXCEPT !.mapped = @ \o map.items] IN
    /\ syncState[Server] \in {"SENDING_ITEMS", "RECEIVING_MAPPINGS"}
    /\ IF packages[Server] = <<>>
       THEN SetSyncState(Server, "RECEIVING_MAPPINGS")
       ELSE UNCHANGED control
    /\ targets' = WithTarget(Server, map.db, AddMappings)
    /\ AddStatuses(Server, <<StatusOf("Map", map.db,
                       IF HasTarget(Server, map.db) THEN "SUCCESS" ELSE "NOT_FOUND")>>)

RejectMap(map) ==
    /\ syncState[Server] \notin {"SENDING_ITEMS", "RECEIVING_MAPPINGS"}
    /\ AddStatuses(Server, <<StatusOf("Map", map.db, "COMMAND_NOT_ALLOWED")>>)
    /\ UNCHANGED <<control, targets>>

HandleServerMap ==
    /\ Reading(Server, "Map")
    /\ AcceptMap(Head(fragments[Server])) \/ RejectMap(Head(fragments[Server]))
    /\ Consume(Server)
    /\ UNCHANGED <<cfg, syncWithoutInit, peer, packages, storage, link, faults>>

-----------------------------------------------------------------------------
(***************************************************************************)
(* finalReceived.                                                          *)
(***************************************************************************)
\* composeServerModificationsPackage
ModificationPackages ==
    (IF syncWithoutInit[Server] THEN InitializationAlerts(targets[Server]) ELSE <<>>)
    \o LocalChangesPackages(targets[Server]) \o <<FinalPackage>>

SendsModifications ==
    \E i \in DOMAIN targets[Server] : targets[Server][i].mode.dir # "FROM_CLIENT"

ServerFinalInit ==
    /\ syncState[Server] = "REMOTE_INIT"
    /\ AddPackages(Server, InitializationAlerts(targets[Server]) \o <<FinalPackage>>)
    /\ SetSyncState(Server, "LOCAL_INIT")

ServerFinalModifications ==
    /\ syncState[Server] = "RECEIVING_ITEMS"
    /\ SendsModifications
    /\ AddPackages(Server, ModificationPackages)
    /\ SetSyncState(Server, "SENDING_ITEMS")

\* Mutant: nothing acknowledges the mappings
ServerFinalLastNoMappings ==
    /\ \/ syncState[Server] = "RECEIVING_ITEMS" /\ ~SendsModifications
       \/ syncState[Server] = "SENDING_ITEMS" /\ packages[Server] = <<>>
    /\ AddPackages(Server, <<FinalPackage>>)
    /\ SetSyncState(Server, "FINALIZING")

\* composeMapAcknowledgementPackage
ServerFinalLast ==
    /\ \/ syncState[Server] = "RECEIVING_ITEMS" /\ ~SendsModifications
       \/ syncState[Server] = "SENDING_ITEMS" /\ packages[Server] = <<>>
       \/ syncState[Server] = "RECEIVING_MAPPINGS"
    /\ AddPackages(Server, <<FinalPackage>>)
    /\ SetSyncState(Server, "FINALIZING")

ServerFinalEarly ==
    /\ syncState[Server] = "SENDING_ITEMS"
    /\ packages[Server] # <<>>
    /\ UNCHANGED <<control, packages>>

ServerFinalUnexpected ==
    /\ syncState[Server] \notin {"REMOTE_INIT", "RECEIVING_ITEMS", "SENDING_ITEMS",
                                 "RECEIVING_MAPPINGS"}
    /\ AbortInMessage(Server, LastError(Server))
    /\ UNCHANGED packages

HandleServerFinal ==
    /\ AtFinal(Server)
    /\ FinalHandled(Server)
    /\ \/ ServerFinalInit
       \/ ServerFinalModifications
       \/ ServerFinalLast
       \/ ServerFinalEarly
       \/ ServerFinalUnexpected
    /\ UNCHANGED <<cfg, syncWithoutInit, peer, statuses, targets, storage, link, faults>>

-----------------------------------------------------------------------------
(***************************************************************************)
(* messageParsed, then the exit if the session is finished.                *)
(***************************************************************************)
ServerAnswers ==
    syncState[Server] \in InitStates \cup {"RECEIVING_ITEMS", "SENDING_ITEMS",
                                           "RECEIVING_MAPPINGS"}

\* Finalizing: the last message, after which nothing is received any more
SendLast ==
    /\ syncState[Server] = "FINALIZING"
    /\ UNCHANGED <<armed, incoming, parsed>>
    /\ \E s \in Sendable(Server) :
          /\ Generate(Server, s.k, s.cut)
          /\ IF s.cut.left = <<>>
             THEN FinishSync(Server)
             ELSE /\ packages' = [packages EXCEPT ![Server] = s.cut.left]
                  /\ UNCHANGED <<control, targets, changeLog>>

EndOfServerMessage ==
    /\ AtEndOfMessage(Server)
    /\ MessageHandled(Server)
    /\ \/ /\ ServerAnswers
          /\ SendAndReceive(Server)
          /\ UNCHANGED <<control, targets, changeLog>>
       \/ SendLast
       \/ /\ ~ServerAnswers
          /\ syncState[Server] # "FINALIZING"
          /\ EndIdle(Server)
    /\ UNCHANGED <<cfg, syncWithoutInit, peer, applied, faults>>

=============================================================================
