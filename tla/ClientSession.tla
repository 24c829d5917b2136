---------------------------- MODULE ClientSession ----------------------------
(***************************************************************************)
(* ClientSessionHandler: what a client session does with an alert, a Sync, *)
(* a Map and the end of a package, and what it answers when it has         *)
(* processed a message.                                                    *)
(***************************************************************************)
EXTENDS SessionHandler, FiniteSets

\* setupSyncTargets: a client without an anchor of the server syncs slowly
InitialTargets ==
    LET mode == IF cfg.first THEN ToSlowSync(cfg.mode) ELSE cfg.mode IN
    [i \in DOMAIN cfg.dbs |-> NewTarget(cfg.dbs[i], mode)]

Discovered(tgts) == [i \in DOMAIN tgts |-> DiscoverLocalChanges(Client, tgts[i])]

\* composeClientInitializationPackage, and the targets it leaves
InitializationPackages(tgts, noInit) ==
    <<DevInf>> \o InitializationAlerts(tgts)
    \o (IF noInit THEN LocalChangesPackages(tgts) ELSE <<>>) \o <<FinalPackage>>

\* initiateSync: the session is set up and its first message is sent
InitiateClientSync ==
    LET tgts == IF cfg.noInit THEN Discovered(InitialTargets) ELSE InitialTargets
        pkgs == InitializationPackages(tgts, cfg.noInit)
    IN
    /\ cfg.mode.init = Client
    /\ syncState[Client] = "NOT_PREPARED"
    /\ ~sessionClosed[Client]
    /\ syncWithoutInit' = [syncWithoutInit EXCEPT ![Client] = cfg.noInit]
    /\ SetSyncState(Client, IF cfg.noInit THEN "SENDING_ITEMS" ELSE "LOCAL_INIT")
    /\ targets' = [targets EXCEPT ![Client] = tgts]
    /\ \E cut \in Cuts(pkgs, TRUE) :
          /\ Generate(Client, 0, cut)
          /\ packages' = [packages EXCEPT ![Client] = cut.left]
    /\ Receive(Client)
    /\ UNCHANGED <<cfg, peer, reading, storage, faults>>

-----------------------------------------------------------------------------
(***************************************************************************)
(* syncAlertReceived.                                                      *)
(***************************************************************************)
\* Mutant: the alerts of a server are expected in its initialization only
ClientMayAcknowledgeInInit == syncState[Client] \in {"LOCAL_INIT", "REMOTE_INIT"}

ClientMayAcknowledge ==
    \/ syncState[Client] \in {"LOCAL_INIT", "REMOTE_INIT"}
    \/ syncState[Client] = "SENDING_ITEMS" /\ syncWithoutInit[Client]

\* setupTargetByServer: the storage is found by its MIME type (NOT_FOUND is left
\* out); the mappings a target loads are part of ItemExchange.StartSession
SetupTargetByServer(alert) ==
    /\ targets' = [targets EXCEPT ![Client] =
                      Append(@, NewTarget(alert.db, ToClientInitiated(ModeOf(alert.code))))]
    /\ AddStatuses(Client, <<StatusOf("Alert", alert.db, "SUCCESS")>>)

\* Mutant: the mode the server gives is not set
AcknowledgedByClientKeepsMode(t, mode) ==
    IF mode.type # "FAST"
    THEN [RevertSyncMode(t) EXCEPT !.mapped = <<>>, !.anchored = TRUE]
    ELSE [t EXCEPT !.anchored = TRUE]

\* acknowledgeTarget: the mode the server gives is the mode of the target
AcknowledgedByClient(t, mode) ==
    IF mode.type # "FAST"
    THEN [RevertSyncMode(t) EXCEPT !.mode = mode, !.mapped = <<>>, !.anchored = TRUE]
    ELSE [t EXCEPT !.mode = mode, !.anchored = TRUE]

AcknowledgeTargetOfClient(alert) ==
    LET Acknowledge(t) == AcknowledgedByClient(t, ModeOf(alert.code)) IN
    /\ targets' = WithTarget(Client, alert.db, Acknowledge)
    /\ AddStatuses(Client, <<StatusOf("Alert", alert.db,
                       IF HasTarget(Client, alert.db) THEN "SUCCESS" ELSE "NOT_FOUND")>>)

HandleClientAlert ==
    LET alert == Head(fragments[Client]) IN
    /\ Reading(Client, "Alert")
    /\ alert.code \in SyncCodes
    /\ Consume(Client)
    /\ \/ /\ syncState[Client] = "PREPARED"
          /\ SetupTargetByServer(alert)
          /\ UNCHANGED control
       \/ /\ ClientMayAcknowledge
          /\ AcknowledgeTargetOfClient(alert)
          /\ SetSyncState(Client, "REMOTE_INIT")
       \/ /\ syncState[Client] # "PREPARED"
          /\ ~ClientMayAcknowledge
          /\ AddStatuses(Client, <<StatusOf("Alert", alert.db, "COMMAND_NOT_ALLOWED")>>)
          /\ UNCHANGED <<control, targets>>
    /\ UNCHANGED <<cfg, syncWithoutInit, peer, packages, storage, link, faults>>

\* syncReceived, and what SessionHandler does with the Sync element
ClientAcceptsSync ==
    \/ syncState[Client] \in {"SENDING_ITEMS", "RECEIVING_ITEMS"}
    \/ syncState[Client] = "REMOTE_INIT" /\ syncWithoutInit[Client]

HandleClientSync ==
    /\ Reading(Client, "Sync")
    /\ HandleSyncElement(Client, ClientAcceptsSync)
    /\ IF ClientAcceptsSync
       THEN SetSyncState(Client, "RECEIVING_ITEMS")
       ELSE UNCHANGED control
    /\ Consume(Client)
    /\ UNCHANGED <<cfg, syncWithoutInit, peer, changeLog, link, faults>>

-----------------------------------------------------------------------------
(***************************************************************************)
(* finalReceived.                                                          *)
(***************************************************************************)
\* Mutant: a single mapping is not worth a package
HasMappingsOffByOne(t) == Len(t.mapped) > 1

\* composeDataUpdateStatusPackage: the mappings not sent yet
HasMappings(t) == t.mapped # <<>>
Mapped == {i \in DOMAIN targets[Client] : HasMappings(targets[Client][i])}

\* The elements of a set of numbers from the least to the greatest
Ascending(set) ==
    {list \in [1..Cardinality(set) -> set] :
        \A i, j \in 1..Cardinality(set) : i < j => list[i] < list[j]}

UpdateStatusPackages(list) ==
    [i \in DOMAIN list |-> Mappings(targets[Client][list[i]].db,
                                    targets[Client][list[i]].mapped)] \o <<FinalPackage>>

ClientFinalInit ==
    /\ syncState[Client] = "PREPARED"
    /\ AddPackages(Client, InitializationPackages(targets[Client], FALSE))
    /\ SetSyncState(Client, "LOCAL_INIT")
    /\ UNCHANGED targets

ClientFinalModifications ==
    LET tgts == Discovered(targets[Client]) IN
    /\ syncState[Client] = "REMOTE_INIT"
    /\ targets' = [targets EXCEPT ![Client] = tgts]
    /\ AddPackages(Client, LocalChangesPackages(tgts) \o <<FinalPackage>>)
    /\ SetSyncState(Client, "SENDING_ITEMS")

ClientFinalUpdateStatus ==
    /\ syncState[Client] = "RECEIVING_ITEMS"
    /\ \E list \in IF cfg.fastMaps THEN {<<>>} ELSE Ascending(Mapped) :
          AddPackages(Client, UpdateStatusPackages(list))
    /\ SetSyncState(Client, "SENDING_MAPPINGS")
    /\ UNCHANGED targets

ClientFinalLast ==
    /\ syncState[Client] \in {"SENDING_ITEMS", "SENDING_MAPPINGS"}
    /\ SetSyncState(Client, "FINALIZING")
    /\ UNCHANGED <<packages, targets>>

ClientFinalUnexpected ==
    /\ syncState[Client] \notin {"PREPARED", "REMOTE_INIT", "RECEIVING_ITEMS",
                                 "SENDING_ITEMS", "SENDING_MAPPINGS"}
    /\ AbortInMessage(Client, LastError(Client))
    /\ UNCHANGED <<packages, targets>>

HandleClientFinal ==
    /\ AtFinal(Client)
    /\ FinalHandled(Client)
    /\ \/ ClientFinalInit
       \/ ClientFinalModifications
       \/ ClientFinalUpdateStatus
       \/ ClientFinalLast
       \/ ClientFinalUnexpected
    /\ UNCHANGED <<cfg, syncWithoutInit, peer, statuses, storage, link, faults>>

-----------------------------------------------------------------------------
(***************************************************************************)
(* messageParsed, then the exit if the session is finished.                *)
(***************************************************************************)
\* shouldSendDataUpdateStatus
ShouldSendUpdateStatus ==
    ~ /\ cfg.omit
      /\ Len(statuses[Client]) = 1
      /\ statuses[Client][1].cmd = "SyncHdr"
      /\ Len(packages[Client]) <= 1

ClientAnswers ==
    \/ syncState[Client] \in {"PREPARED", "LOCAL_INIT", "REMOTE_INIT",
                              "SENDING_ITEMS", "RECEIVING_ITEMS"}
    \/ syncState[Client] = "SENDING_MAPPINGS" /\ ShouldSendUpdateStatus

\* Mutant: the mappings are not waited to be acknowledged
ClientIsDoneEarly == syncState[Client] \in {"SENDING_MAPPINGS", "FINALIZING"}

ClientIsDone ==
    \/ syncState[Client] = "SENDING_MAPPINGS" /\ ~ShouldSendUpdateStatus
    \/ syncState[Client] = "FINALIZING"

EndOfClientMessage ==
    /\ AtEndOfMessage(Client)
    /\ MessageHandled(Client)
    /\ \/ /\ ClientAnswers
          /\ SendAndReceive(Client)
          /\ UNCHANGED <<control, targets, changeLog>>
       \/ /\ ClientIsDone
          /\ FinishSync(Client)
          /\ UNCHANGED <<statuses, link>>
       \/ /\ ~ClientAnswers
          /\ ~ClientIsDone
          /\ EndIdle(Client)
    /\ UNCHANGED <<cfg, syncWithoutInit, peer, applied, faults>>

=============================================================================
