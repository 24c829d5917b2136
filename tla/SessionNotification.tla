------------------------- MODULE SessionNotification -------------------------
(***************************************************************************)
(* A server asks a client for a session with an OMA DS 1.2 notification:   *)
(* ServerSessionHandler composes it, a transport carries it, the           *)
(* RequestListener of the client reads it, and ClientSessionHandler sets   *)
(* up a session for it, up to its first message.                           *)
(*                                                                         *)
(* The transport is one of the application: over OBEX no notification is   *)
(* sent (OBEXTransport), and HTTP does not listen.  It may lose what it is *)
(* given, or deliver the beginning of it.                                  *)
(***************************************************************************)
EXTENDS ServerAlertedNotification, SyncModes, FiniteSets

CONSTANT Configs

(***************************************************************************)
(* cfg is what does not change.  Of the server: name, dbs (the URI and the *)
(* MIME type of each), code (the alert code of its mode), missing (whether *)
(* a database has no storage), uiMode, initiator and version (which are    *)
(* fixed for a session of this library, another server writes what it      *)
(* likes).  Of the client: plugins (the MIME types it has storages for),   *)
(* mappings (the extension that finds the MIME type of an URI), anchors    *)
(* (the MIME types it synchronized before), slow and noInit.  signed is    *)
(* the build of the client, and faulty whether the transport is.           *)
(***************************************************************************)
VARIABLES
    cfg,
    server,     \* [state, told]: the state it is in, what the application heard
    link,       \* the notification under way, if any
    listener,   \* [state, data, whole]: what was read, and whether of all of it
    client      \* [state, targets]: the session

vars == <<cfg, server, link, listener, client>>

-----------------------------------------------------------------------------
(***************************************************************************)
(* The server: initiateSync, serverInitiatedSyncDS12                       *)
(***************************************************************************)
Notification ==
    [iHeader   |-> [iVersion |-> cfg.version, iUIMode |-> cfg.uiMode,
                    iInitiator |-> cfg.initiator, iServerIdentifier |-> cfg.name],
     iSyncInfo |-> [i \in DOMAIN cfg.dbs |-> [iSyncType    |-> cfg.code,
                                              iContentType |-> cfg.dbs[i].mime,
                                              iServerURI   |-> cfg.dbs[i].uri]]]

\* Mutant: a notification that cannot be composed is nobody's business
InitiateUntold ==
    /\ server.state = "NOT_PREPARED"
    /\ link' = IF cfg.missing THEN <<>> ELSE GenerateSANMessageDS(Notification)
    /\ server' = CASE cfg.missing -> [state |-> "DATABASE_FAILURE", told |-> "DATABASE_FAILURE"]
                   [] OTHER -> [server EXCEPT !.state = "PREPARED"]
    /\ UNCHANGED <<cfg, listener, client>>

\* A session that was aborted is told of, and waits for the client all the same
InitiateSync ==
    /\ server.state = "NOT_PREPARED"
    /\ link' = IF cfg.missing THEN <<>> ELSE GenerateSANMessageDS(Notification)
    /\ server' = CASE cfg.missing -> [state |-> "DATABASE_FAILURE", told |-> "DATABASE_FAILURE"]
                   [] ~cfg.missing /\ link' = <<>> -> [state |-> "PREPARED", told |-> "INTERNAL_ERROR"]
                   [] OTHER -> [server EXCEPT !.state = "PREPARED"]
    /\ UNCHANGED <<cfg, listener, client>>

\* sendSAN() fails, and the session is aborted for that
SendFails ==
    /\ cfg.faulty /\ server.state = "NOT_PREPARED" /\ ~cfg.missing
    /\ GenerateSANMessageDS(Notification) # <<>>
    /\ server' = [state |-> "PREPARED", told |-> "INTERNAL_ERROR"]
    /\ UNCHANGED <<cfg, link, listener, client>>

(***************************************************************************)
(* The transport: it delivers a message once, whole or not                 *)
(***************************************************************************)
Lose == cfg.faulty /\ link # <<>> /\ link' = <<>> /\ UNCHANGED <<cfg, server, listener, client>>

Cut ==
    /\ cfg.faulty /\ link # <<>> /\ listener.whole
    /\ \E n \in 1 .. Len(link[1]) - 1 : link' = <<SubSeq(link[1], 1, n)>>
    /\ listener' = [listener EXCEPT !.whole = FALSE]
    /\ UNCHANGED <<cfg, server, client>>

(***************************************************************************)
(* SANPackageReceived of the listener                                      *)
(***************************************************************************)
SANPackageReceived ==
    /\ link # <<>> /\ link' = <<>>
    /\ listener' \in {[listener EXCEPT !.state = IF read = {} THEN "INVALID_SYNCML_MESSAGE" ELSE "pending",
                                       !.data = SetToSeq(read)] :
                         read \in {ParseSANMessageDS(link[1], cfg.signed)}}
    /\ UNCHANGED <<cfg, server, client>>

-----------------------------------------------------------------------------
(***************************************************************************)
(* The client: handleNotificationPackage                                   *)
(***************************************************************************)
UriPrefix == <<46, 47>>
Occurs(part, text) ==
    \E i \in 0 .. Len(text) - Len(part) : SubSeq(text, i + 1, i + Len(part)) = part
ServerUri(uri) == IF Occurs(UriPrefix, uri) THEN uri ELSE UriPrefix \o uri

\* convertSANURItoMIME: the first mapping that is a part of the URI
ConvertSANURItoMIME(uri) ==
    LET found == SelectSeq(cfg.mappings, LAMBDA m : Occurs(m.part, uri))
    IN IF found = <<>> THEN NoMime ELSE found[1].mime

MimeOf(info) ==
    IF info.iContentType # NoMime THEN info.iContentType
    ELSE ConvertSANURItoMIME(ServerUri(info.iServerURI))

\* SyncMode( qint32 ), of any number
ReceivedMode(code) ==
    IF code \in SyncCodes THEN ModeOf(code) ELSE [dir |-> "TWO_WAY", init |-> "CLIENT", type |-> "FAST"]

TargetMode(info) ==
    LET mode == ToClientInitiated(ReceivedMode(info.iSyncType))
    IN IF cfg.slow \/ MimeOf(info) \notin cfg.anchors THEN ToSlowSync(mode) ELSE mode

\* The databases there is a storage for; one storage serves one of them
Served(infos) == SelectSeq(infos, LAMBDA info : MimeOf(info) \in cfg.plugins)
StoragesOf(infos) == {MimeOf(infos[i]) : i \in DOMAIN infos}

\* Mutant: databases without a storage are left out of the session
IncompleteAccepted(infos) == infos = <<>> \/ Served(infos) # <<>>

Complete(infos) == Cardinality(StoragesOf(Served(infos))) = Len(infos)

HandleNotificationPackage(infos) ==
    IF ~Complete(infos) THEN [state |-> "DATABASE_FAILURE", targets |-> <<>>]
    ELSE [state   |-> IF cfg.noInit THEN "SENDING_ITEMS" ELSE "LOCAL_INIT",
          targets |-> [i \in DOMAIN infos |-> [target |-> ServerUri(infos[i].iServerURI),
                                               mime   |-> MimeOf(infos[i]),
                                               mode   |-> TargetMode(infos[i])]]]

\* listenEvent() takes what is pending
ListenEvent ==
    /\ listener.state = "pending" /\ listener' = [listener EXCEPT !.state = "taken"]
    /\ client' = HandleNotificationPackage(listener.data[1].iSyncInfo)
    /\ UNCHANGED <<cfg, server, link>>

-----------------------------------------------------------------------------
Init ==
    /\ cfg \in Configs
    /\ server = [state |-> "NOT_PREPARED", told |-> "NOTHING"] /\ link = <<>>
    /\ listener = [state |-> "listening", data |-> <<>>, whole |-> TRUE]
    /\ client = [state |-> "NONE", targets |-> <<>>]

Fault == SendFails \/ Lose \/ Cut
Next == InitiateSync \/ SANPackageReceived \/ ListenEvent \/ Fault

Spec == Init /\ [][Next]_vars

(***************************************************************************)
(* The two event loops run, and the transport delivers what it does not    *)
(* lose.                                                                   *)
(***************************************************************************)
FairSpec == Spec /\ WF_vars(InitiateSync \/ SANPackageReceived \/ ListenEvent)

=============================================================================
