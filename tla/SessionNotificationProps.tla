----------------------- MODULE SessionNotificationProps -----------------------
(***************************************************************************)
(* What a notification must do: what the server asks for is what the       *)
(* client begins, or somebody is told that nothing comes of it.            *)
(***************************************************************************)
EXTENDS SessionNotification

(***************************************************************************)
(* What the format has room for, and the build of the client can read:     *)
(* where a char is signed, numbers and lengths are half of what they might *)
(* be, and the codes of three modes cannot be told from other numbers.     *)
(***************************************************************************)
Room(n) == IF cfg.signed THEN n \div 2 ELSE n

Fits ==
    /\ cfg.version = "SYNCML_1_2"
    /\ Len(cfg.dbs) \in 1 .. Room(15) /\ Len(cfg.name) <= Room(255)
    /\ \A i \in DOMAIN cfg.dbs : Len(cfg.dbs[i].uri) <= Room(255)
Told(code) == code - SYNCALERT_BASE <= Room(15)

(***************************************************************************)
(* A notification that arrives whole is read as it was written, and one    *)
(* that lost its end is refused, wherever it was cut: it never becomes a   *)
(* session with some of the databases.                                     *)
(***************************************************************************)
\* The types that have a number of their own
Numbered(mime) == IF mime \in WspTypes THEN mime ELSE NoMime

IsAsWritten ==
    /\ listener.data[1].iHeader = Notification.iHeader
    /\ listener.data[1].iSyncInfo =
           [i \in DOMAIN cfg.dbs |-> [Notification.iSyncInfo[i] EXCEPT !.iContentType = Numbered(@)]]

ReadsAsWritten ==
    Fits => /\ listener.whole => listener.state # "INVALID_SYNCML_MESSAGE"
            /\ listener.state \in {"pending", "taken"} =>
                   listener.whole /\ (Told(cfg.code) => IsAsWritten)

(***************************************************************************)
(* A session that a client begins is about the databases the server named, *)
(* all of them, each with a storage of its own and in its place: a client  *)
(* that lacks one begins none.  The client announces the mode the server   *)
(* asked for as one of its own, or a slow one, always so for a database it *)
(* has no anchor of.                                                       *)
(***************************************************************************)
TheDatabases ==
    /\ [i \in DOMAIN client.targets |-> client.targets[i].target] =
           [i \in DOMAIN cfg.dbs |-> ServerUri(cfg.dbs[i].uri)]
    /\ \A i, j \in DOMAIN client.targets :
           client.targets[i].mime = client.targets[j].mime => i = j
    /\ \A i \in DOMAIN client.targets :
           /\ client.targets[i].mime \in cfg.plugins
           /\ cfg.dbs[i].mime \in WspTypes => client.targets[i].mime = cfg.dbs[i].mime

Announced(code) == ToSyncMLCode(ToClientInitiated(ModeOf(code)))

TheMode(target) ==
    IF cfg.slow \/ target.mime \notin cfg.anchors
    THEN target.mode = ToSlowSync(ToClientInitiated(ModeOf(cfg.code)))
    ELSE ToSyncMLCode(target.mode) = Announced(cfg.code)

BeginsAsAsked ==
    Fits => /\ client.state \in {"LOCAL_INIT", "SENDING_ITEMS"} => TheDatabases
            /\ Told(cfg.code) => \A i \in DOMAIN client.targets : TheMode(client.targets[i])

-----------------------------------------------------------------------------
(***************************************************************************)
(* Over a transport that works every attempt of a server leads to a        *)
(* session of the client, or to an error that one of the two reports.      *)
(***************************************************************************)
EveryNotificationEnds ==
    ~cfg.faulty => <>(\/ client.state # "NONE" \/ server.told # "NOTHING"
                      \/ listener.state = "INVALID_SYNCML_MESSAGE")

=============================================================================
