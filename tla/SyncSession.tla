----------------------------- MODULE SyncSession -----------------------------
(***************************************************************************)
(* A whole synchronization: a client session and a server session of this  *)
(* code, the transport between them, the user and the network.  Either     *)
(* side may start: a client initiates the sync, or a server alerts it.     *)
(***************************************************************************)
EXTENDS ClientSession, ServerSession

(***************************************************************************)
(* The configuration of the two sides.  A refresh is not configured:       *)
(* SyncAgent.h lists it as unsupported.                                    *)
(*   noInit    sync without initialization phase, set where the sync starts *)
(*   dbs       the databases of the client, in the order of its targets    *)
(*   served    those of them that the server has                           *)
(*   first     there was no synchronization before                         *)
(*   mismatch  databases whose anchors do not match                        *)
(*   room      the message size: so many statuses leave room for a command *)
(*   fillers   the message size: the kinds of packages that may fill one   *)
(* maxChanges, fastMaps and omit are the properties of the same names.     *)
(***************************************************************************)
Config == [noInit : BOOLEAN, mode : {m \in SyncMode : m.type # "REFRESH"},
           dbs : Seq(Db), served : SUBSET Db, first : BOOLEAN, mismatch : SUBSET Db,
           fastMaps : BOOLEAN, omit : BOOLEAN,
           room : Nat \ {0}, fillers : SUBSET PackageKinds, maxChanges : Nat \ {0}]

Faults == {"loss", "garbled", "user", "connection", "invalid", "rejected",
           "sent", "startup"}

ASSUME ConfigAssumption == Configs \subseteq Config /\ FaultKinds \subseteq Faults

-----------------------------------------------------------------------------
\* The initiator of the configured mode starts; the other side listens, its
\* RequestListener having called receive() on the transport
Init ==
    /\ cfg \in Configs
    /\ syncState = [p \in Party |-> "NOT_PREPARED"]
    /\ syncFinished = [p \in Party |-> FALSE]
    /\ sessionClosed = [p \in Party |-> FALSE]
    /\ syncWithoutInit = [p \in Party |-> FALSE]
    /\ cmdResp = [p \in Party |-> [filled |-> FALSE, alert |-> "none"]]
    /\ remoteInf = [p \in Party |-> FALSE]
    /\ statuses = [p \in Party |-> <<>>]
    /\ packages = [p \in Party |-> <<>>]
    /\ targets = [p \in Party |-> <<>>]
    /\ processing = [p \in Party |-> FALSE]
    /\ fragments = [p \in Party |-> <<>>]
    /\ last = [p \in Party |-> FALSE]
    /\ changeLog = [p \in Party |-> <<>>]
    /\ applied = [p \in Party |-> [d \in Db |-> <<>>]]
    /\ armed = [p \in Party |-> p # cfg.mode.init]
    /\ incoming = [p \in Party |-> <<>>]
    /\ parsed = [p \in Party |-> <<>>]
    /\ net = [p \in Party |-> <<>>]
    /\ faults = 0

(***************************************************************************)
(* BaseTransport::receive( data ): a message reaches a party.  If it is    *)
(* waited for it is parsed, and parsingComplete is queued; if not it stays *)
(* in the buffer, in the place of one that was there.  A transport knows   *)
(* nothing of its session: a message may reach one that is closed.         *)
(***************************************************************************)
Deliver(p) ==
    /\ net[p] # <<>>
    /\ net' = [net EXCEPT ![p] = Tail(@)]
    /\ IF armed[p]
       THEN /\ armed' = [armed EXCEPT ![p] = FALSE]
            /\ parsed' = [parsed EXCEPT ![p] = Append(@, Head(net[p]))]
            /\ UNCHANGED incoming
       ELSE /\ incoming' = [incoming EXCEPT ![p] = <<Head(net[p])>>]
            /\ UNCHANGED <<armed, parsed>>
    /\ UNCHANGED <<cfg, control, syncWithoutInit, peer, statuses, packages, targets,
                   reading, storage, faults>>

-----------------------------------------------------------------------------
(***************************************************************************)
(* Faults.  Those that reach a session do so from its event loop, between  *)
(* two messages.                                                           *)
(***************************************************************************)
Fault(kind) ==
    /\ kind \in FaultKinds
    /\ faults < MaxFaults
    /\ faults' = faults + 1

InSession(p) == syncState[p] # "NOT_PREPARED" /\ ~sessionClosed[p] /\ ~processing[p]

\* The transport fails to send, or the network loses, a message
LoseMessage(p) ==
    /\ Fault("loss")
    /\ net[p] # <<>>
    /\ net' = [net EXCEPT ![p] = Tail(@)]
    /\ UNCHANGED <<cfg, control, syncWithoutInit, peer, statuses, packages, targets,
                   reading, storage, armed, incoming, parsed>>

\* A message that does not parse: handleParserErrors
GarbledMessage(p) ==
    /\ Fault("garbled")
    /\ InSession(p)
    /\ net[p] # <<>>
    /\ armed[p]
    /\ AbortSync(p, "INVALID_SYNCML_MESSAGE")
    /\ net' = [net EXCEPT ![p] = Tail(@)]
    /\ armed' = [armed EXCEPT ![p] = FALSE]
    /\ UNCHANGED <<cfg, syncWithoutInit, peer, statuses, reading, applied,
                   incoming, parsed>>

\* SyncAgent::abort
UserAbort(p) ==
    /\ Fault("user")
    /\ InSession(p)
    /\ AbortSync(p, "ABORTED")
    /\ UNCHANGED <<cfg, syncWithoutInit, peer, statuses, reading, applied, link>>

\* setTransportStatus: the state a transport event ends the session in.  It has
\* no case for TRANSPORT_DATA_SENT, the event "sent"
StateAfterEvent(p, event) ==
    CASE event = "invalid"    -> "INVALID_SYNCML_MESSAGE"
      [] event = "connection" -> "CONNECTION_ERROR"
      [] event = "rejected"   -> IF cmdResp[p].filled THEN "CONNECTION_ERROR"
                                 ELSE "UNSUPPORTED_SYNC_TYPE"
      [] event = "sent"       -> "INTERNAL_ERROR"

SetTransportStatus(p, event) ==
    /\ Fault(event)
    /\ InSession(p)
    /\ AbortSync(p, StateAfterEvent(p, event))
    /\ UNCHANGED <<cfg, syncWithoutInit, peer, statuses, reading, applied, link>>

\* prepareSync or initiateSync gives up before anything is sent
StartupFailure(state) ==
    /\ Fault("startup")
    /\ syncState[cfg.mode.init] = "NOT_PREPARED"
    /\ AbortSync(cfg.mode.init, state)
    /\ UNCHANGED <<cfg, syncWithoutInit, peer, statuses, reading, applied, link>>

-----------------------------------------------------------------------------
Process(p) ==
    \/ BeginMessage(p)
    \/ ServeRequest(p)
    \/ HandleHeader(p)
    \/ HandleStatus(p)
    \/ HandleDevInf(p)
    \/ HandleResults(p)
    \/ HandleNextMessageAlert(p)
    \/ HandleFinalElement(p)

ClientStep ==
    \/ InitiateClientSync
    \/ HandleClientAlert
    \/ HandleClientSync
    \/ HandleClientFinal
    \/ EndOfClientMessage

ServerStep ==
    \/ InitiateServerSync
    \/ HandleServerAlert
    \/ HandleServerSync
    \/ HandleServerMap
    \/ HandleServerFinal
    \/ EndOfServerMessage

\* What the event loops and a transport that works do by themselves
Progress ==
    \/ \E p \in Party : Process(p) \/ Deliver(p)
    \/ ClientStep
    \/ ServerStep

Environment ==
    \/ \E p \in Party :
          \/ LoseMessage(p)
          \/ GarbledMessage(p)
          \/ UserAbort(p)
          \/ \E event \in {"invalid", "connection", "rejected", "sent"} :
                SetTransportStatus(p, event)
    \/ \E state \in {"INTERNAL_ERROR", "DATABASE_FAILURE", "CONNECTION_ERROR"} :
          StartupFailure(state)

Next == Progress \/ Environment

Spec     == Init /\ [][Next]_vars
FairSpec == Spec /\ WF_vars(Progress)

=============================================================================
