-------------------------- MODULE SyncSessionProps --------------------------
(***************************************************************************)
(* What a synchronization must and must not do: the properties of          *)
(* SyncSession, and its implementation of SyncPromise.                     *)
(***************************************************************************)
EXTENDS SyncSession, Functions

\* Type correctness: every variable of the two sessions keeps its type
TypeOK ==
    /\ cfg \in Configs
    /\ syncState \in [Party -> SyncStates]
    /\ syncFinished \in [Party -> BOOLEAN]
    /\ sessionClosed \in [Party -> BOOLEAN]
    /\ syncWithoutInit \in [Party -> BOOLEAN]
    /\ cmdResp \in [Party -> [filled : BOOLEAN, alert : Responses \cup {"none"}]]
    /\ remoteInf \in [Party -> BOOLEAN]
    /\ statuses \in [Party -> Seq(Status)]
    /\ packages \in [Party -> Seq(Package)]
    /\ targets \in [Party -> Seq(Target)]
    /\ processing \in [Party -> BOOLEAN]
    /\ fragments \in [Party -> Message]
    /\ last \in [Party -> BOOLEAN]
    /\ changeLog \in [Party -> Seq(Seq(Target))]
    /\ applied \in [Party -> [Db -> Seq(Item)]]
    /\ armed \in [Party -> BOOLEAN]
    /\ incoming \in [Party -> Seq(Message)]
    /\ parsed \in [Party -> Seq(Message)]
    /\ net \in [Party -> Seq(Message)]
    /\ faults \in 0..MaxFaults

-----------------------------------------------------------------------------
(***************************************************************************)
(* The conversation.                                                       *)
(***************************************************************************)
\* The messages a party has to deal with, on the way or being processed
InHand(p) == IF processing[p] THEN 1 ELSE 0
Load(p)   == Len(net[p]) + Len(incoming[p]) + Len(parsed[p]) + InHand(p)

\* The sessions speak in turns: at any time there is one message between them
\* at most, in the network, in a transport, in a parser or being processed.
\* The one-message buffer of BaseTransport and the single set of fragments of
\* the parser (takeFragments) lose messages without it.
HalfDuplex == Load(Client) + Load(Server) <= 1

\* A session that was left stays left: whatever reaches it later, it sends
\* nothing, stores nothing, saves nothing and keeps the state that syncFinished
\* reported.  The code has no check for it where messages come in
\* (handleParsingComplete), it relies on every handler of every state.
ClosedIsSilent ==
    [][\A p \in Party : sessionClosed[p] =>
          /\ sessionClosed'[p]
          /\ syncState'[p] = syncState[p]
          /\ changeLog'[p] = changeLog[p]
          /\ applied'[p] = applied[p]
          /\ Len(net'[Other(p)]) <= Len(net[Other(p)])]_vars

\* A session ends once and in order: it is finished in the end states and in
\* no other, it is closed when it is finished and processes no message, and it
\* saved its targets if and only if it finished well
EndsOnce ==
    \A p \in Party :
        /\ syncFinished[p] <=> syncState[p] \in {"SYNC_FINISHED"} \cup ErrorStates
        /\ sessionClosed[p] => syncFinished[p]
        /\ (syncFinished[p] /\ ~processing[p]) => sessionClosed[p]
        /\ Len(changeLog[p]) = IF sessionClosed[p] /\ syncState[p] = "SYNC_FINISHED"
                               THEN 1 ELSE 0

-----------------------------------------------------------------------------
(***************************************************************************)
(* The data.                                                               *)
(***************************************************************************)
IsSaved(p) == changeLog[p] # <<>>

\* The server may want the databases synced slowly: no anchors, or others, or a
\* slow sync by configuration
MayRevert == cfg.first \/ cfg.mode.type = "SLOW" \/ cfg.mismatch # {}

\* The server knows all there is to sync from the first message of the client:
\* its alerts are not cut.  Neither are changes sent with them, if they may be
\* reverted: a server that alerts the client of that ends its own package while
\* the client is still sending the first one, and the two packages cross
FirstPackage == InitializationPackages(Discovered(InitialTargets), TRUE)

FirstPackageWhole ==
    /\ cfg.fillers \cap {"PutGet", "Alert"} = {}
    /\ (cfg.noInit /\ cfg.mode.init = Client /\ MayRevert) =>
          \A cut \in Cuts(FirstPackage, TRUE) : cut.left = <<>>

\* The client is the last to save: it never moves its anchors forward in a
\* synchronization that the server did not save, whatever fails.  That takes a
\* first package that was not cut, and a client that does not omit its last one
ClientSavesLast ==
    (IsSaved(Client) /\ FirstPackageWhole /\ ~cfg.omit) => IsSaved(Server)

\* No item is handed to a storage twice, however packages are cut into
\* messages and whatever is sent again after a revert
AppliedOnce == \A p \in Party, d \in Db : IsInjective(applied[p][d])

SavedTargets(p) == UNION {Range(changeLog[p][i]) : i \in DOMAIN changeLog[p]}

Occurrences(x, seq) == Cardinality({i \in DOMAIN seq : seq[i] = x})

\* A server that saves has one mapping for each item that the client stored,
\* and for each item it stored itself: later changes find their item by it
MappingsComplete ==
    \A t \in SavedTargets(Server), p \in Party :
        \A item \in Range(applied[p][t.db]) : Occurrences(item, t.mapped) = 1

\* The two sides save a database in one and the same mode, if the mode of the
\* server is one that an alert code tells the client
ModesAgree ==
    \A t \in SavedTargets(Client), u \in SavedTargets(Server) :
        (t.db = u.db /\ Representable(u.mode)) => t.mode = u.mode

\* A database the server has is saved with the anchor of the other side, or
\* the next synchronization of it has to be a slow one
AnchorsExchanged ==
    \A p \in Party : \A t \in SavedTargets(p) : t.db \in cfg.served => t.anchored

-----------------------------------------------------------------------------
(***************************************************************************)
(* Progress, where nothing fails.                                          *)
(***************************************************************************)
\* A server in FINALIZING does not listen any more (ServerSessionHandler.cpp:369),
\* though the client has to ask for what is left of a last package that was cut
Deaf == syncState[Server] = "FINALIZING" /\ ~armed[Server] /\ incoming[Server] # <<>>

\* The configurations in which its last package fits in a message: these have room
\* for everything, or there is one database, whose mappings come after all items
Roomy ==
    cfg.fillers = {} \/ (Len(cfg.dbs) = 1 /\ ~cfg.fastMaps /\ cfg.mode.dir # "FROM_CLIENT")

\* Every synchronization ends saved on both sides, if the server has one of the
\* databases at least: no message is waited for that the other side will not
\* send, and no package is asked for over and over.  Only a server whose last
\* package was cut leaves the client waiting.  A client none of whose databases
\* the server has is told so, and reports it
EventuallySaved ==
    <>IF cfg.served = {}
      THEN sessionClosed[Client] /\ syncState[Client] = "UNSUPPORTED_STORAGE_TYPE"
      ELSE \/ IsSaved(Client) /\ IsSaved(Server)
           \/ ~Roomy /\ Deaf /\ ~processing[Server]

-----------------------------------------------------------------------------
(***************************************************************************)
(* What a comment of the code says, and the code does not do.              *)
(***************************************************************************)
\* A database the server saves in slow sync got all that the client has: the
\* changes a server ignored for the revert (syncReceived) were sent anew in
\* full.  A target that discovered its changes before it reverted keeps them.
SlowSendsAll ==
    \A t \in SavedTargets(Server) :
        (t.mode.type = "SLOW" /\ Sends(Client, t.mode.dir))
            => Range(Whole[Client][t.db]) \subseteq Range(applied[Server][t.db])

-----------------------------------------------------------------------------
(***************************************************************************)
(* A synchronization keeps its promise.                                    *)
(***************************************************************************)
OutcomeOf(p) ==
    CASE ~sessionClosed[p]                  -> "open"
      [] syncState[p] = "SYNC_FINISHED"     -> "saved"
      [] OTHER                              -> "failed"

\* The mode a database was saved in; none, if it was not
SavedMode(p, db) ==
    IF \E t \in SavedTargets(p) : t.db = db
    THEN (CHOOSE t \in SavedTargets(p) : t.db = db).mode
    ELSE [dir |-> "none", init |-> "none", type |-> "none"]

Promise == INSTANCE SyncPromise WITH
    Fresh   <- [p \in Party |-> [d \in Db |-> Range(Fresh[p][d])]],
    Whole   <- [p \in Party |-> [d \in Db |-> Range(Whole[p][d])]],
    stored  <- [p \in Party |-> [d \in Db |-> Range(applied[p][d])]],
    outcome <- [p \in Party |-> OutcomeOf(p)],
    agreed  <- [p \in Party |-> [d \in Db |-> SavedMode(p, d)]]

\* What the sessions do is what the promise allows: nothing is stored in a
\* session that was left, what is saved is complete, the client saves last
KeepsPromise == Promise!Spec

=============================================================================
