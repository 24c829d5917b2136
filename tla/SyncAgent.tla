----------------------------- MODULE SyncAgent -----------------------------
(***************************************************************************)
(* The agents of two devices (SyncAgent.cpp, RequestListener.cpp), each in *)
(* the main thread of its device, over OBEX: one starts synchronizations,  *)
(* the other listens for them.  Of a session (SessionHandler.cpp and its   *)
(* two subclasses) only its life is kept: it takes messages in turn with   *)
(* the other one until the last of cfg.length, and it closes its           *)
(* transport.  What the messages say is the subject of SyncSession.        *)
(*                                                                         *)
(* The application calls its agent between two events.                     *)
(***************************************************************************)
EXTENDS OBEXTransport, FiniteSets

CONSTANTS
    Configs     \* records: first, length, unprepared, garbled, starts,
                \* listens, aborts, breaks, timeouts, early, deletes

ASSUME ConfigAssumption ==
    \A c \in Configs :
        /\ c.first \in {"request", "alert", "san"}   \* what the first message is
        /\ c.length \in Nat \ {0, 1}                 \* messages of a session
        /\ c.unprepared \subseteq Devices            \* whose database file cannot be opened
        /\ {c.starts, c.listens, c.aborts, c.breaks} \subseteq Nat
        /\ {c.garbled, c.timeouts, c.early, c.deletes} \subseteq BOOLEAN
        /\ c.timeouts \/ c.aborts + c.breaks = 0      \* or nothing disturbs at all

VARIABLES
    cfg,        \* the configuration, with what is left of its budgets
    session,    \* iHandler: its state, and the last message it took or sent
    listening,  \* whether there is an iListener
    asked,      \* operations an agent has accepted
    told,       \* operations the application knows the end of
    iResults    \* the outcome it was told last

agentVars == <<cfg, session, listening, asked, told, iResults>>
vars == <<workerVars, transportVars, agentVars>>

NoSession == [state |-> "none", turn |-> 0, of |-> 0, outcome |-> "none"]
Busy(d) == session[d].state # "none" \/ listening[d]
InLoop(d) == main[d] = <<>>
Spend(budget) == cfg[budget] > 0 /\ cfg' = [cfg EXCEPT ![budget] = @ - 1]

\* Whether the session of a device is the SyncML server
Serves(d) == (cfg.first = "request") = (d = "server")

Enqueue(d, name) == [name |-> name, message |-> NoMessage, of |-> asked[d]]
Run(d, steps) == main' = [main EXCEPT ![d] = steps]

\* What stays in a queue, in its order, when an object is deleted: Qt drops the
\* events that were posted to it
Kept(events, dropped) ==
    LET kept == {i \in DOMAIN events : events[i].name \notin dropped}
        Rank(i) == Cardinality({j \in kept : j <= i})
    IN  [k \in 1 .. Cardinality(kept) |-> events[CHOOSE i \in kept : Rank(i) = k]]

-----------------------------------------------------------------------------
(***************************************************************************)
(* The session                                                             *)
(***************************************************************************)

\* abortSync() of a session that is not closed: exitSync() closes the
\* transport, then reports
Exit == <<Do("close"), Do("report")>>
Ended(d, outcome) == [session[d] EXCEPT !.state = "closed", !.outcome = outcome]
AbortSync(d, outcome) ==
    IF session[d].state = "closed" THEN UNCHANGED <<session, main>>
    ELSE /\ session' = [session EXCEPT ![d] = Ended(d, outcome)]
         /\ Run(d, Exit)

\* The end of exitSync(): syncFinished is queued towards the agent
ReportEnd(d) ==
    /\ AtStep(d, "report")
    /\ queue' = [queue EXCEPT ![d] = Append(@, Enqueue(d, "syncFinished"))]
    /\ Then(d, <<>>)
    /\ UNCHANGED <<link, worker, iMessage, transportVars, agentVars>>

(***************************************************************************)
(* A message that was taken is answered, unless it was the last; the       *)
(* sender of the last one does not wait for an answer.                     *)
(***************************************************************************)
Message(n, operation) == [n |-> n, of |-> operation]
\* Mutant: the last message is not sent any more
ProcessMessageUnanswered(d, s, message) ==
    LET n == message.n + 1
        taken == [s EXCEPT !.turn = n, !.of = message.of]
        finished == [taken EXCEPT !.state = "closed", !.turn = cfg.length, !.outcome = "finished"]
    IN  /\ session' = [session EXCEPT ![d] = IF n < cfg.length THEN taken ELSE finished]
        /\ Run(d, IF n < cfg.length THEN <<Send(Message(n, message.of)), Do("receive")>> ELSE Exit)

ProcessMessage(d, s, message) ==
    LET n == message.n + 1
        answer == <<Send(Message(n, message.of))>>
        taken == [s EXCEPT !.turn = n, !.of = message.of]
        finished == [taken EXCEPT !.state = "closed", !.turn = cfg.length, !.outcome = "finished"]
    IN  /\ session' = [session EXCEPT ![d] = IF n < cfg.length THEN taken ELSE finished]
        /\ Run(d, IF n < cfg.length THEN answer \o <<Do("receive")>>
                  ELSE IF n = cfg.length THEN answer \o Exit ELSE Exit)

\* handleParsingComplete(), of a session that may be closed by now
HandleParsingComplete(d) ==
    /\ IF session[d].state = "open" THEN ProcessMessage(d, session[d], Head(queue[d]).message)
       ELSE UNCHANGED <<session, main>>
    /\ UNCHANGED <<link, worker, iMessage, transportVars, cfg, listening, asked, told, iResults>>

(***************************************************************************)
(* initiateSync(): an OMA DS 1.2 notification is sent by sendSAN(), which  *)
(* does not prepare the transport for sending.  Nothing asks whether the   *)
(* session has been closed since it was created.                           *)
(***************************************************************************)
FirstMessage(d) == LET message == Message(1, asked[d])
                   IN  IF cfg.first = "san" THEN [Send(message) EXCEPT !.do = "doSend"]
                       ELSE Send(message)
Begun(d) == [session[d] EXCEPT !.state = IF @ = "closed" THEN @ ELSE "open",
                               !.turn = 1, !.of = asked[d]]
Prepared(d) == queue' = [queue EXCEPT ![d] = Append(Tail(@), Enqueue(d, "stateChanged"))]
InitiateSync(d) ==
    /\ IF d \in cfg.unprepared
       THEN /\ AbortSync(d, "internalError")
            /\ queue' = [queue EXCEPT ![d] = Tail(@)]
            /\ UNCHANGED <<link, worker, connection>>
       ELSE /\ Prepared(d)
            /\ IF CanConnect(d)
               THEN /\ InitTransport(d, asked[d])
                    /\ session' = [session EXCEPT ![d] = Begun(d)]
                    /\ Run(d, <<FirstMessage(d), Do("receive")>>)
               ELSE /\ AbortSync(d, "connectionError")
                    /\ UNCHANGED <<link, worker, connection>>
    /\ UNCHANGED <<iMessage, iHandleIncomingData, cfg, listening, asked, told, iResults>>

\* serveRequest(), handleNotificationXML() and handleNotificationPackage()
Serve(d, message) ==
    LET created == [NoSession EXCEPT !.state = "open", !.of = message.of]
    IN  IF d \in cfg.unprepared
        THEN /\ session' = [session EXCEPT ![d] =
                               [created EXCEPT !.state = "closed", !.outcome = "internalError"]]
             /\ Run(d, Exit)
             /\ queue' = [queue EXCEPT ![d] = Tail(@)]
        ELSE ProcessMessage(d, created, message) /\ Prepared(d)

-----------------------------------------------------------------------------
(***************************************************************************)
(* The agent and its listener                                              *)
(***************************************************************************)

\* finishSync()
FinishSync(d, outcome) ==
    /\ told' = [told EXCEPT ![d] = @ + 1]
    /\ iResults' = [iResults EXCEPT ![d] = outcome]

Accept(d) == ~Busy(d) /\ asked' = [asked EXCEPT ![d] = @ + 1]

\* startSync(): the session is created, and begins with the next event
StartSync ==
    /\ InLoop("client") /\ Spend("starts") /\ Accept("client")
    /\ session' = [session EXCEPT !["client"] = [NoSession EXCEPT !.state = "created"]]
    /\ queue' = [queue EXCEPT !["client"] = Append(@, [Enqueue("client", "initiateSync")
                                                       EXCEPT !.of = asked["client"] + 1])]
    /\ iResults' = [iResults EXCEPT !["client"] = "none"]
    /\ UNCHANGED <<link, worker, iMessage, main, transportVars, listening, told>>

\* listen(), of a transport that is not in use; it receives at once
Listen ==
    /\ InLoop("server") /\ Spend("listens") /\ Accept("server")
    /\ worker["server"].thread = "none" /\ CanConnect("server")
    /\ InitTransport("server", asked["server"] + 1)
    /\ listening' = [listening EXCEPT !["server"] = TRUE]
    /\ Run("server", <<Do("receive")>>)
    /\ UNCHANGED <<iMessage, queue, iHandleIncomingData, session, told, iResults>>

\* abort() of a session, and of the listener, which leaves the transport open
AbortSession(d) ==
    /\ InLoop(d) /\ Spend("aborts")
    /\ session[d].state \in {"open"} \cup (IF cfg.early THEN {"created"} ELSE {})
    /\ AbortSync(d, "aborted")
    /\ UNCHANGED <<link, worker, iMessage, queue, transportVars, listening, asked, told, iResults>>

AbortListen(d) ==
    /\ InLoop(d) /\ Spend("aborts") /\ listening[d]
    /\ listening' = [listening EXCEPT ![d] = FALSE]
    /\ told' = [told EXCEPT ![d] = @ + 1]
    /\ UNCHANGED <<workerVars, transportVars, session, asked, iResults>>

\* pauseSync(): a server does not support it, and a client asserts
PauseSync(d) ==
    /\ InLoop(d) /\ Spend("aborts") /\ session[d].state = "open" /\ Serves(d)
    /\ queue' = [queue EXCEPT ![d] = Append(@, Enqueue(d, "suspendSync"))]
    /\ UNCHANGED <<link, worker, iMessage, main, transportVars, session, listening, asked, told, iResults>>
SuspendSync(d) ==
    /\ AbortSync(d, "internalError")
    /\ UNCHANGED <<link, worker, iMessage, transportVars, cfg, listening, asked, told, iResults>>

\* Mutant: the listener is kept
ListenErrorListening(d, outcome) ==
    /\ FinishSync(d, outcome)
    /\ UNCHANGED <<listening, session, main>>

\* listenError(): the listener is deleted, the transport is left open
ListenError(d, outcome) ==
    /\ listening' = [listening EXCEPT ![d] = FALSE]
    /\ FinishSync(d, outcome)
    /\ UNCHANGED <<session, main>>

\* receiveSyncFinished(): the session is deleted with what is queued for it
ForSession == {"initiateSync", "parsed", "suspendSync"}
ReceiveSyncFinished(d) ==
    /\ session' = [session EXCEPT ![d] = NoSession]
    /\ FinishSync(d, session[d].outcome)
    /\ queue' = [queue EXCEPT ![d] = Kept(Tail(@), ForSession)]
    /\ UNCHANGED <<link, worker, iMessage, main, transportVars, cfg, listening, asked>>

(***************************************************************************)
(* Data that came: parsed for a session, and taken later; or the request   *)
(* that a listener waits for, for which listenEvent() replaces it by a     *)
(* session, unless no alert is found in it.                                *)
(***************************************************************************)
IncomingData(d) ==
    LET e == Head(queue[d])
    IN  /\ iHandleIncomingData' = [iHandleIncomingData EXCEPT ![d] = FALSE]
        /\ IF listening[d] /\ cfg.garbled
           THEN ListenError(d, "invalidMessage") /\ queue' = [queue EXCEPT ![d] = Tail(@)]
           ELSE /\ IF listening[d]
                   THEN Serve(d, e.message)
                   ELSE /\ queue' = [queue EXCEPT ![d] =
                               IF session[d].state = "none" THEN Tail(@)
                               ELSE Append(Tail(@), [name |-> "parsed", message |-> e.message, of |-> e.of])]
                        /\ UNCHANGED <<session, main>>
                /\ listening' = [listening EXCEPT ![d] = FALSE]
                /\ UNCHANGED <<told, iResults>>
        /\ UNCHANGED <<link, worker, iMessage, connection, cfg, asked>>

\* A transport event: setTransportStatus() of a session, transportEvent() of
\* a listener; without either nobody hears of it
TransportEvent(d) ==
    /\ IF listening[d] THEN ListenError(d, "connectionError")
       ELSE /\ IF session[d].state = "open" THEN AbortSync(d, "connectionError")
               ELSE UNCHANGED <<session, main>>
            /\ UNCHANGED <<listening, told, iResults>>
    /\ UNCHANGED <<link, worker, iMessage, transportVars, cfg, asked>>

\* receiveStateChanged(): the application is told the state
StateChanged(d) ==
    UNCHANGED <<link, worker, iMessage, main, transportVars, agentVars>>

Handles(d, name) == InLoop(d) /\ queue[d] # <<>> /\ Head(queue[d]).name = name
Dequeue(d) == queue' = [queue EXCEPT ![d] = Tail(@)]
HandleEvent(d) ==
    \/ Handles(d, "initiateSync") /\ InitiateSync(d)
    \/ Handles(d, "syncFinished") /\ ReceiveSyncFinished(d)
    \/ Handles(d, "incomingData") /\ IncomingData(d)
    \/ Handles(d, "stateChanged") /\ StateChanged(d) /\ Dequeue(d)
    \/ Handles(d, "parsed") /\ HandleParsingComplete(d) /\ Dequeue(d)
    \/ Handles(d, "suspendSync") /\ SuspendSync(d) /\ Dequeue(d)
    \/ /\ \E name \in TransportEvents \ {"incomingData"} : Handles(d, name)
       /\ TransportEvent(d) /\ Dequeue(d)

(***************************************************************************)
(* The application deletes a transport that its agent has left open, which *)
(* closes it, and takes a new one for its next operation.                  *)
(***************************************************************************)
DeleteTransport(d) ==
    /\ cfg.deletes /\ InLoop(d) /\ ~Busy(d) /\ worker[d].thread # "none"
    /\ Run(d, <<Do("close"), Do("delete")>>)
    /\ UNCHANGED <<link, worker, iMessage, queue, transportVars, agentVars>>
Deleted(d) ==
    /\ AtStep(d, "delete")
    /\ queue' = [queue EXCEPT ![d] = Kept(@, TransportEvents)]
    /\ iHandleIncomingData' = [iHandleIncomingData EXCEPT ![d] = FALSE]
    /\ Then(d, <<>>)
    /\ UNCHANGED <<link, worker, iMessage, connection, agentVars>>

-----------------------------------------------------------------------------
Init ==
    /\ cfg \in Configs
    /\ link = [up |-> FALSE, toServer |-> <<>>, toClient |-> <<>>]
    /\ worker = [d \in Devices |-> NoWorker] /\ iMessage = NoMessage
    /\ queue = [d \in Devices |-> <<>>] /\ main = [d \in Devices |-> <<>>]
    /\ connection = [d \in Devices |-> FALSE]
    /\ iHandleIncomingData = [d \in Devices |-> FALSE]
    /\ session = [d \in Devices |-> NoSession] /\ listening = [d \in Devices |-> FALSE]
    /\ asked = [d \in Devices |-> 0] /\ told = [d \in Devices |-> 0]
    /\ iResults = [d \in Devices |-> "none"]

\* What a main thread does by itself, and what its application may have it do
EventLoop(d) == \/ TransportSteps(d) /\ UNCHANGED agentVars
                \/ ReportEnd(d) \/ HandleEvent(d) \/ Deleted(d)
MainThread(d) == EventLoop(d) \/ DeleteTransport(d)
Workers(d) == /\ IF d = "client" THEN ClientWorks ELSE ServerWorks
              /\ UNCHANGED <<transportVars, agentVars>>
Timeout == cfg.timeouts /\ (ClientTimeout \/ ServerTimeout) /\ UNCHANGED <<transportVars, agentVars>>
Application == StartSync \/ Listen \/ \E d \in Devices : AbortSession(d) \/ AbortListen(d) \/ PauseSync(d)
Breaks == Spend("breaks") /\ LinkBreaks /\ UNCHANGED <<session, listening, asked, told, iResults>>

Next == \/ \E d \in Devices : MainThread(d) \/ Workers(d)
        \/ Timeout \/ Application \/ Breaks

Spec == Init /\ [][Next]_vars

(***************************************************************************)
(* The two threads of a device run, and what is on the link arrives.       *)
(* Nothing is promised of the applications, not that they delete the       *)
(* transports they do not need, nor that a worker gives up in time.        *)
(***************************************************************************)
FairSpec == Spec /\ \A d \in Devices : WF_vars(EventLoop(d)) /\ WF_vars(Workers(d))
=============================================================================
