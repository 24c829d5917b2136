--------------------------- MODULE SyncAgentProps ---------------------------
(***************************************************************************)
(* What two agents and the OBEX transports between them promise their      *)
(* applications, and each other.                                           *)
(***************************************************************************)
EXTENDS SyncAgent

\* SyncAgent: of every operation that was accepted the application learns one
\* end, whatever ends it - its session, its listener, or abort() - and however
\* many of them do; until then the agent has the session or the listener of that
\* operation, and never both.
EachEndsOnce == \A d \in Devices :
    /\ asked[d] = told[d] + (IF Busy(d) THEN 1 ELSE 0)
    /\ ~(listening[d] /\ session[d].state # "none")

\* The events a busy agent has yet to handle are those of its own operation: the
\* worker of the one before reported to the last before its thread ended, and
\* close() waits for that end before syncFinished is queued.  A message among
\* them BaseTransport::receive( data ) handed over to someone who waited for it,
\* and it is the next one: a PUT or a GET answered twice, or a message left over
\* from a session before, would be taken for it.
InTurn == \A d \in Devices : \A i \in 1 .. Len(queue[d]) :
    /\ Busy(d) => queue[d][i].of = asked[d]
    /\ queue[d][i].name = "incomingData" /\ Busy(d) => iHandleIncomingData[d]
    /\ queue[d][i].name \in {"incomingData", "parsed"} /\ session[d].state = "open" =>
           queue[d][i].message = Message(session[d].turn + 1, session[d].of)

\* A message that a server keeps for its client (OBEXTransport::iMessage) is
\* fetched, or dropped when the transport is closed and its worker is gone; it is
\* not replaced by the next one, nor deleted under the worker that encodes it.
MessageFetched == [][iMessage # NoMessage /\ iMessage' # iMessage =>
                         \/ GetRequest
                         \/ AtStep("server", "release") /\ ~Alive("server")]_vars

-----------------------------------------------------------------------------
\* Two devices whose workers have met both come to an end of that operation,
\* whatever is aborted, fails or breaks, though a worker may never give up
\* waiting: there is no wait of one for the other from which nothing leads out,
\* but one.  An agent whose listener has ended without a session (abort, an error,
\* a request that it cannot read) leaves its transport open (Transport.h:153), and
\* the other device waits until the application deletes that: the premise is that
\* it does not keep for ever what its agent has left.
Meet == worker["client"].connected /\ worker["server"].connected
Other(d) == IF d = "client" THEN "server" ELSE "client"
LeftOpen(d) == InLoop(d) /\ ~Busy(d) /\ worker[d].thread # "none"
BothEnd == \A d \in Devices :
    []<>~LeftOpen(Other(d)) => \A k \in 1 .. 2 : Meet /\ asked[d] = k ~> told[d] >= k

\* Where nothing fails the two sessions take all their messages, and the
\* applications of both learn that they finished, not of the closed connection.
Undisturbed == ~cfg.timeouts /\ ~cfg.garbled /\ cfg.unprepared = {}
Began == asked["client"] = 1 /\ asked["server"] = 1
EndsWell == Undisturbed /\ cfg.first # "san" /\ Began
                ~> \A d \in Devices : iResults[d] = "finished"

=============================================================================
