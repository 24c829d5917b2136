--------------------------- MODULE OBEXTransport ---------------------------
(***************************************************************************)
(* The OBEX transports of two devices, their worker threads and the link   *)
(* between them (transport/OBEXTransport.cpp, OBEXWorker.cpp,              *)
(* OBEXClientWorker.cpp, OBEXServerWorker.cpp, OBEXDataHandler.cpp, and    *)
(* receive() of BaseTransport.cpp).                                        *)
(*                                                                         *)
(* The main thread of a device has a worker do something by posting a job  *)
(* to its mailbox, and may wait until it is done; the worker reports by    *)
(* posting events to the queue of the main thread.  While a worker waits   *)
(* for the other device it does nothing else.  OpenOBEX is external: one   *)
(* request is under way at a time, and OBEX_HandleInput delivers what has  *)
(* come, fails when the link is down, or gives up after a time.            *)
(***************************************************************************)
EXTENDS Naturals, Sequences

-----------------------------------------------------------------------------
(***************************************************************************)
(* The OBEX objects that the workers send each other                       *)
(* (transport/OBEXDataHandler.cpp): a command or a response, and its       *)
(* headers as a function from their names.  Headers always fit; what a     *)
(* body says is a message of the sessions.                                 *)
(***************************************************************************)
SyncMLTarget == "SYNCML-SYNC"

\* OBEXServerWorker.cpp: the one connection a server worker ever has
ConnectionId == 1

ConnectCmd(target)       == [cmd |-> "CONNECT", headers |-> [target |-> target]]
DisconnectCmd(id)        == [cmd |-> "DISCONNECT", headers |-> [connection |-> id]]
PutCmd(id, type, body)   == [cmd |-> "PUT", headers |->
                                [connection |-> id, type |-> type, body |-> body]]
GetCmd(id, type)         == [cmd |-> "GET", headers |-> [connection |-> id, type |-> type]]

\* A response has the command it answers, so that the requester's library
\* can tell RequestCompleted() of it
ConnectRsp(id, who)      == [cmd |-> "CONNECT", rsp |-> "SUCCESS",
                             headers |-> [connection |-> id, who |-> who]]
GetRsp(body)             == [cmd |-> "GET", rsp |-> "SUCCESS", headers |-> [body |-> body]]
PlainRsp(command, code)  == [cmd |-> command.cmd, rsp |-> code, headers |-> <<>>]

(***************************************************************************)
(* What a parser insists on.  A command without connection id is only      *)
(* warned of; a header that is not known makes a PUT an unsupported one.   *)
(***************************************************************************)
Has(object, names)         == names \subseteq DOMAIN object.headers
ParseConnectCmd(object)    == Has(object, {"target"})
ParseConnectRsp(object)    == Has(object, {"connection", "who"})
ParseDisconnectCmd(object) == Has(object, {"connection"})
ParsePutCmd(object)        == Has(object, {"type"})
ParseGetCmd(object)        == Has(object, {"type"})
UnsupportedHeaders(object) ==
    DOMAIN object.headers \ {"connection", "type", "length", "body"} # {}
ForThisConnection(object)  == Has(object, {"connection"})
                              /\ object.headers.connection = ConnectionId

-----------------------------------------------------------------------------
(***************************************************************************)
(* The state of the workers                                                *)
(***************************************************************************)

\* MODE_OBEX_CLIENT and MODE_OBEX_SERVER
Devices == {"client", "server"}

VARIABLES
    link,       \* up or not, and what is under way to either device
    worker,     \* the worker of a device and its thread (iWorker, iWorkerThread)
    iMessage,   \* the message a server keeps until the client gets it
    queue,      \* the posted events of a device's main thread
    main        \* what its main thread has still to do of the event it handles

workerVars == <<link, worker, iMessage, queue, main>>

(***************************************************************************)
(* A worker that was set up by init(), and none.  `of` is the operation of *)
(* the agent it was set up for.                                            *)
(***************************************************************************)
NoMessage == [n |-> 0, of |-> 0]
NoWorker == [thread |-> "none", mailbox |-> <<>>, job |-> "idle", connected |-> FALSE,
             pending |-> FALSE, of |-> 0]
NewWorker(operation) == [NoWorker EXCEPT !.thread = "running", !.of = operation]

\* A thread that was told to exit may still do what was posted before
Alive(d) == worker[d].thread \in {"running", "exiting"}
Job(name, message) == [name |-> name, message |-> message]
Post(d, job) == [worker[d] EXCEPT !.mailbox = Append(@, job)]

(***************************************************************************)
(* The end of a job: the worker is in its event loop again, has posted     *)
(* its events, and a main thread that waits for it goes on.                *)
(***************************************************************************)
Blocking == {"connect", "disconnect", "waitForConnect", "waitForDisconnect"}
Event(d, name) == [name |-> name, message |-> NoMessage, of |-> worker[d].of]
Emit(d, names) == queue' = [queue EXCEPT ![d] =
                      @ \o [i \in 1 .. Len(names) |-> Event(d, names[i])]]
EmitData(d, message) == queue' = [queue EXCEPT ![d] =
                      Append(@, [Event(d, "incomingData") EXCEPT !.message = message])]
Done(d, name, w) ==
    /\ worker' = [worker EXCEPT ![d] = [w EXCEPT !.job = "idle"]]
    /\ main' = IF name \in Blocking THEN [main EXCEPT ![d] = Tail(@)] ELSE main

Taken(d) == [worker[d] EXCEPT !.mailbox = Tail(@)]
TakesJob(d, names) ==
    /\ Alive(d) /\ worker[d].job = "idle" /\ worker[d].mailbox # <<>>
    /\ Head(worker[d].mailbox).name \in names

-----------------------------------------------------------------------------
(***************************************************************************)
(* OBEXClientWorker: a job is one request and its response.                *)
(***************************************************************************)
RequestOf(job) ==
    CASE job.name = "connect"    -> ConnectCmd(SyncMLTarget)
      [] job.name = "disconnect" -> DisconnectCmd(ConnectionId)
      [] job.name = "send"       -> PutCmd(ConnectionId, "xml", job.message)
      [] job.name = "receive"    -> GetCmd(ConnectionId, "xml")

\* connect() of a connected worker and disconnect() of another do nothing;
\* send() and receive() need a connection
ClientDeclines ==
    /\ TakesJob("client", {"connect", "disconnect", "send", "receive"})
    /\ LET job == Head(worker["client"].mailbox)
       IN  /\ worker["client"].connected = (job.name = "connect")
           /\ Done("client", job.name, Taken("client"))
           /\ IF job.name \in {"send", "receive"} THEN Emit("client", <<"connectionFailed">>)
              ELSE UNCHANGED queue
    /\ UNCHANGED <<link, iMessage>>

MayRequest(job) == worker["client"].connected = (job.name # "connect")

\* OBEX_Request() refuses while another request is under way, and may refuse
\* on a link that is down
ClientRefused ==
    /\ TakesJob("client", {"connect", "disconnect", "send", "receive"})
    /\ LET job == Head(worker["client"].mailbox)
       IN  /\ MayRequest(job)
           /\ worker["client"].pending \/ ~link.up
           /\ Done("client", job.name, Taken("client"))
           /\ IF job.name \in {"send", "receive"} THEN Emit("client", <<"connectionError">>)
              ELSE UNCHANGED queue
    /\ UNCHANGED <<link, iMessage>>

ClientRequests ==
    /\ TakesJob("client", {"connect", "disconnect", "send", "receive"})
    /\ ~worker["client"].pending
    /\ LET job == Head(worker["client"].mailbox)
       IN  /\ MayRequest(job)
           /\ worker' = [worker EXCEPT !["client"] =
                            [Taken("client") EXCEPT !.job = job.name, !.pending = TRUE]]
           /\ link' = IF link.up THEN [link EXCEPT !.toServer = Append(@, RequestOf(job))] ELSE link
    /\ UNCHANGED <<iMessage, queue, main>>

Waiting(d) == Alive(d) /\ worker[d].job # "idle"

\* RequestCompleted()
ClientResponse ==
    /\ Waiting("client") /\ link.up /\ link.toClient # <<>>
    /\ LET response  == Head(link.toClient)
           succeeded == response.rsp = "SUCCESS"
           job       == worker["client"].job
           connected == CASE job = "connect"    -> succeeded /\ ParseConnectRsp(response)
                          [] job = "disconnect" -> FALSE
                          [] OTHER              -> worker["client"].connected
       IN  /\ Done("client", job, [worker["client"] EXCEPT !.connected = connected, !.pending = FALSE])
           /\ IF job = "receive" /\ succeeded THEN EmitData("client", response.headers.body)
              ELSE IF job \in {"send", "receive"} /\ ~succeeded THEN Emit("client", <<"connectionError">>)
              ELSE UNCHANGED queue
    /\ link' = [link EXCEPT !.toClient = Tail(@)]
    /\ UNCHANGED iMessage

\* process() gives up: the request stays under way
ClientTimeout ==
    /\ Waiting("client") /\ link.up /\ link.toClient = <<>>
    /\ Done("client", worker["client"].job, worker["client"])
    /\ IF worker["client"].job \in {"send", "receive"} THEN Emit("client", <<"connectionTimeout">>)
       ELSE UNCHANGED queue
    /\ UNCHANGED <<link, iMessage>>

\* ... or finds the link down: linkError()
ClientLinkError ==
    /\ Waiting("client") /\ ~link.up
    /\ Done("client", worker["client"].job, [worker["client"] EXCEPT !.connected = FALSE])
    /\ IF worker["client"].job \in {"send", "receive"} THEN Emit("client", <<"connectionError">>)
       ELSE UNCHANGED queue
    /\ UNCHANGED <<link, iMessage>>

-----------------------------------------------------------------------------
(***************************************************************************)
(* OBEXServerWorker: a job waits for the request it is named for.  A       *)
(* request that comes while no job waits stays on the link.                *)
(***************************************************************************)
ServerDeclines ==
    /\ TakesJob("server", {"waitForConnect", "waitForDisconnect", "waitForPut", "waitForGet"})
    /\ LET job == Head(worker["server"].mailbox)
       IN  /\ worker["server"].connected = (job.name = "waitForConnect")
           /\ Done("server", job.name, Taken("server"))
           /\ IF job.name \in {"waitForPut", "waitForGet"} THEN Emit("server", <<"connectionFailed">>)
              ELSE UNCHANGED queue
    /\ UNCHANGED <<link, iMessage>>

ServerWaits ==
    /\ TakesJob("server", {"waitForConnect", "waitForDisconnect", "waitForPut", "waitForGet"})
    /\ LET job == Head(worker["server"].mailbox)
       IN  /\ worker["server"].connected = (job.name # "waitForConnect")
           /\ worker' = [worker EXCEPT !["server"] = [Taken("server") EXCEPT !.job = job.name]]
    /\ UNCHANGED <<link, iMessage, queue, main>>

Requested(command) == Waiting("server") /\ link.up /\ link.toServer # <<>>
                      /\ Head(link.toServer).cmd = command
Request == Head(link.toServer)
Respond(response) == link' = [link EXCEPT !.toServer = Tail(@), !.toClient = Append(@, response)]

\* Mutant: a GET is not refused while another request is waited for
RefusesAllButGet ==
    \/ Requested("CONNECT")    /\ worker["server"].connected
    \/ Requested("DISCONNECT") /\ ~worker["server"].connected
    \/ Requested("PUT")        /\ worker["server"].job # "waitForPut"

\* A request that is refused leaves the worker waiting
Refuses ==
    \/ Requested("CONNECT")    /\ worker["server"].connected
    \/ Requested("DISCONNECT") /\ ~worker["server"].connected
    \/ Requested("PUT")        /\ worker["server"].job # "waitForPut"
    \/ Requested("GET")        /\ worker["server"].job # "waitForGet"
RequestRefused ==
    /\ Refuses
    /\ Respond(PlainRsp(Request, "SERVICE_UNAVAILABLE"))
    /\ UNCHANGED <<worker, iMessage, queue, main>>

ConnectRequest ==
    /\ Requested("CONNECT") /\ ~Refuses
    /\ ParseConnectCmd(Request) /\ Request.headers.target = SyncMLTarget
    /\ Respond(ConnectRsp(ConnectionId, Request.headers.target))
    /\ Done("server", worker["server"].job, [worker["server"] EXCEPT !.connected = TRUE])
    /\ UNCHANGED <<iMessage, queue>>

\* Accepted whatever the worker waits for, which is an error unless it is this
DisconnectRequest ==
    /\ Requested("DISCONNECT") /\ ~Refuses
    /\ ParseDisconnectCmd(Request) /\ ForThisConnection(Request)
    /\ Respond(PlainRsp(Request, "SUCCESS"))
    /\ Done("server", worker["server"].job, [worker["server"] EXCEPT !.connected = FALSE])
    /\ IF worker["server"].job # "waitForDisconnect" THEN Emit("server", <<"connectionError">>)
       ELSE UNCHANGED queue
    /\ UNCHANGED iMessage

PutRequest ==
    /\ Requested("PUT") /\ ~Refuses
    /\ ParsePutCmd(Request) /\ ~UnsupportedHeaders(Request) /\ ForThisConnection(Request)
    /\ Respond(PlainRsp(Request, "SUCCESS"))
    /\ Done("server", "waitForPut", worker["server"])
    /\ EmitData("server", Request.headers.body)
    /\ UNCHANGED iMessage

\* OBEXTransport::getData(), called by the worker in its own thread, encodes
\* the message and deletes it
GetRequest ==
    /\ Requested("GET") /\ ~Refuses
    /\ ParseGetCmd(Request) /\ ForThisConnection(Request)
    /\ Respond(IF iMessage = NoMessage THEN PlainRsp(Request, "INTERNAL_SERVER_ERROR")
               ELSE GetRsp(iMessage))
    /\ iMessage' = NoMessage
    /\ Done("server", "waitForGet", worker["server"])
    /\ UNCHANGED queue

\* process() gives up, also on a connection that is to be closed
ServerTimeout ==
    /\ Waiting("server") /\ link.up /\ link.toServer = <<>>
    /\ Done("server", worker["server"].job, worker["server"])
    /\ Emit("server", <<"connectionTimeout">>)
    /\ UNCHANGED <<link, iMessage>>

\* ... or finds the link down.  linkError() reports the end of a connection,
\* and process() then reports it once more
ServerLinkError ==
    /\ Waiting("server") /\ ~link.up
    /\ Done("server", worker["server"].job, [worker["server"] EXCEPT !.connected = FALSE])
    /\ Emit("server", IF worker["server"].connected
                      THEN <<"connectionError", "connectionError">> ELSE <<"connectionError">>)
    /\ UNCHANGED <<link, iMessage>>

-----------------------------------------------------------------------------
\* OBEXWorkerThread::run() after exec()
ThreadEnds(d) ==
    /\ worker[d].thread = "exiting" /\ worker[d].job = "idle"
    /\ worker' = [worker EXCEPT ![d] = [NoWorker EXCEPT !.thread = "ended"]]
    /\ UNCHANGED <<link, iMessage, queue, main>>

ClientWorks == ClientDeclines \/ ClientRefused \/ ClientRequests \/ ClientResponse
               \/ ClientLinkError \/ ThreadEnds("client")
ServerWorks == ServerDeclines \/ ServerWaits \/ RequestRefused \/ ConnectRequest
               \/ DisconnectRequest \/ PutRequest \/ GetRequest \/ ServerLinkError
               \/ ThreadEnds("server")
-----------------------------------------------------------------------------
(***************************************************************************)
(* The transports in the main threads.  What a main thread does while it   *)
(* handles one event is a sequence of steps in main[d]: a call that waits  *)
(* for the worker ends in an "await", which the worker takes away when its *)
(* job is done.  While there are steps left the main thread handles no     *)
(* other event.                                                            *)
(***************************************************************************)
VARIABLES
    connection,          \* whether iConnection is open
    iHandleIncomingData  \* whether receive() waits for data

transportVars == <<connection, iHandleIncomingData>>

Do(name)          == [do |-> name, message |-> NoMessage]
Send(message)     == [do |-> "send", message |-> message]
AtStep(d, name)   == main[d] # <<>> /\ Head(main[d]).do = name
Then(d, steps)    == main' = [main EXCEPT ![d] = steps \o Tail(@)]
PostAnd(d, job, steps) == worker' = [worker EXCEPT ![d] = Post(d, job)] /\ Then(d, steps)

(***************************************************************************)
(* init(): OBEXConnection is external.  A client opens a new link if the   *)
(* other device has done with the last one, a server takes the link that   *)
(* a client has opened.                                                    *)
(***************************************************************************)
CanConnect(d) == IF d = "client" THEN ~connection["server"] ELSE connection["client"] /\ link.up
InitTransport(d, operation) ==
    /\ connection' = [connection EXCEPT ![d] = TRUE]
    /\ link' = IF d = "client" THEN [up |-> TRUE, toServer |-> <<>>, toClient |-> <<>>] ELSE link
    /\ worker' = [worker EXCEPT ![d] = NewWorker(operation)]

(***************************************************************************)
(* sendSyncML() and prepareSend(): a client makes sure that it is          *)
(* connected before it sends, a server keeps the message until it is asked *)
(* for it.                                                                 *)
(***************************************************************************)
SendSyncML(d) ==
    /\ AtStep(d, "send")
    /\ IF d = "client"
       THEN /\ IF worker[d].connected
               THEN /\ Then(d, <<[Send(Head(main[d]).message) EXCEPT !.do = "doSend"]>>)
                    /\ UNCHANGED worker
               ELSE PostAnd(d, Job("connect", NoMessage),
                            <<Do("await"), [Send(Head(main[d]).message) EXCEPT !.do = "doSend"]>>)
            /\ UNCHANGED iMessage
       ELSE /\ iMessage' = Head(main[d]).message
            /\ PostAnd(d, Job("waitForGet", NoMessage), <<>>)
    /\ UNCHANGED <<link, queue, transportVars>>

DoSend(d) ==
    /\ AtStep(d, "doSend")
    /\ PostAnd(d, Job("send", Head(main[d]).message), <<>>)
    /\ UNCHANGED <<link, iMessage, queue, transportVars>>

\* Mutant: the data is not waited for
ReceiveUnannounced(d) ==
    /\ AtStep(d, "receive")
    /\ IF d = "client" THEN PostAnd(d, Job("receive", NoMessage), <<>>)
       ELSE IF worker[d].connected THEN PostAnd(d, Job("waitForPut", NoMessage), <<>>)
       ELSE PostAnd(d, Job("waitForConnect", NoMessage), <<Do("await"), Do("waitForPut")>>)
    /\ UNCHANGED <<link, iMessage, queue, transportVars>>

(***************************************************************************)
(* BaseTransport::receive() and doReceive(): a server that is not          *)
(* connected waits for a client first.  Data only comes after receive()    *)
(* (InTurn), so that none is ever kept for it.                             *)
(***************************************************************************)
Receive(d) ==
    /\ AtStep(d, "receive")
    /\ iHandleIncomingData' = [iHandleIncomingData EXCEPT ![d] = TRUE]
    /\ IF d = "client" THEN PostAnd(d, Job("receive", NoMessage), <<>>)
       ELSE IF worker[d].connected THEN PostAnd(d, Job("waitForPut", NoMessage), <<>>)
       ELSE PostAnd(d, Job("waitForConnect", NoMessage), <<Do("await"), Do("waitForPut")>>)
    /\ UNCHANGED <<link, iMessage, queue, connection>>

WaitForPut(d) ==
    /\ AtStep(d, "waitForPut")
    /\ PostAnd(d, Job("waitForPut", NoMessage), <<>>)
    /\ UNCHANGED <<link, iMessage, queue, transportVars>>

\* Mutant: the message is deleted before the thread has ended
CloseReleasing(d) ==
    /\ AtStep(d, "close")
    /\ Then(d, <<Do("exit"), Do("release"), Do("wait")>>)
    /\ UNCHANGED <<link, worker, iMessage, queue, transportVars>>

(***************************************************************************)
(* close(): ends the connection, which waits for all that was posted       *)
(* before, then the thread, then the link.                                 *)
(***************************************************************************)
Close(d) ==
    /\ AtStep(d, "close")
    /\ LET disconnect == IF d = "client" THEN "disconnect" ELSE "waitForDisconnect"
       IN  IF worker[d].thread # "running" THEN Then(d, <<Do("release")>>) /\ UNCHANGED worker
           ELSE IF worker[d].connected
                THEN PostAnd(d, Job(disconnect, NoMessage),
                             <<Do("await"), Do("exit"), Do("wait"), Do("release")>>)
                ELSE Then(d, <<Do("exit"), Do("wait"), Do("release")>>) /\ UNCHANGED worker
    /\ UNCHANGED <<link, iMessage, queue, transportVars>>

ExitThread(d) ==
    /\ AtStep(d, "exit")
    /\ worker' = [worker EXCEPT ![d].thread = "exiting"]
    /\ Then(d, <<>>)
    /\ UNCHANGED <<link, iMessage, queue, transportVars>>

\* wait(): the code terminates a thread that has not ended in iTimeOut seconds,
\* which is as long as its worker waits for anything; here it ends by itself
WaitForThread(d) ==
    /\ AtStep(d, "wait") /\ worker[d].thread = "ended"
    /\ Then(d, <<>>)
    /\ UNCHANGED <<link, worker, iMessage, queue, transportVars>>

Release(d) ==
    /\ AtStep(d, "release")
    /\ worker' = [worker EXCEPT ![d] = NoWorker]
    /\ iMessage' = IF d = "server" THEN NoMessage ELSE iMessage
    /\ connection' = [connection EXCEPT ![d] = FALSE]
    /\ link' = IF connection[d] THEN [up |-> FALSE, toServer |-> <<>>, toClient |-> <<>>] ELSE link
    /\ Then(d, <<>>)
    /\ UNCHANGED <<queue, iHandleIncomingData>>

TransportEvents == {"incomingData", "connectionFailed", "connectionTimeout", "connectionError"}

TransportSteps(d) == SendSyncML(d) \/ DoSend(d) \/ Receive(d) \/ WaitForPut(d)
                     \/ Close(d) \/ ExitThread(d) \/ WaitForThread(d) \/ Release(d)

\* The link breaks
LinkBreaks ==
    /\ link.up
    /\ link' = [up |-> FALSE, toServer |-> <<>>, toClient |-> <<>>]
    /\ UNCHANGED <<worker, iMessage, queue, main, transportVars>>
=============================================================================
