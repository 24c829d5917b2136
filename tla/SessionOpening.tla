--------------------------- MODULE SessionOpening ---------------------------
(***************************************************************************)
(* How a client gets into a session: several sessions of one client over   *)
(* HTTP, up to the point where the server has acknowledged the             *)
(* initialization and the client goes on to its items, which is where      *)
(* SyncSession takes over.                                                 *)
(*                                                                         *)
(* The client is ClientSessionHandler with the SessionAuthentication and   *)
(* the HTTPTransport of this library.  There is no HTTP server in it: the  *)
(* server is another implementation, and three of them are tried.          *)
(*   "class"    checks credentials with the other half of                  *)
(*              SessionAuthentication, which no session of this library    *)
(*              does, as prepareSync passes it no local credentials;       *)
(*   "strict"   challenges for what it demands until it has got it;        *)
(*   "refusing" accepts nothing, and asks for this and that.               *)
(***************************************************************************)
EXTENDS SessionAuthentication, HTTPTransport, SequencesExt

CONSTANT Configs

(***************************************************************************)
(* cfg is what does not change: type, password and nonce are the client's  *)
(* setAuthParams; noInit is a sync without initialization phase; room is   *)
(* the number of packages in a message; attempts is the number of times    *)
(* the first message may be sent again; prepared is whether the            *)
(* application calls init() of the transport too.  server and demands are  *)
(* the kind of server and what it wants to see, repeats is whether it      *)
(* answers a message it gets again with what it answered before, and       *)
(* "right" is the password it knows.  faults bounds what goes wrong on the *)
(* network, and sessions is how many the client starts.                    *)
(***************************************************************************)
ASSUME RoomAssumption == \A c \in Configs : c.room \in Nat
ASSUME KindAssumption ==
    \A c \in Configs : /\ {c.type, c.demands} \subseteq AuthTypes
                       /\ c.server \in {"class", "strict", "refusing"}

VARIABLES
    cfg,
    client,        \* the session handler of the client
    clientNonce,   \* NonceStorage of the client: the nonce of this pair of devices
    server,        \* the server, with the nonce it stored
    http,          \* the transport of the client
    posts,         \* the requests under way
    events,        \* the event loop of the client
    results,       \* history: how each session ended
    accepted,      \* history: the sessions whose credentials were accepted
    hurt,          \* history: a sequence, the session of each thing that failed
    sent           \* history: the messages the client posted in this session

vars == <<cfg, client, clientNonce, server, http, posts, events, results, accepted, hurt, sent>>

Session == Len(results) + 1

-----------------------------------------------------------------------------
(***************************************************************************)
(* The client.  Packages are queued and cut into messages; credentials are *)
(* a package too, but go into the header of the message they come to.      *)
(***************************************************************************)
Package(kind) == [kind |-> kind, cred |-> NoCred]
CredPackage(cred) == [kind |-> "Cred", cred |-> cred]

NoSession == [state |-> "NONE", auth |-> SetSessionParams("NONE", "", NoNonce, "", NoNonce),
              queue |-> <<>>, devInfSent |-> FALSE, msgId |-> 0,
              syncFinished |-> FALSE, sessionClosed |-> FALSE]

(***************************************************************************)
(* composeClientInitializationPackage                                      *)
(***************************************************************************)
InitializationPackage(c, nonce) ==
    [i \in DOMAIN ComposedCred(c.auth, nonce) |-> CredPackage(ComposedCred(c.auth, nonce)[i])]
        \o (IF c.devInfSent THEN <<>> ELSE <<Package("DevInf")>>)
        \o <<Package("Alert")>>
        \o (IF cfg.noInit THEN <<Package("Changes")>> ELSE <<>>)
        \o <<Package("Final")>>

ComposeClientInitialization(c, nonce) ==
    [c EXCEPT !.queue = @ \o InitializationPackage(c, nonce),
              !.auth = ComposeAuthentication(@, nonce),
              !.devInfSent = TRUE]

ComposeClientModifications(c) ==
    [c EXCEPT !.queue = @ \o <<Package("Changes"), Package("Final")>>]

(***************************************************************************)
(* abortSync: while a message is processed, the exit waits for its end.    *)
(***************************************************************************)
AbortSync(c, state) ==
    IF c.sessionClosed THEN c ELSE [c EXCEPT !.state = state, !.syncFinished = TRUE]
ExitSync(c) ==
    IF c.syncFinished THEN [c EXCEPT !.sessionClosed = TRUE, !.queue = <<>>] ELSE c

(***************************************************************************)
(* resendPackage: the package is composed again, behind what is queued.    *)
(***************************************************************************)
\* Mutant: the device information is not part of the package a second time
ResendWithoutReset(c, nonce) ==
    CASE c.state = "LOCAL_INIT"    -> ComposeClientInitialization(c, nonce)
      [] c.state = "SENDING_ITEMS" -> ComposeClientModifications(c)
      [] OTHER                     -> AbortSync(c, "INTERNAL_ERROR")

ResendPackage(c, nonce) ==
    CASE c.state = "LOCAL_INIT" ->
           ComposeClientInitialization([c EXCEPT !.devInfSent = FALSE], nonce)
      [] c.state = "SENDING_ITEMS" -> ComposeClientModifications(c)
      [] OTHER -> AbortSync(c, "INTERNAL_ERROR")

(***************************************************************************)
(* What a message is made of (generateNextMessage), and what is left.  An  *)
(* empty queue is filled with the question for the next message.  parts    *)
(* are the packages it was made of, in their order, the one whose          *)
(* credentials are in the header with them.                                *)
(***************************************************************************)
Asking(c) == IF c.queue = <<>> THEN [c EXCEPT !.queue = <<Package("Next")>>] ELSE c

Written(queue) == SubSeq(queue, 1, IF Len(queue) < cfg.room THEN Len(queue) ELSE cfg.room)
CredOf(packages) ==
    LET creds == {i \in DOMAIN packages : packages[i].kind = "Cred"}
    IN IF creds = {} THEN NoCred ELSE packages[Max(creds)].cred
Parts(packages) == [i \in DOMAIN packages |-> packages[i].kind]

NextMessage(c) ==
    [id |-> c.msgId + 1, cred |-> CredOf(Written(c.queue)), parts |-> Parts(Written(c.queue))]
AfterMessage(c) ==
    [c EXCEPT !.msgId = @ + 1,
              !.queue = SubSeq(@, Len(Written(@)) + 1, Len(@))]

(***************************************************************************)
(* The processing of an answer: the status of the header                   *)
(* (handleStatusElement), the alerts, the Final element (handleFinal,      *)
(* finalReceived).                                                         *)
(***************************************************************************)
HandleStatus(c, reply, nonce) ==
    LET verdict == AnalyzeHeaderStatus(c.auth, reply.status, nonce)
        judged  == [c EXCEPT !.auth = verdict.auth]
    IN CASE verdict.outcome = "OK"     -> judged
         [] verdict.outcome = "RESEND" -> ResendPackage(judged, nonce)
         [] verdict.outcome = "ABORT"  -> AbortSync(judged, "AUTHENTICATION_FAILURE")
         [] OTHER                      -> AbortSync(judged, "INTERNAL_ERROR")

HandleAlerts(c, reply) ==
    IF reply.alerts /\ (c.state = "LOCAL_INIT" \/ (cfg.noInit /\ c.state = "SENDING_ITEMS"))
    THEN [c EXCEPT !.state = "REMOTE_INIT"] ELSE c

\* Mutant: a Final element is taken whoever sends it
HandleFinalAnyway(c, reply) ==
    IF reply.final /\ c.state = "REMOTE_INIT" THEN [ComposeClientModifications(c) EXCEPT !.state = "OPEN"]
    ELSE c

\* "OPEN" is SENDING_ITEMS with the initialization behind it
HandleFinal(c, reply) ==
    CASE ~reply.final \/ ~c.auth.authedToRemote -> c
      [] reply.final /\ c.auth.authedToRemote /\ c.state = "REMOTE_INIT" ->
           [ComposeClientModifications(c) EXCEPT !.state = "OPEN"]
      [] reply.final /\ c.auth.authedToRemote /\ c.state = "SENDING_ITEMS" ->
           [c EXCEPT !.state = "FINALIZING"]
      [] OTHER -> AbortSync(c, "INTERNAL_ERROR")

ProcessMessage(c, reply, nonce) ==
    HandleFinal(HandleAlerts(HandleStatus(c, reply, nonce), reply), reply)

-----------------------------------------------------------------------------
(***************************************************************************)
(* What the transport made of an event: it posts, it hands data to the     *)
(* parser, whose parsingComplete is queued, and it reports to the session. *)
(* sendEvent reaches setTransportStatus at once, between two messages.     *)
(***************************************************************************)
Posted(messages) ==
    [i \in DOMAIN messages |-> [message |-> messages[i], session |-> Session,
                                reply |-> <<>>, abandoned |-> FALSE]]
Parsed(data) == [i \in DOMAIN data |-> [slot |-> "handleParsingComplete", what |-> data[i]]]

TransportStatus(c, event) ==
    CASE event = "NONE" -> c
      [] event = "TRANSPORT_DATA_INVALID_CONTENT" ->
           ExitSync(AbortSync(c, "INVALID_SYNCML_MESSAGE"))
      [] OTHER -> ExitSync(AbortSync(c, "CONNECTION_ERROR"))

Apply(result, c, waiting) ==
    /\ http'   = result.http
    /\ posts'  = posts \o Posted(result.posted)
    /\ sent'   = sent \o result.posted
    /\ events' = waiting \o Parsed(result.read)
    /\ client' = TransportStatus(c, result.event)

\* sendNextMessage() and receive()
SendAndReceive(c, h, waiting) ==
    LET asking  == Asking(c)
        message == NextMessage(asking)
        result  == ReceiveNext(DoSend(h, message))
    IN Apply([result EXCEPT !.posted = <<message>>], AfterMessage(asking), waiting)

-----------------------------------------------------------------------------
(***************************************************************************)
(* initiateSync, with a transport of its own for each session.             *)
(***************************************************************************)
StartSync ==
    /\ client.state = "NONE" /\ Session <= cfg.sessions
    /\ LET prepared == [NoSession EXCEPT
               !.auth  = SetSessionParams(cfg.type, cfg.password, cfg.nonce, "", NoNonce),
               !.state = IF cfg.noInit THEN "SENDING_ITEMS" ELSE "LOCAL_INIT"]
           unused == NewTransport(cfg.attempts)
       IN SendAndReceive(ComposeClientInitialization(prepared, clientNonce),
                         InitTransport(IF cfg.prepared THEN InitTransport(unused) ELSE unused),
                         <<>>)
    /\ UNCHANGED <<cfg, clientNonce, server, results, accepted, hurt>>

(***************************************************************************)
(* The slot of the transport                                               *)
(***************************************************************************)
RequestFinished ==
    /\ events # <<>> /\ Head(events).slot = "httpRequestFinished"
    /\ Apply(HttpRequestFinished(http, Head(events).what), client, Tail(events))
    /\ UNCHANGED <<cfg, clientNonce, server, results, accepted, hurt>>

(***************************************************************************)
(* authRequired: the web server wants credentials of its own.              *)
(***************************************************************************)
AuthRequired ==
    /\ events # <<>> /\ Head(events).slot = "authRequired"
    /\ Apply(Result(http, <<>>, <<>>, "TRANSPORT_CONNECTION_AUTHENTICATION_NEEDED"),
             client, Tail(events))
    /\ UNCHANGED <<cfg, clientNonce, server, results, accepted, hurt>>

(***************************************************************************)
(* handleParsingComplete, processMessage and messageParsed                 *)
(***************************************************************************)
HandleParsingComplete ==
    /\ events # <<>> /\ Head(events).slot = "handleParsingComplete"
    /\ LET reply == Head(events).what
           nonce == NextNonce(reply.status, clientNonce)
           done  == ProcessMessage(client, reply, nonce)
       IN /\ clientNonce' = nonce
          /\ IF done.state \in {"LOCAL_INIT", "REMOTE_INIT", "SENDING_ITEMS"}
             THEN SendAndReceive(done, http, Tail(events))
             ELSE Apply(Result(http, <<>>, <<>>, "NONE"), ExitSync(done), Tail(events))
    /\ UNCHANGED <<cfg, server, results, accepted, hurt>>

(***************************************************************************)
(* The session is over, or open; the transport goes with it.               *)
(***************************************************************************)
EndSession ==
    /\ client.sessionClosed \/ client.state \in {"OPEN", "FINALIZING"}
    /\ results' = Append(results, client.state)
    /\ client' = NoSession /\ events' = <<>> /\ posts' = <<>> /\ sent' = <<>>
    /\ UNCHANGED <<cfg, clientNonce, server, http, accepted, hurt>>

-----------------------------------------------------------------------------
(***************************************************************************)
(* The server (external).  taken is what it accepted of an initialization, *)
(* and last what it answered to the last message.                          *)
(***************************************************************************)
NewServer == [session |-> 0, auth |-> SetSessionParams("NONE", "", NoNonce, "", NoNonce),
              taken |-> <<>>, last |-> <<>>, nonce |-> NoNonce, issued |-> NoNonce]

ServerSession(post) ==
    IF post.session = server.session /\ post.message.id # 1 THEN server
    ELSE [server EXCEPT !.session = post.session, !.taken = <<>>,
             !.auth = SetSessionParams(cfg.demands, "", NoNonce,
                                       IF cfg.demands = "NONE" THEN "" ELSE "right", NoNonce)]

ChallengeFor(type, fresh) == IF type = "MD5" THEN MD5Challenge(fresh) ELSE BasicChallenge

\* Credentials that a strict server takes
Convincing(s, cred) ==
    /\ cred = Encoded(cred.type, "right", s.nonce)
    /\ \/ cred.type = "MD5" /\ s.nonce # NoNonce
       \/ cred.type = "BASIC" /\ cfg.demands = "BASIC"

\* No server takes a client without credentials where it demands them; the class
\* of this library would, as analyzeHeader leaves such a message to its session
Missing(s, fresh) ==
    Answer(s.auth, "MISSING_CRED", ChallengeFor(s.auth.authType, fresh),
           IF s.auth.authType = "MD5" THEN fresh ELSE s.nonce, "OK")

Verdicts(s, cred, fresh) ==
    CASE cfg.server = "refusing" ->
           {Answer(s.auth, data, chal, s.nonce, "OK") :
               data \in Rejections,
               chal \in {NoChal, BasicChallenge, MD5Challenge(NoNonce), MD5Challenge(fresh)}}
      [] cfg.server # "refusing" /\ cred = NoCred /\ ~s.auth.remoteAuthed ->
           {Missing(s, fresh)}
      [] cfg.server = "class" /\ (cred # NoCred \/ s.auth.remoteAuthed) ->
           {AnalyzeHeader(s.auth, cred, s.nonce, fresh)}
      [] cfg.server = "strict" /\ s.auth.remoteAuthed ->
           {Answer(s.auth, "SUCCESS", NoChal, s.nonce, "OK")}
      [] OTHER ->
           {IF Convincing(s, cred)
            THEN Answer(Accept(s.auth), "AUTH_ACCEPTED",
                        IF cred.type = "MD5" THEN MD5Challenge(fresh) ELSE NoChal,
                        IF cred.type = "MD5" THEN fresh ELSE s.nonce, "OK")
            ELSE [Missing(s, fresh) EXCEPT !.status.data = "INVALID_CRED"]}

Serve(i) ==
    /\ posts[i].reply = <<>>
    /\ LET post     == posts[i]
           repeated == cfg.repeats /\ server.last # <<>>
                       /\ server.last[1].session = post.session /\ server.last[1].id = post.message.id
       IN IF repeated
          THEN /\ posts' = [posts EXCEPT ![i].reply = <<server.last[1].reply>>]
               /\ UNCHANGED <<server, accepted>>
          ELSE \E v \in Verdicts(ServerSession(post), post.message.cred, server.issued + 1) :
               \E careless \in IF cfg.server = "refusing" THEN BOOLEAN ELSE {FALSE} :
               LET s     == ServerSession(post)
                   taken == IF v.auth.remoteAuthed THEN s.taken \o post.message.parts ELSE s.taken
                   done  == careless \/ (v.auth.remoteAuthed /\ Contains(post.message.parts, "Final"))
                   reply == [for |-> post.message.id, status |-> v.status,
                             alerts |-> done, final |-> done]
               IN /\ posts' = [posts EXCEPT ![i].reply = <<reply>>]
                  /\ server' = [s EXCEPT !.auth = v.auth, !.taken = taken, !.nonce = v.nonce,
                                         !.issued = IF v.nonce # s.nonce THEN @ + 1 ELSE @,
                                         !.last = <<[session |-> post.session, id |-> post.message.id,
                                                     reply |-> reply]>>]
                  /\ accepted' = IF v.auth.remoteAuthed THEN accepted \cup {post.session} ELSE accepted
    /\ UNCHANGED <<cfg, client, clientNonce, http, events, results, hurt, sent>>

-----------------------------------------------------------------------------
(***************************************************************************)
(* The network.  A request that failed may still be served.                *)
(***************************************************************************)
End(i, ends) ==
    /\ ~posts[i].abandoned
    /\ events' = events \o ends
    /\ posts'  = IF posts[i].reply = <<>> THEN [posts EXCEPT ![i].abandoned = TRUE]
                 ELSE SubSeq(posts, 1, i - 1) \o SubSeq(posts, i + 1, Len(posts))

Deliver(i) ==
    /\ posts[i].reply # <<>>
    /\ End(i, Finished(http, Answered(posts[i].reply[1])))
    /\ UNCHANGED <<cfg, client, clientNonce, server, http, results, accepted, hurt, sent>>

\* A time out, another error, an empty answer, or the web server's own demand
Failures ==
    {Finished(http, r) : r \in {TimedOut, Broken, Nothing}}
        \cup {<<[slot |-> "authRequired", what |-> Broken]>> \o Finished(http, Broken)}

Fail(i) ==
    /\ Len(hurt) < cfg.faults
    /\ \E ends \in Failures : End(i, ends)
    /\ hurt' = Append(hurt, Session)
    /\ UNCHANGED <<cfg, client, clientNonce, server, http, results, accepted, sent>>

-----------------------------------------------------------------------------
Init ==
    /\ cfg \in Configs
    /\ client = NoSession /\ clientNonce = NoNonce /\ server = NewServer
    /\ http = NewTransport(0) /\ posts = <<>> /\ events = <<>>
    /\ results = <<>> /\ accepted = {} /\ hurt = <<>> /\ sent = <<>>

ClientStep ==
    StartSync \/ RequestFinished \/ AuthRequired \/ HandleParsingComplete \/ EndSession
Request(i) == i \in DOMAIN posts /\ (Serve(i) \/ Deliver(i) \/ Fail(i))

Next == ClientStep \/ \E i \in DOMAIN posts : Request(i)

Spec == Init /\ [][Next]_vars

(***************************************************************************)
(* The client's event loop runs, the server answers and the network        *)
(* delivers, or reports that it did not.                                   *)
(***************************************************************************)
Progress == ClientStep \/ \E i \in DOMAIN posts : Serve(i) \/ Deliver(i)
FairSpec == Spec /\ WF_vars(Progress)

=============================================================================
