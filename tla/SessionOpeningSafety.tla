------------------------ MODULE SessionOpeningSafety ------------------------
(***************************************************************************)
(* A session opens only with a server that has accepted the client, and    *)
(* where there is an initialization the client's items wait for that; its  *)
(* password is not given away for less than was agreed, and who has the    *)
(* right one gets in where nothing disturbs it: for any configuration, any *)
(* number of sessions and anything the network and the server do.          *)
(***************************************************************************)
EXTENDS SessionOpeningProps, SequenceLemmas

-----------------------------------------------------------------------------
(***************************************************************************)
(* The client                                                              *)
(***************************************************************************)
AuthHas == {"authType", "authedToRemote", "remoteAuthPending", "remoteAuthed",
            "localAuthPending", "localNonce"}
ClientHas == {"state", "auth", "queue", "devInfSent", "msgId", "syncFinished", "sessionClosed"}

IsClient(c) == ClientHas \subseteq DOMAIN c /\ AuthHas \subseteq DOMAIN c.auth /\ IsSeq(c.queue)

\* A session that is over has failed, and stays so
Going == {"NONE", "LOCAL_INIT", "REMOTE_INIT", "SENDING_ITEMS", "OPEN"}
Over(c) == c.syncFinished \/ c.sessionClosed => c.state \notin Going

\* Credentials go from basic ones to digests, and basic ones are the user's choice
TypeOf(p) == IF p.kind = "Cred" THEN p.cred.type ELSE "NONE"

Creds(c, asked) ==
    /\ c.auth.authType = "BASIC" => cfg.type = "BASIC"
    /\ "MD5" \in asked => c.auth.authType = "MD5"
    /\ \A p \in Range(c.queue) :
           /\ TypeOf(p) = "MD5" => c.auth.authType = "MD5"
           /\ TypeOf(p) = "BASIC" => cfg.type = "BASIC" /\ "MD5" \notin asked
    /\ \A i, j \in 1 .. Len(c.queue) :
           TypeOf(c.queue[i]) = "BASIC" /\ TypeOf(c.queue[j]) = "MD5" => i < j

Sound(c, asked) == IsClient(c) /\ Over(c) /\ Creds(c, asked)

\* A package is put behind what is queued
LEMMA GrownSound ==
    ASSUME NEW c, NEW d, NEW asked, NEW more, Sound(c, asked), IsClient(d), IsSeq(more),
           d.queue = c.queue \o more, d.auth.authType = c.auth.authType,
           \A p \in Range(more) : TypeOf(p) \in {"NONE", c.auth.authType},
           d.state = c.state, d.syncFinished <=> c.syncFinished,
           d.sessionClosed <=> c.sessionClosed
    PROVE  Sound(d, asked)
<1> DEFINE q == c.queue
           r == d.queue
           type == c.auth.authType
           a == Len(q)
           b == Len(more)
<1>1. Creds(c, asked) /\ IsSeq(q) /\ Over(d)
  BY DEF Sound, IsClient, Over
<1>2. /\ Range(r) = Range(q) \cup Range(more) /\ Len(r) = a + b
      /\ \A i \in 1 .. a : r[i] = q[i]
      /\ \A i \in 1 .. b : r[a + i] = more[i]
  BY <1>1, JoinIs
<1>3. a \in Nat /\ b \in Nat /\ \A i \in 1 .. b : more[i] \in Range(more)
  BY <1>1, SeqIs
<1>4. \A i \in 1 .. a : q[i] \in Range(q)
  BY <1>1, SeqIs
<1>5. /\ type = "BASIC" => cfg.type = "BASIC"
      /\ "MD5" \in asked => type = "MD5"
      /\ \A p \in Range(q) : /\ TypeOf(p) = "MD5" => type = "MD5"
                             /\ TypeOf(p) = "BASIC" => cfg.type = "BASIC" /\ "MD5" \notin asked
      /\ \A i, j \in 1 .. a : TypeOf(q[i]) = "BASIC" /\ TypeOf(q[j]) = "MD5" => i < j
  BY <1>1 DEF Creds
<1>6. d.auth.authType = type /\ \A p \in Range(more) : TypeOf(p) \in {"NONE", type}
  OBVIOUS
<1> HIDE DEF q, r, type, a, b
<1>7. \A p \in Range(r) : /\ TypeOf(p) = "MD5" => type = "MD5"
                          /\ TypeOf(p) = "BASIC" => cfg.type = "BASIC" /\ "MD5" \notin asked
  BY <1>2, <1>5, <1>6
<1>8. \A i, j \in 1 .. a + b : TypeOf(r[i]) = "BASIC" /\ TypeOf(r[j]) = "MD5" => i < j
  <2> SUFFICES ASSUME NEW i \in 1 .. a + b, NEW j \in 1 .. a + b,
                      TypeOf(r[i]) = "BASIC", TypeOf(r[j]) = "MD5"
               PROVE  i < j
    OBVIOUS
  <2>1. \A k \in 1 .. a + b : k \in 1 .. a \/ (k - a \in 1 .. b /\ a + (k - a) = k)
    BY <1>3
  <2>2. CASE i \in 1 .. a /\ j \in 1 .. a
    BY <1>2, <1>5, <2>2
  <2>3. CASE i \in 1 .. a /\ j \notin 1 .. a
    BY <1>3, <2>3
  <2>4. CASE i \notin 1 .. a
    <3>1. i - a \in 1 .. b /\ r[i] = more[i - a]
      BY <1>2, <2>1, <2>4
    <3>2. type = "BASIC"
      BY <1>3, <1>6, <3>1
    <3>3. CASE j \in 1 .. a
      BY <1>2, <1>4, <1>5, <3>2, <3>3
    <3>4. CASE j \notin 1 .. a
      <4>1. j - a \in 1 .. b /\ r[j] = more[j - a]
        BY <1>2, <2>1, <3>4
      <4> QED
        BY <1>3, <1>6, <3>2, <4>1
    <3> QED
      BY <3>3, <3>4
  <2> QED
    BY <2>2, <2>3, <2>4
<1>9. Creds(d, asked)
  BY <1>2, <1>5, <1>6, <1>7, <1>8 DEF Creds, r
<1> QED
  BY <1>1, <1>9 DEF Sound

LEMMA CredsOfClient ==
    ASSUME NEW c, NEW nonce
    PROVE  /\ IsSeq(InitializationPackage(c, nonce))
           /\ \A p \in Range(InitializationPackage(c, nonce)) :
                  TypeOf(p) \in {"NONE", c.auth.authType}
<1> DEFINE creds == [i \in DOMAIN ComposedCred(c.auth, nonce) |->
                         CredPackage(ComposedCred(c.auth, nonce)[i])]
           devInf == IF c.devInfSent THEN <<>> ELSE <<Package("DevInf")>>
           changes == IF cfg.noInit THEN <<Package("Changes")>> ELSE <<>>
           Fine(s) == IsSeq(s) /\ \A p \in Range(s) : TypeOf(p) \in {"NONE", c.auth.authType}
<1>1. \A kind : kind # "Cred" => Fine(<<Package(kind)>>)
  <2> SUFFICES ASSUME NEW kind, kind # "Cred" PROVE Fine(<<Package(kind)>>)
    OBVIOUS
  <2>1. TypeOf(Package(kind)) = "NONE"
    BY DEF TypeOf, Package
  <2> QED
    BY <2>1, OneIs
<1>2. Fine(<<>>)
  BY EmptyIs
<1>3. Fine(devInf)
  BY <1>1, <1>2
<1>4. Fine(changes)
  BY <1>1, <1>2
<1>5. Fine(creds)
  <2>1. CASE c.auth.authType = "NONE"
    <3>1. ComposedCred(c.auth, nonce) = <<>>
      BY <2>1 DEF ComposedCred
    <3>2. creds = <<>>
      BY <3>1
    <3> QED
      BY <1>2, <3>2
  <2>2. CASE c.auth.authType # "NONE"
    <3> DEFINE e == Encoded(c.auth.authType, c.auth.remotePassword, NonceToSend(c.auth, nonce))
    <3>1. ComposedCred(c.auth, nonce) = <<e>>
      BY <2>2 DEF ComposedCred
    <3>2. e.type = c.auth.authType
      BY DEF Encoded
    <3> HIDE DEF e
    <3>3. creds = <<CredPackage(e)>>
      BY <3>1
    <3>4. TypeOf(CredPackage(e)) = c.auth.authType
      BY <3>2 DEF TypeOf, CredPackage
    <3> QED
      BY <3>3, <3>4, OneIs
  <2> QED
    BY <2>1, <2>2
<1>6. \A s, t : Fine(s) /\ Fine(t) => Fine(s \o t)
  BY JoinIs
<1>7. InitializationPackage(c, nonce) =
          (((creds \o devInf) \o <<Package("Alert")>>) \o changes) \o <<Package("Final")>>
  BY DEF InitializationPackage
<1> HIDE DEF creds, devInf, changes, Fine
<1>8. Fine(InitializationPackage(c, nonce))
  BY <1>1, <1>3, <1>4, <1>5, <1>6, <1>7
<1> QED
  BY <1>8 DEF Fine

LEMMA ComposeSound ==
    ASSUME NEW c, NEW nonce, NEW asked, Sound(c, asked)
    PROVE  LET d == ComposeClientInitialization(c, nonce)
           IN /\ Sound(d, asked) /\ d.state = c.state /\ d.auth.authType = c.auth.authType
              /\ d.auth.authedToRemote <=> c.auth.authedToRemote
<1> DEFINE more == InitializationPackage(c, nonce)
           auth == ComposeAuthentication(c.auth, nonce)
           d == ComposeClientInitialization(c, nonce)
<1>1. /\ AuthHas \subseteq DOMAIN auth /\ auth.authType = c.auth.authType
      /\ auth.authedToRemote <=> c.auth.authedToRemote
  BY DEF Sound, IsClient, AuthHas, ComposeAuthentication
<1>2. d = [c EXCEPT !.queue = c.queue \o more, !.auth = auth, !.devInfSent = TRUE]
  BY DEF ComposeClientInitialization
<1>3. IsSeq(more) /\ \A p \in Range(more) : TypeOf(p) \in {"NONE", c.auth.authType}
  BY CredsOfClient
<1> HIDE DEF more, auth, d
<1>4. /\ DOMAIN d = DOMAIN c /\ d.queue = c.queue \o more /\ d.auth = auth /\ d.state = c.state
      /\ d.syncFinished = c.syncFinished /\ d.sessionClosed = c.sessionClosed
  BY <1>2 DEF Sound, IsClient, ClientHas
<1>5. IsSeq(c.queue \o more)
  BY <1>3, JoinIs DEF Sound, IsClient
<1>6. IsClient(d)
  BY <1>1, <1>4, <1>5 DEF Sound, IsClient
<1>7. Sound(d, asked)
  BY <1>1, <1>3, <1>4, <1>6, GrownSound
<1> QED
  BY <1>1, <1>4, <1>7 DEF d

LEMMA ModificationsSound ==
    ASSUME NEW c, NEW asked, Sound(c, asked)
    PROVE  LET d == ComposeClientModifications(c)
           IN Sound(d, asked) /\ d.state = c.state /\ d.auth = c.auth
<1> DEFINE more == <<Package("Changes")>> \o <<Package("Final")>>
           d == ComposeClientModifications(c)
<1>1. d = [c EXCEPT !.queue = c.queue \o more]
  BY DEF ComposeClientModifications
<1>2. IsSeq(more) /\ \A p \in Range(more) : TypeOf(p) \in {"NONE", c.auth.authType}
  <2>1. TypeOf(Package("Changes")) = "NONE" /\ TypeOf(Package("Final")) = "NONE"
    BY DEF TypeOf, Package
  <2> QED
    BY <2>1, OneIs, JoinIs
<1> HIDE DEF more, d
<1>3. /\ DOMAIN d = DOMAIN c /\ d.queue = c.queue \o more /\ d.auth = c.auth /\ d.state = c.state
      /\ d.syncFinished = c.syncFinished /\ d.sessionClosed = c.sessionClosed
  BY <1>1 DEF Sound, IsClient, ClientHas
<1>4. IsSeq(c.queue \o more)
  BY <1>2, JoinIs DEF Sound, IsClient
<1>5. IsClient(d)
  BY <1>3, <1>4 DEF Sound, IsClient
<1>6. Sound(d, asked)
  BY <1>2, <1>3, <1>5, GrownSound
<1> QED
  BY <1>3, <1>6 DEF d

\* The queue may stay or go, and basic credentials may give way to digests
LEMMA KeptSound ==
    ASSUME NEW c, NEW d, NEW asked, Sound(c, asked), IsClient(d), Over(d),
           d.queue = c.queue \/ d.queue = <<>>,
           d.auth.authType = c.auth.authType \/ d.auth.authType = "MD5"
    PROVE  Sound(d, asked)
<1>1. Creds(c, asked)
  BY DEF Sound
<1>2. /\ d.auth.authType = "BASIC" => cfg.type = "BASIC"
      /\ "MD5" \in asked => d.auth.authType = "MD5"
      /\ \A p \in Range(c.queue) : TypeOf(p) = "MD5" => d.auth.authType = "MD5"
  BY <1>1 DEF Creds
<1>3. CASE d.queue = c.queue
  BY <1>1, <1>2, <1>3 DEF Sound, Creds
<1>4. CASE d.queue = <<>>
  <2>1. Range(d.queue) = {} /\ Len(d.queue) = 0
    BY <1>4, EmptyIs
  <2>2. Creds(d, asked)
    BY <1>2, <2>1 DEF Creds
  <2> QED
    BY <2>2 DEF Sound
<1> QED
  BY <1>3, <1>4

LEMMA AbortSound ==
    ASSUME NEW c, NEW state, NEW asked, Sound(c, asked), state \notin Going
    PROVE  LET d == AbortSync(c, state)
           IN Sound(d, asked) /\ d.state \notin Going /\ d.auth = c.auth
<1> DEFINE d == AbortSync(c, state)
<1>1. CASE c.sessionClosed
  BY <1>1 DEF AbortSync, Sound, Over
<1>2. CASE ~c.sessionClosed
  <2>1. d = [c EXCEPT !.state = state, !.syncFinished = TRUE]
    BY <1>2 DEF AbortSync
  <2> HIDE DEF d
  <2>2. /\ DOMAIN d = DOMAIN c /\ d.state = state /\ d.auth = c.auth /\ d.queue = c.queue
    BY <2>1 DEF Sound, IsClient, ClientHas
  <2>3. IsClient(d) /\ Over(d)
    BY <2>2 DEF Sound, IsClient, Over
  <2>4. Sound(d, asked)
    BY <2>2, <2>3, KeptSound
  <2> QED
    BY <2>2, <2>4 DEF d
<1> QED
  BY <1>1, <1>2

LEMMA ExitSound ==
    ASSUME NEW c, NEW asked, Sound(c, asked)
    PROVE  LET d == ExitSync(c)
           IN Sound(d, asked) /\ d.state = c.state /\ d.auth = c.auth
<1> DEFINE d == ExitSync(c)
<1>1. CASE ~c.syncFinished
  BY <1>1 DEF ExitSync
<1>2. CASE c.syncFinished
  <2>1. d = [c EXCEPT !.sessionClosed = TRUE, !.queue = <<>>]
    BY <1>2 DEF ExitSync
  <2> HIDE DEF d
  <2>2. /\ DOMAIN d = DOMAIN c /\ d.state = c.state /\ d.auth = c.auth /\ d.queue = <<>>
        /\ d.syncFinished = c.syncFinished
    BY <2>1 DEF Sound, IsClient, ClientHas
  <2>3. IsClient(d) /\ Over(d)
    BY <1>2, <2>2, EmptyIs DEF Sound, IsClient, Over
  <2>4. Sound(d, asked)
    BY <2>2, <2>3, KeptSound
  <2> QED
    BY <2>2, <2>4 DEF d
<1> QED
  BY <1>1, <1>2

LEMMA TransportStatusSound ==
    ASSUME NEW c, NEW event, NEW asked, Sound(c, asked), c.state # "NONE"
    PROVE  LET d == TransportStatus(c, event)
           IN Sound(d, asked) /\ d.state # "NONE" /\ (d.state = "OPEN" => c.state = "OPEN")
<1>1. CASE event = "NONE"
  BY <1>1 DEF TransportStatus
<1>2. CASE event # "NONE"
  <2>1. PICK state \in {"INVALID_SYNCML_MESSAGE", "CONNECTION_ERROR"} :
            TransportStatus(c, event) = ExitSync(AbortSync(c, state))
    BY <1>2 DEF TransportStatus
  <2> DEFINE aborted == AbortSync(c, state)
             d == ExitSync(aborted)
  <2>2. state \notin Going
    BY DEF Going
  <2>3. Sound(aborted, asked) /\ aborted.state \notin Going
    BY <2>2, AbortSound
  <2> HIDE DEF aborted
  <2>4. Sound(d, asked) /\ d.state \notin Going
    BY <2>3, ExitSound
  <2> QED
    BY <2>1, <2>4 DEF aborted, Going
<1> QED
  BY <1>1, <1>2

-----------------------------------------------------------------------------
\* What a client makes of the status of its header
Accepting(status) == status.data \in {"SUCCESS", "AUTH_ACCEPTED"}

LEMMA VerdictIs ==
    ASSUME NEW a, AuthHas \subseteq DOMAIN a, NEW status, NEW nonce
    PROVE  LET v == AnalyzeHeaderStatus(a, status, nonce)
           IN /\ AuthHas \subseteq DOMAIN v.auth
              /\ v.auth.authType = a.authType \/ v.auth.authType = "MD5"
              /\ v.outcome = "OK" => Accepting(status)
              /\ v.outcome = "RESEND" => ~v.auth.authedToRemote
<1> DEFINE v == AnalyzeHeaderStatus(a, status, nonce)
           rejected == [a EXCEPT !.authedToRemote = FALSE]
<1>1. CASE Accepting(status)
  <2>1. v = [auth |-> [a EXCEPT !.authedToRemote = TRUE, !.remoteAuthPending = FALSE], outcome |-> "OK"]
    BY <1>1 DEF Accepting, AnalyzeHeaderStatus, Rejections
  <2>2. v.auth = [a EXCEPT !.authedToRemote = TRUE, !.remoteAuthPending = FALSE] /\ v.outcome = "OK"
    BY <2>1
  <2> HIDE DEF v
  <2>3. DOMAIN v.auth = DOMAIN a /\ v.auth.authType = a.authType
    BY <2>2 DEF AuthHas
  <2> QED
    BY <1>1, <2>2, <2>3 DEF v
<1>2. CASE ~Accepting(status) /\ status.data \in Rejections
  <2>1. /\ DOMAIN rejected = DOMAIN a /\ rejected.authType = a.authType
        /\ ~rejected.authedToRemote
    BY DEF AuthHas
  <2>2. \/ v = [auth |-> rejected, outcome |-> "ABORT"]
        \/ v = HandleChallenge(rejected, status.chal, nonce)
    BY <1>2 DEF AnalyzeHeaderStatus, Accepting
  <2>3. CASE v = [auth |-> rejected, outcome |-> "ABORT"]
    <3>1. v.auth = rejected /\ v.outcome = "ABORT"
      BY <2>3
    <3> HIDE DEF v, rejected
    <3> QED
      BY <2>1, <3>1 DEF v
  <2>4. CASE v = HandleChallenge(rejected, status.chal, nonce)
    <3> HIDE DEF rejected
    <3>1. CASE MayAnswer(rejected, status.chal, nonce)
      <4> DEFINE now == [rejected EXCEPT !.authType = status.chal.type]
      <4>1. v.auth = now /\ v.outcome = "RESEND"
        BY <2>4, <3>1 DEF HandleChallenge
      <4>2. status.chal.type = "MD5" \/ status.chal.type = rejected.authType
        BY <3>1 DEF MayAnswer
      <4>3. DOMAIN now = DOMAIN a /\ now.authType = status.chal.type /\ ~now.authedToRemote
        BY <2>1 DEF AuthHas
      <4> HIDE DEF v, now
      <4> QED
        BY <2>1, <4>1, <4>2, <4>3 DEF v
    <3>2. CASE ~MayAnswer(rejected, status.chal, nonce)
      <4>1. v.auth = rejected /\ v.outcome = "ABORT"
        BY <2>4, <3>2 DEF HandleChallenge
      <4> HIDE DEF v
      <4> QED
        BY <2>1, <4>1 DEF v
    <3> QED
      BY <3>1, <3>2
  <2> QED
    BY <2>2, <2>3, <2>4
<1>3. CASE ~Accepting(status) /\ status.data \notin Rejections
  <2>1. v = [auth |-> a, outcome |-> "NOT_HANDLED"]
    BY <1>3 DEF AnalyzeHeaderStatus, Accepting
  <2>2. v.auth = a /\ v.outcome = "NOT_HANDLED"
    BY <2>1
  <2> HIDE DEF v
  <2> QED
    BY <2>2 DEF v
<1> QED
  BY <1>1, <1>2, <1>3

\* The states of a client that a message leaves it in
LEMMA ResendSound ==
    ASSUME NEW c, NEW nonce, NEW asked, Sound(c, asked)
    PROVE  LET d == ResendPackage(c, nonce)
           IN /\ Sound(d, asked) /\ (d.state = c.state \/ d.state \notin Going)
              /\ d.auth.authedToRemote <=> c.auth.authedToRemote
              /\ d.state # "OPEN"
<1>1. CASE c.state = "LOCAL_INIT"
  <2> DEFINE again == [c EXCEPT !.devInfSent = FALSE]
  <2>1. /\ DOMAIN again = DOMAIN c /\ again.state = c.state /\ again.auth = c.auth
        /\ again.queue = c.queue /\ again.syncFinished = c.syncFinished
        /\ again.sessionClosed = c.sessionClosed
    BY DEF Sound, IsClient, ClientHas
  <2>2. ResendPackage(c, nonce) = ComposeClientInitialization(again, nonce)
    BY <1>1 DEF ResendPackage
  <2> HIDE DEF again
  <2>3. Sound(again, asked)
    BY <2>1, KeptSound DEF Sound, IsClient, Over
  <2> QED
    BY <1>1, <2>1, <2>2, <2>3, ComposeSound
<1>2. CASE c.state = "SENDING_ITEMS"
  <2>1. ResendPackage(c, nonce) = ComposeClientModifications(c)
    BY <1>2 DEF ResendPackage
  <2> QED
    BY <1>2, <2>1, ModificationsSound
<1>3. CASE c.state \notin {"LOCAL_INIT", "SENDING_ITEMS"}
  <2>1. ResendPackage(c, nonce) = AbortSync(c, "INTERNAL_ERROR")
    BY <1>3 DEF ResendPackage
  <2>2. "INTERNAL_ERROR" \notin Going /\ "OPEN" \in Going
    BY DEF Going
  <2> QED
    BY <2>1, <2>2, AbortSound
<1> QED
  BY <1>1, <1>2, <1>3

LEMMA StatusSound ==
    ASSUME NEW c, NEW reply, NEW nonce, NEW asked, Sound(c, asked)
    PROVE  LET d == HandleStatus(c, reply, nonce)
           IN /\ Sound(d, asked) /\ (d.state = c.state \/ d.state \notin Going)
              /\ d.state \in Going /\ d.auth.authedToRemote => Accepting(reply.status)
<1> DEFINE v == AnalyzeHeaderStatus(c.auth, reply.status, nonce)
           judged == [c EXCEPT !.auth = v.auth]
           d == HandleStatus(c, reply, nonce)
<1>1. /\ AuthHas \subseteq DOMAIN v.auth
      /\ v.auth.authType = c.auth.authType \/ v.auth.authType = "MD5"
      /\ v.outcome = "OK" => Accepting(reply.status)
      /\ v.outcome = "RESEND" => ~v.auth.authedToRemote
  BY VerdictIs DEF Sound, IsClient
<1>2. /\ v.outcome = "OK" => d = judged
      /\ v.outcome = "RESEND" => d = ResendPackage(judged, nonce)
      /\ v.outcome = "ABORT" => d = AbortSync(judged, "AUTHENTICATION_FAILURE")
      /\ v.outcome \notin {"OK", "RESEND", "ABORT"} => d = AbortSync(judged, "INTERNAL_ERROR")
  BY DEF HandleStatus
<1> HIDE DEF v, d
<1>3. /\ DOMAIN judged = DOMAIN c /\ judged.state = c.state /\ judged.auth = v.auth
      /\ judged.queue = c.queue /\ judged.syncFinished = c.syncFinished
      /\ judged.sessionClosed = c.sessionClosed
  BY DEF Sound, IsClient, ClientHas
<1> HIDE DEF judged
<1>4. Sound(judged, asked)
  BY <1>1, <1>3, KeptSound DEF Sound, IsClient, Over
<1>5. CASE v.outcome = "OK"
  BY <1>1, <1>2, <1>3, <1>4, <1>5 DEF d
<1>6. CASE v.outcome = "RESEND"
  <2>1. /\ Sound(d, asked) /\ (d.state = judged.state \/ d.state \notin Going)
        /\ d.auth.authedToRemote <=> judged.auth.authedToRemote
    BY <1>2, <1>4, <1>6, ResendSound
  <2> QED
    BY <1>1, <1>3, <1>6, <2>1 DEF d
<1>7. CASE v.outcome \notin {"OK", "RESEND"}
  <2>1. PICK state \in {"AUTHENTICATION_FAILURE", "INTERNAL_ERROR"} : d = AbortSync(judged, state)
    BY <1>2, <1>7
  <2>2. state \notin Going
    BY DEF Going
  <2>3. Sound(d, asked) /\ d.state \notin Going
    BY <1>4, <2>1, <2>2, AbortSound
  <2> QED
    BY <2>3 DEF d
<1> QED
  BY <1>5, <1>6, <1>7

LEMMA AlertsSound ==
    ASSUME NEW c, NEW reply, NEW asked, Sound(c, asked)
    PROVE  LET d == HandleAlerts(c, reply)
           IN /\ Sound(d, asked) /\ d.auth = c.auth
              /\ d.state = c.state \/ (d.state = "REMOTE_INIT" /\ c.state \in Going)
<1> DEFINE d == HandleAlerts(c, reply)
<1>1. CASE d = c
  BY <1>1
<1>2. CASE d # c
  <2>1. /\ d = [c EXCEPT !.state = "REMOTE_INIT"]
        /\ c.state = "LOCAL_INIT" \/ c.state = "SENDING_ITEMS"
    BY <1>2 DEF HandleAlerts
  <2> HIDE DEF d
  <2>2. /\ DOMAIN d = DOMAIN c /\ d.state = "REMOTE_INIT" /\ d.auth = c.auth /\ d.queue = c.queue
        /\ d.syncFinished = c.syncFinished /\ d.sessionClosed = c.sessionClosed
    BY <2>1 DEF Sound, IsClient, ClientHas
  <2>3. c.state \in Going
    BY <2>1 DEF Going
  <2>4. IsClient(d) /\ Over(d)
    BY <2>2, <2>3 DEF Sound, IsClient, Over
  <2>5. Sound(d, asked)
    BY <2>2, <2>4, KeptSound
  <2> QED
    BY <2>2, <2>3, <2>5 DEF d
<1> QED
  BY <1>1, <1>2

LEMMA FinalSound ==
    ASSUME NEW c, NEW reply, NEW asked, Sound(c, asked), c.state # "NONE"
    PROVE  LET d == HandleFinal(c, reply)
           IN /\ Sound(d, asked) /\ d.state # "NONE"
              /\ d.state = "OPEN" => \/ c.state = "OPEN"
                                     \/ c.state = "REMOTE_INIT" /\ c.auth.authedToRemote
<1> DEFINE d == HandleFinal(c, reply)
           composed == ComposeClientModifications(c)
<1>1. CASE ~reply.final \/ ~c.auth.authedToRemote
  BY <1>1 DEF HandleFinal
<1>2. CASE reply.final /\ c.auth.authedToRemote /\ c.state = "REMOTE_INIT"
  <2>1. d = [composed EXCEPT !.state = "OPEN"]
    BY <1>2 DEF HandleFinal
  <2>2. Sound(composed, asked) /\ composed.state = "REMOTE_INIT"
    BY <1>2, ModificationsSound
  <2> HIDE DEF d, composed
  <2>3. /\ DOMAIN d = DOMAIN composed /\ d.state = "OPEN" /\ d.auth = composed.auth
        /\ d.queue = composed.queue /\ d.syncFinished = composed.syncFinished
        /\ d.sessionClosed = composed.sessionClosed
    BY <2>1, <2>2 DEF Sound, IsClient, ClientHas
  <2>4. IsClient(d) /\ Over(d)
    BY <2>2, <2>3 DEF Sound, IsClient, Over, Going
  <2>5. Sound(d, asked)
    BY <2>2, <2>3, <2>4, KeptSound
  <2> QED
    BY <1>2, <2>3, <2>5 DEF d
<1>3. CASE reply.final /\ c.auth.authedToRemote /\ c.state = "SENDING_ITEMS"
  <2>1. d = [c EXCEPT !.state = "FINALIZING"]
    BY <1>3 DEF HandleFinal
  <2> HIDE DEF d
  <2>2. /\ DOMAIN d = DOMAIN c /\ d.state = "FINALIZING" /\ d.auth = c.auth /\ d.queue = c.queue
        /\ d.syncFinished = c.syncFinished /\ d.sessionClosed = c.sessionClosed
    BY <2>1 DEF Sound, IsClient, ClientHas
  <2>3. IsClient(d) /\ Over(d)
    BY <2>2 DEF Sound, IsClient, Over, Going
  <2>4. Sound(d, asked)
    BY <2>2, <2>3, KeptSound
  <2> QED
    BY <2>2, <2>4 DEF d
<1>4. CASE /\ reply.final /\ c.auth.authedToRemote
           /\ c.state \notin {"REMOTE_INIT", "SENDING_ITEMS"}
  <2>1. d = AbortSync(c, "INTERNAL_ERROR")
    BY <1>4 DEF HandleFinal
  <2>2. "INTERNAL_ERROR" \notin Going
    BY DEF Going
  <2>3. Sound(d, asked) /\ d.state \notin Going
    BY <2>1, <2>2, AbortSound
  <2> QED
    BY <2>3 DEF Going
<1> QED
  BY <1>1, <1>2, <1>3, <1>4

\* No answer opens a session but one that accepts the client
LEMMA ProcessSound ==
    ASSUME NEW c, NEW reply, NEW nonce, NEW asked, Sound(c, asked), c.state # "NONE"
    PROVE  LET d == ProcessMessage(c, reply, nonce)
           IN /\ Sound(d, asked) /\ d.state # "NONE"
              /\ d.state = "OPEN" => c.state = "OPEN" \/ Accepting(reply.status)
<1> DEFINE s == HandleStatus(c, reply, nonce)
           a == HandleAlerts(s, reply)
           d == HandleFinal(a, reply)
<1>1. ProcessMessage(c, reply, nonce) = d
  BY DEF ProcessMessage
<1>2. /\ Sound(s, asked) /\ (s.state = c.state \/ s.state \notin Going)
      /\ s.state \in Going /\ s.auth.authedToRemote => Accepting(reply.status)
  BY StatusSound
<1> HIDE DEF s
<1>3. /\ Sound(a, asked) /\ a.auth = s.auth
      /\ a.state = s.state \/ (a.state = "REMOTE_INIT" /\ s.state \in Going)
  BY <1>2, AlertsSound
<1> HIDE DEF a
<1>4. a.state # "NONE"
  BY <1>2, <1>3 DEF Going
<1>5. /\ Sound(d, asked) /\ d.state # "NONE"
      /\ d.state = "OPEN" => \/ a.state = "OPEN"
                             \/ a.state = "REMOTE_INIT" /\ a.auth.authedToRemote
  BY <1>3, <1>4, FinalSound
<1> HIDE DEF d
<1>6. d.state = "OPEN" => c.state = "OPEN" \/ Accepting(reply.status)
  <2>1. CASE a.state = "OPEN"
    BY <1>2, <1>3, <2>1 DEF Going
  <2>2. CASE a.state = "REMOTE_INIT" /\ a.auth.authedToRemote
    <3>1. s.state \in Going
      BY <1>3, <2>2 DEF Going
    <3> QED
      BY <1>2, <1>3, <2>2, <3>1
  <2> QED
    BY <1>5, <2>1, <2>2
<1> QED
  BY <1>1, <1>5, <1>6

-----------------------------------------------------------------------------
\* The next message of a client takes the credentials that are queued first
LEMMA AskingSound ==
    ASSUME NEW c, NEW asked, Sound(c, asked)
    PROVE  LET d == Asking(c) IN Sound(d, asked) /\ d.state = c.state
<1> DEFINE d == Asking(c)
<1>1. CASE c.queue # <<>>
  BY <1>1 DEF Asking
<1>2. CASE c.queue = <<>>
  <2> DEFINE more == <<Package("Next")>>
  <2>1. d = [c EXCEPT !.queue = more]
    BY <1>2 DEF Asking
  <2>2. TypeOf(Package("Next")) = "NONE"
    BY DEF TypeOf, Package
  <2>3. IsSeq(more) /\ \A p \in Range(more) : TypeOf(p) \in {"NONE", c.auth.authType}
    BY <2>2, OneIs
  <2>4. c.queue \o more = more
    BY <1>2, <2>3, ConcatEmptySeq DEF IsSeq
  <2> HIDE DEF d, more
  <2>5. /\ DOMAIN d = DOMAIN c /\ d.queue = c.queue \o more /\ d.auth = c.auth /\ d.state = c.state
        /\ d.syncFinished = c.syncFinished /\ d.sessionClosed = c.sessionClosed
    BY <2>1, <2>4 DEF Sound, IsClient, ClientHas
  <2>6. IsClient(d)
    BY <2>3, <2>4, <2>5 DEF Sound, IsClient
  <2>7. Sound(d, asked)
    BY <2>3, <2>5, <2>6, GrownSound
  <2> QED
    BY <2>5, <2>7 DEF d
<1> QED
  BY <1>1, <1>2

LEMMA WrittenIs ==
    ASSUME cfg \in Configs, NEW q, IsSeq(q)
    PROVE  \E k \in 0 .. Len(q) :
               /\ IsSeq(Written(q)) /\ Len(Written(q)) = k
               /\ \A i \in 1 .. k : Written(q)[i] = q[i]
<1> DEFINE k == IF Len(q) < cfg.room THEN Len(q) ELSE cfg.room
           w == SubSeq(q, 0 + 1, k)
<1>1. cfg.room \in Nat /\ Len(q) \in Nat
  BY RoomAssumption, SeqIs
<1>2. k \in 0 .. Len(q)
  BY <1>1
<1>3. Written(q) = w
  BY DEF Written
<1> HIDE DEF k
<1>4. /\ IsSeq(w) /\ Len(w) = IF 0 <= k THEN k - 0 ELSE 0
      /\ \A i \in 1 .. k - 0 : w[i] = q[0 + i]
  <2>1. 0 \in Nat /\ k \in Nat /\ k <= Len(q)
    BY <1>1, <1>2
  <2> QED
    BY <2>1, SliceIs
<1> HIDE DEF w
<1>5. Len(w) = k /\ \A i \in 1 .. k : w[i] = q[i]
  BY <1>1, <1>2, <1>4
<1> QED
  BY <1>2, <1>3, <1>4, <1>5

LEMMA CredOfIs ==
    ASSUME NEW w, IsSeq(w)
    PROVE  \/ CredOf(w).type = "NONE"
           \/ \E i \in 1 .. Len(w) : CredOf(w).type = TypeOf(w[i])
<1> DEFINE creds == {i \in DOMAIN w : w[i].kind = "Cred"}
<1>1. Len(w) \in Nat /\ DOMAIN w = 1 .. Len(w)
  BY SeqIs
<1>2. CASE creds = {}
  BY <1>2 DEF CredOf, NoCred
<1>3. CASE creds # {}
  <2>1. creds \subseteq 1 .. Len(w)
    BY <1>1
  <2>2. CredOf(w) = w[Max(creds)].cred
    BY <1>3 DEF CredOf
  <2> HIDE DEF creds
  <2>3. Max(creds) \in creds
    BY <1>1, <1>3, <2>1, LastPlace
  <2>4. w[Max(creds)].kind = "Cred" /\ Max(creds) \in 1 .. Len(w)
    BY <1>1, <2>3 DEF creds
  <2> QED
    BY <2>2, <2>4 DEF TypeOf
<1> QED
  BY <1>2, <1>3

LEMMA MessageSound ==
    ASSUME cfg \in Configs, NEW c, NEW asked, Sound(c, asked)
    PROVE  LET type == NextMessage(c).cred.type
               d == AfterMessage(c)
           IN /\ Sound(d, asked \cup {type}) /\ d.state = c.state
              /\ type = "BASIC" => cfg.type = "BASIC" /\ "MD5" \notin asked
<1> DEFINE q == c.queue
           w == Written(q)
           type == CredOf(w).type
           rest == SubSeq(q, Len(w) + 1, Len(q))
           d == AfterMessage(c)
<1>1. IsSeq(q) /\ Len(q) \in Nat /\ Creds(c, asked)
  BY SeqIs DEF Sound, IsClient
<1>2. PICK k \in 0 .. Len(q) : IsSeq(w) /\ Len(w) = k /\ \A i \in 1 .. k : w[i] = q[i]
  BY <1>1, WrittenIs
<1>3. NextMessage(c).cred.type = type
  BY DEF NextMessage
<1>4. d = [c EXCEPT !.msgId = c.msgId + 1, !.queue = rest]
  BY DEF AfterMessage
<1>5. /\ DOMAIN d = DOMAIN c /\ d.state = c.state /\ d.auth = c.auth /\ d.queue = rest
      /\ d.syncFinished = c.syncFinished /\ d.sessionClosed = c.sessionClosed
  BY <1>4 DEF Sound, IsClient, ClientHas
<1>6. /\ IsSeq(rest) /\ Range(rest) \subseteq Range(q)
      /\ Len(rest) = IF k <= Len(q) THEN Len(q) - k ELSE 0
      /\ \A i \in 1 .. Len(q) - k : rest[i] = q[k + i]
  BY <1>1, <1>2, SliceIs
<1>7. IsClient(d) /\ Over(d)
  BY <1>5, <1>6 DEF Sound, IsClient, Over
<1>8. type = "NONE" \/ \E i \in 1 .. k : type = TypeOf(q[i])
  BY <1>2, CredOfIs
<1>9. \A i \in 1 .. k : i \in 1 .. Len(q) /\ q[i] \in Range(q)
  BY <1>1, <1>2, SeqIs
<1> HIDE DEF q, w, type, rest, d
<1>10. /\ c.auth.authType = "BASIC" => cfg.type = "BASIC"
       /\ "MD5" \in asked => c.auth.authType = "MD5"
       /\ \A p \in Range(q) :
              /\ TypeOf(p) = "MD5" => c.auth.authType = "MD5"
              /\ TypeOf(p) = "BASIC" => cfg.type = "BASIC" /\ "MD5" \notin asked
       /\ \A i, j \in 1 .. Len(q) : TypeOf(q[i]) = "BASIC" /\ TypeOf(q[j]) = "MD5" => i < j
  BY <1>1 DEF Creds, q
<1>11. /\ type = "BASIC" => cfg.type = "BASIC" /\ "MD5" \notin asked
       /\ type = "MD5" => c.auth.authType = "MD5"
  BY <1>8, <1>9, <1>10
<1>12. \A i \in 1 .. Len(q) - k : k + i \in 1 .. Len(q) /\ k + i > k /\ rest[i] = q[k + i]
  BY <1>1, <1>2, <1>6
<1>13. Len(rest) = Len(q) - k
  BY <1>1, <1>2, <1>6
<1>14. \A p \in Range(rest) :
           /\ TypeOf(p) = "MD5" => c.auth.authType = "MD5"
           /\ TypeOf(p) = "BASIC" => cfg.type = "BASIC" /\ "MD5" \notin asked \cup {type}
  <2> SUFFICES ASSUME NEW p \in Range(rest), TypeOf(p) = "BASIC", type = "MD5" PROVE FALSE
    BY <1>6, <1>10
  <2>1. PICK i \in 1 .. Len(q) - k : rest[i] = p
    BY <1>6, <1>13, SeqIs
  <2>2. PICK j \in 1 .. k : TypeOf(q[j]) = "MD5"
    BY <1>8
  <2>3. k + i < j
    BY <1>9, <1>10, <1>12, <2>1, <2>2
  <2> QED
    BY <1>1, <1>2, <1>12, <2>1, <2>2, <2>3
<1>15. \A i, j \in 1 .. Len(rest) : TypeOf(rest[i]) = "BASIC" /\ TypeOf(rest[j]) = "MD5" => i < j
  <2> SUFFICES ASSUME NEW i \in 1 .. Len(q) - k, NEW j \in 1 .. Len(q) - k,
                      TypeOf(rest[i]) = "BASIC", TypeOf(rest[j]) = "MD5"
               PROVE  i < j
    BY <1>13
  <2>1. k + i < k + j
    BY <1>10, <1>12
  <2> QED
    BY <1>2, <2>1
<1>16. Creds(d, asked \cup {type})
  BY <1>5, <1>10, <1>11, <1>14, <1>15 DEF Creds
<1>17. Sound(d, asked \cup {type})
  BY <1>7, <1>16 DEF Sound
<1> QED
  BY <1>3, <1>5, <1>11, <1>17 DEF d

-----------------------------------------------------------------------------
(***************************************************************************)
(* The transport                                                           *)
(***************************************************************************)
TransportHas == {"connections", "maxNumberOfResendAttempts", "numberOfResendAttempts",
                 "firstMessageSent", "firstMessage", "handleIncomingData", "incomingData"}

IsTransport(h) ==
    /\ TransportHas \subseteq DOMAIN h /\ h.connections \in Nat
    /\ IsSeq(h.incomingData) /\ IsSeq(h.firstMessage)

\* What is not read is kept, and nothing is sent again once something has come
LEMMA FinishedIs ==
    ASSUME NEW h, IsTransport(h), NEW r, IsSeq(r.data)
    PROVE  LET result == HttpRequestFinished(h, r)
           IN /\ IsTransport(result.http)
              /\ result.read \in {<<>>, r.data} /\ result.posted \in {<<>>, h.firstMessage}
              /\ result.http.incomingData \in {h.incomingData, r.data}
              /\ \/ result.http.firstMessageSent /\ result.posted = <<>>
                 \/ /\ ~result.http.firstMessageSent \/ h.firstMessageSent
                    /\ result.http.firstMessage = h.firstMessage /\ result.read = <<>>
                    /\ result.http.incomingData = h.incomingData
                    /\ result.posted # <<>> => ~h.firstMessageSent
                    /\ result.http.firstMessageSent = h.firstMessageSent
<1> DEFINE result == HttpRequestFinished(h, r)
           came == [h EXCEPT !.firstMessageSent = TRUE, !.firstMessage = <<>>]
           again == [h EXCEPT !.numberOfResendAttempts = @ + 1]
<1>1. /\ IsTransport(again) /\ again.firstMessage = h.firstMessage
      /\ again.incomingData = h.incomingData /\ again.firstMessageSent = h.firstMessageSent
  BY DEF IsTransport, TransportHas
<1>2. /\ IsTransport(came) /\ came.firstMessageSent /\ came.incomingData = h.incomingData
  BY EmptyIs DEF IsTransport, TransportHas
<1>3. CASE result = Resend(h) /\ ShouldResend(h)
  <2>1. /\ result.http = again /\ result.posted = h.firstMessage /\ result.read = <<>>
        /\ ~h.firstMessageSent
    BY <1>3 DEF Resend, Result, ShouldResend
  <2> HIDE DEF again, result
  <2> QED
    BY <1>1, <2>1 DEF result
<1>4. CASE \E event : result = Result(h, <<>>, <<>>, event)
  <2>1. result.http = h /\ result.posted = <<>> /\ result.read = <<>>
    BY <1>4 DEF Result
  <2> HIDE DEF result
  <2> QED
    BY <2>1 DEF result
<1>5. CASE result = ReceiveData(came, r.data)
  <2> HIDE DEF came
  <2>1. /\ result.posted = <<>> /\ result.read \in {<<>>, r.data}
        /\ \/ result.http = came \/ result.http = [came EXCEPT !.handleIncomingData = FALSE]
           \/ result.http = [came EXCEPT !.incomingData = r.data]
    BY <1>5 DEF ReceiveData, Result
  <2> HIDE DEF result
  <2>2. /\ IsTransport(result.http) /\ result.http.firstMessageSent
        /\ result.http.incomingData \in {h.incomingData, r.data}
    BY <1>2, <2>1 DEF IsTransport, TransportHas
  <2> QED
    BY <2>1, <2>2 DEF result
<1>6. \/ result = Resend(h) /\ ShouldResend(h)
      \/ \E event : result = Result(h, <<>>, <<>>, event)
      \/ result = ReceiveData(came, r.data)
  BY DEF HttpRequestFinished
<1> QED
  BY <1>3, <1>4, <1>5, <1>6

LEMMA ReceiveNextIs ==
    ASSUME NEW h, IsTransport(h)
    PROVE  LET result == ReceiveNext(h)
           IN /\ IsTransport(result.http) /\ result.event = "NONE"
              /\ result.read \in {<<>>, h.incomingData}
              /\ result.http.incomingData \in {<<>>, h.incomingData}
              /\ result.http.firstMessageSent = h.firstMessageSent
              /\ result.http.firstMessage = h.firstMessage
<1> DEFINE result == ReceiveNext(h)
<1>1. CASE h.incomingData # <<>>
  <2> DEFINE g == [h EXCEPT !.incomingData = <<>>]
  <2>1. /\ result.http = g /\ result.read = h.incomingData /\ result.event = "NONE"
    BY <1>1 DEF ReceiveNext, Result
  <2>2. /\ IsTransport(g) /\ g.incomingData = <<>> /\ g.firstMessage = h.firstMessage
        /\ g.firstMessageSent = h.firstMessageSent
    BY EmptyIs DEF IsTransport, TransportHas
  <2> HIDE DEF g, result
  <2> QED
    BY <2>1, <2>2 DEF result
<1>2. CASE h.incomingData = <<>>
  <2> DEFINE g == [h EXCEPT !.handleIncomingData = TRUE]
  <2>1. /\ result.http = g /\ result.read = <<>> /\ result.event = "NONE"
    BY <1>2 DEF ReceiveNext, Result
  <2>2. /\ IsTransport(g) /\ g.incomingData = h.incomingData /\ g.firstMessage = h.firstMessage
        /\ g.firstMessageSent = h.firstMessageSent
    BY DEF IsTransport, TransportHas
  <2> HIDE DEF g, result
  <2> QED
    BY <2>1, <2>2 DEF result
<1> QED
  BY <1>1, <1>2

LEMMA DoSendIs ==
    ASSUME NEW h, IsTransport(h), NEW message
    PROVE  LET g == DoSend(h, message)
           IN /\ IsTransport(g) /\ g.incomingData = h.incomingData
              /\ g.firstMessageSent = h.firstMessageSent
              /\ ~h.firstMessageSent => g.firstMessage = <<message>>
<1>1. CASE h.firstMessageSent
  BY <1>1 DEF DoSend
<1>2. CASE ~h.firstMessageSent
  <2> DEFINE g == [h EXCEPT !.numberOfResendAttempts = 0, !.firstMessage = <<message>>]
  <2>1. DoSend(h, message) = g
    BY <1>2 DEF DoSend
  <2>2. /\ IsTransport(g) /\ g.incomingData = h.incomingData
        /\ g.firstMessageSent = h.firstMessageSent /\ g.firstMessage = <<message>>
    BY OneIs DEF IsTransport, TransportHas
  <2> QED
    BY <2>1, <2>2
<1> QED
  BY <1>1, <1>2

LEMMA NewTransportIs ==
    ASSUME NEW n, NEW h, h = NewTransport(n)
    PROVE  /\ IsTransport(h) /\ h.incomingData = <<>>
           /\ IsTransport(InitTransport(h)) /\ InitTransport(h).incomingData = <<>>
           /\ ~InitTransport(h).firstMessageSent
<1>1. IsTransport(h) /\ h.incomingData = <<>>
  BY EmptyIs DEF NewTransport, IsTransport, TransportHas
<1>2. IsTransport(InitTransport(h)) /\ InitTransport(h).incomingData = <<>> /\ ~InitTransport(h).firstMessageSent
  BY <1>1 DEF InitTransport, IsTransport, TransportHas
<1> QED
  BY <1>1, <1>2

-----------------------------------------------------------------------------
(***************************************************************************)
(* The inductive invariant: what a server says of a session that accepts   *)
(* it, wherever the answer is by now, and what is sent before anything     *)
(* came back.                                                              *)
(***************************************************************************)
PostHas   == {"message", "session", "reply", "abandoned"}
ServerHas == {"session", "auth", "taken", "last", "nonce", "issued"}

Trusted(reply, s, acc)   == Accepting(reply.status) => s \in acc
AllTrusted(data, s, acc) == IsSeq(data) /\ \A reply \in Range(data) : Trusted(reply, s, acc)

IsPost(p, s, acc) ==
    PostHas \subseteq DOMAIN p /\ p.session = s /\ AllTrusted(p.reply, s, acc)
IsEvent(e, s, acc) ==
    /\ e.slot = "httpRequestFinished" => AllTrusted(e.what.data, s, acc)
    /\ e.slot = "handleParsingComplete" => Trusted(e.what, s, acc)
IsServer(v, acc) ==
    /\ ServerHas \subseteq DOMAIN v /\ AuthHas \subseteq DOMAIN v.auth
    /\ v.last # <<>> => Trusted(v.last[1].reply, v.last[1].session, acc)

Asked(messages) == {m.cred.type : m \in Range(messages)}

\* Until something has come back, there is one message and nothing to read
First(h, coming, messages) ==
    ~h.firstMessageSent =>
        /\ h.incomingData = <<>>
        /\ \A e \in Range(coming) : e.slot # "handleParsingComplete"
        /\ \E m \in Range(messages) : h.firstMessage = <<m>> /\ Range(messages) = {m}

TypeOK ==
    /\ cfg \in Configs /\ IsTransport(http)
    /\ IsSeq(posts) /\ IsSeq(events) /\ IsSeq(sent) /\ IsSeq(results)

ClientInv == Sound(client, Asked(sent))
PostsInv  == \A p \in Range(posts) : IsPost(p, Session, accepted)
EventsInv == \A e \in Range(events) : IsEvent(e, Session, accepted)
ServerInv == IsServer(server, accepted)
IdleInv   == client.state = "NONE" => posts = <<>> /\ events = <<>> /\ sent = <<>>
GoingInv  ==
    client.state # "NONE" =>
        AllTrusted(http.incomingData, Session, accepted) /\ First(http, events, sent)

IInv ==
    /\ TypeOK /\ ClientInv /\ PostsInv /\ EventsInv /\ ServerInv /\ IdleInv /\ GoingInv
    /\ NoDowngrade /\ OpensAccepted

-----------------------------------------------------------------------------
LEMMA PostedIs ==
    ASSUME NEW messages, IsSeq(messages), NEW acc
    PROVE  /\ IsSeq(Posted(messages))
           /\ \A p \in Range(Posted(messages)) : IsPost(p, Session, acc)
<1> DEFINE n == Len(messages)
           P == Posted(messages)
           post(m) == [message |-> m, session |-> Session, reply |-> <<>>, abandoned |-> FALSE]
<1>1. n \in Nat /\ DOMAIN messages = 1 .. n
  BY SeqIs
<1>2. P = [i \in 1 .. n |-> post(messages[i])]
  BY <1>1 DEF Posted
<1>3. \A m : IsPost(post(m), Session, acc)
  <2> SUFFICES ASSUME NEW m PROVE IsPost(post(m), Session, acc)
    OBVIOUS
  <2> DEFINE p == post(m)
  <2>1. PostHas \subseteq DOMAIN p /\ p.session = Session /\ p.reply = <<>>
    BY DEF PostHas
  <2> HIDE DEF p
  <2> QED
    BY <2>1, EmptyIs DEF IsPost, AllTrusted, p
<1> HIDE DEF n, P, post
<1>4. IsSeq(P) /\ Len(P) = n
  <2>1. P = [i \in 1 .. n |-> P[i]]
    BY <1>2
  <2> QED
    BY <1>1, <2>1, FunIs
<1>5. \A p \in Range(P) : IsPost(p, Session, acc)
  BY <1>2, <1>3, <1>4, SeqIs
<1> QED
  BY <1>4, <1>5 DEF P

LEMMA ParsedIs ==
    ASSUME NEW data, NEW s, NEW acc, AllTrusted(data, s, acc)
    PROVE  /\ IsSeq(Parsed(data))
           /\ \A e \in Range(Parsed(data)) : IsEvent(e, s, acc)
           /\ data = <<>> => Range(Parsed(data)) = {}
<1> DEFINE n == Len(data)
           P == Parsed(data)
           event(reply) == [slot |-> "handleParsingComplete", what |-> reply]
<1>1. n \in Nat /\ DOMAIN data = 1 .. n /\ \A i \in 1 .. n : Trusted(data[i], s, acc)
  BY SeqIs DEF AllTrusted
<1>2. P = [i \in 1 .. n |-> event(data[i])]
  BY <1>1 DEF Parsed
<1>3. \A reply : Trusted(reply, s, acc) => IsEvent(event(reply), s, acc)
  BY DEF IsEvent
<1>4. data = <<>> => n = 0
  BY EmptyIs
<1> HIDE DEF n, P, event
<1>5. IsSeq(P) /\ Len(P) = n
  <2>1. P = [i \in 1 .. n |-> P[i]]
    BY <1>2
  <2> QED
    BY <1>1, <2>1, FunIs
<1>6. \A e \in Range(P) : \E i \in 1 .. n : e = event(data[i])
  BY <1>2, <1>5, SeqIs
<1>7. n = 0 => Range(P) = {}
  <2>1. n = 0 => \A e : e \notin Range(P)
    BY <1>6
  <2> QED
    BY <2>1
<1> QED
  BY <1>1, <1>3, <1>4, <1>5, <1>6, <1>7 DEF P

LEMMA FinishedEvents ==
    ASSUME NEW h, IsTransport(h), NEW r, "data" \in DOMAIN r,
           NEW s, NEW acc, AllTrusted(r.data, s, acc)
    PROVE  /\ IsSeq(Finished(h, r))
           /\ \A e \in Range(Finished(h, r)) :
                  IsEvent(e, s, acc) /\ e.slot = "httpRequestFinished"
<1> DEFINE n == h.connections
           F == Finished(h, r)
           event(data) == [slot |-> "httpRequestFinished", what |-> data]
           nothing == [r EXCEPT !.data = <<>>]
<1>1. n \in Nat
  BY DEF IsTransport
<1>2. F = [i \in 1 .. n |-> event(IF i = 1 THEN r ELSE nothing)]
  BY DEF Finished
<1>3. AllTrusted(nothing.data, s, acc)
  <2>1. nothing.data = <<>>
    OBVIOUS
  <2> HIDE DEF nothing
  <2> QED
    BY <2>1, EmptyIs DEF AllTrusted
<1>4. \A data : AllTrusted(data.data, s, acc) =>
                    IsEvent(event(data), s, acc) /\ event(data).slot = "httpRequestFinished"
  BY DEF IsEvent
<1> HIDE DEF n, F, event, nothing
<1>5. IsSeq(F) /\ Len(F) = n
  <2>1. F = [i \in 1 .. n |-> F[i]]
    BY <1>2
  <2> QED
    BY <1>1, <2>1, FunIs
<1>6. \A e \in Range(F) : e = event(r) \/ e = event(nothing)
  BY <1>2, <1>5, SeqIs
<1> QED
  BY <1>3, <1>4, <1>5, <1>6 DEF F

(***************************************************************************)
(* What is sent: a message, or the first one once more.                    *)
(***************************************************************************)
Undowngraded(messages) ==
    \A i \in DOMAIN messages :
        messages[i].cred.type = "BASIC" =>
            cfg.type = "BASIC" /\ \A j \in 1 .. i : messages[j].cred.type # "MD5"

LEMMA SentIs ==
    ASSUME NEW messages, IsSeq(messages), Undowngraded(messages), NEW m,
           m.cred.type = "BASIC" => cfg.type = "BASIC" /\ "MD5" \notin Asked(messages)
    PROVE  /\ IsSeq(messages \o <<m>>) /\ Undowngraded(messages \o <<m>>)
           /\ Asked(messages \o <<m>>) = Asked(messages) \cup {m.cred.type}
<1> DEFINE n == Len(messages)
           all == messages \o <<m>>
<1>1. /\ IsSeq(<<m>>) /\ Range(<<m>>) = {m} /\ Len(<<m>>) = 1 /\ <<m>>[1] = m
  BY OneIs
<1>2. /\ n \in Nat /\ DOMAIN messages = 1 .. n
      /\ \A i \in 1 .. n : messages[i] \in Range(messages)
  BY SeqIs
<1>3. /\ IsSeq(all) /\ Range(all) = Range(messages) \cup {m} /\ Len(all) = n + 1
      /\ \A i \in 1 .. n : all[i] = messages[i]
      /\ all[n + 1] = m
  <2>1. 1 \in 1 .. Len(<<m>>)
    BY <1>1
  <2> QED
    BY <1>1, <2>1, JoinIs
<1> HIDE DEF all
<1>4. Len(all) \in Nat /\ DOMAIN all = 1 .. n + 1
  BY <1>3, SeqIs
<1>5. Asked(all) = Asked(messages) \cup {m.cred.type}
  BY <1>3 DEF Asked
<1>6. \A i \in 1 .. n : messages[i].cred.type \in Asked(messages)
  BY <1>2 DEF Asked
<1> HIDE DEF n
<1>7. \A i \in 1 .. n + 1 : i \in 1 .. n \/ i = n + 1
  BY <1>2
<1>8. Undowngraded(all)
  <2> SUFFICES ASSUME NEW i \in 1 .. n + 1, all[i].cred.type = "BASIC",
                      NEW j \in 1 .. i
               PROVE  cfg.type = "BASIC" /\ all[j].cred.type # "MD5"
    BY <1>2, <1>4 DEF Undowngraded
  <2>1. CASE i \in 1 .. n
    <3>1. j \in 1 .. n
      BY <1>2, <2>1
    <3> QED
      BY <1>2, <1>3, <2>1, <3>1 DEF Undowngraded
  <2>2. CASE i = n + 1
    <3>1. m.cred.type = "BASIC"
      BY <1>3, <2>2
    <3>2. j \in 1 .. n \/ j = n + 1
      BY <1>2, <2>2
    <3> QED
      BY <1>3, <1>6, <3>1, <3>2
  <2> QED
    BY <1>7, <2>1, <2>2
<1> QED
  BY <1>3, <1>5, <1>8 DEF all

LEMMA AgainIs ==
    ASSUME NEW messages, IsSeq(messages), Undowngraded(messages),
           NEW m, Range(messages) = {m}
    PROVE  /\ IsSeq(messages \o <<m>>) /\ Undowngraded(messages \o <<m>>)
           /\ Asked(messages \o <<m>>) = Asked(messages)
           /\ Range(messages \o <<m>>) = {m}
<1>1. Asked(messages) = {m.cred.type}
  BY DEF Asked
<1>2. m.cred.type = "BASIC" => cfg.type = "BASIC"
  <2>1. PICK i \in 1 .. Len(messages) : messages[i] = m
    BY SeqIs
  <2>2. i \in DOMAIN messages
    BY SeqIs
  <2> QED
    BY <2>1, <2>2 DEF Undowngraded
<1>3. /\ IsSeq(messages \o <<m>>) /\ Undowngraded(messages \o <<m>>)
      /\ Asked(messages \o <<m>>) = Asked(messages) \cup {m.cred.type}
  BY <1>1, <1>2, SentIs
<1>4. Range(messages \o <<m>>) = {m}
  BY OneIs, JoinIs
<1> QED
  BY <1>1, <1>3, <1>4

-----------------------------------------------------------------------------
(***************************************************************************)
(* What a step of the client leaves behind                                 *)
(***************************************************************************)
LEMMA ApplyStep ==
    ASSUME IInv, UNCHANGED <<cfg, server, results, accepted>>,
           NEW result, NEW c, NEW waiting, Apply(result, c, waiting),
           c.state # "NONE", c.state = "OPEN" => Session \in accepted,
           Sound(c, Asked(sent \o result.posted)), IsTransport(result.http),
           IsSeq(result.posted), IsSeq(sent \o result.posted),
           Undowngraded(sent \o result.posted),
           AllTrusted(result.read, Session, accepted),
           AllTrusted(result.http.incomingData, Session, accepted),
           IsSeq(waiting), \A e \in Range(waiting) : IsEvent(e, Session, accepted),
           First(result.http, waiting \o Parsed(result.read), sent \o result.posted)
    PROVE  IInv'
<1> DEFINE d == TransportStatus(c, result.event)
           more == Posted(result.posted)
           coming == waiting \o Parsed(result.read)
           messages == sent \o result.posted
<1>1. /\ http' = result.http /\ posts' = posts \o more /\ sent' = messages
      /\ events' = coming /\ client' = d
  BY DEF Apply
<1>2. /\ cfg' = cfg /\ server' = server /\ results' = results /\ accepted' = accepted
      /\ Session' = Session
  BY DEF Session
<1>3. Sound(d, Asked(messages)) /\ d.state # "NONE" /\ (d.state = "OPEN" => c.state = "OPEN")
  BY TransportStatusSound
<1>4. IsSeq(more) /\ \A p \in Range(more) : IsPost(p, Session, accepted)
  BY PostedIs
<1>5. /\ IsSeq(posts \o more) /\ Range(posts \o more) = Range(posts) \cup Range(more)
  BY <1>4, JoinIs DEF IInv, TypeOK
<1>6. /\ IsSeq(Parsed(result.read))
      /\ \A e \in Range(Parsed(result.read)) : IsEvent(e, Session, accepted)
  BY ParsedIs
<1>7. IsSeq(coming) /\ Range(coming) = Range(waiting) \cup Range(Parsed(result.read))
  BY <1>6, JoinIs
<1> HIDE DEF d, more, coming, messages
<1>8. TypeOK'
  BY <1>1, <1>2, <1>5, <1>7 DEF IInv, TypeOK, IsTransport, messages
<1>9. ClientInv'
  BY <1>1, <1>2, <1>3 DEF ClientInv, Sound, Creds, Over, IsClient, Asked
<1>10. PostsInv'
  BY <1>1, <1>2, <1>4, <1>5 DEF IInv, PostsInv
<1>11. EventsInv'
  BY <1>1, <1>2, <1>6, <1>7 DEF EventsInv
<1>12. ServerInv'
  BY <1>2 DEF IInv, ServerInv
<1>13. IdleInv'
  BY <1>1, <1>3 DEF IdleInv
<1>14. GoingInv'
  BY <1>1, <1>2 DEF GoingInv, coming, messages
<1>15. NoDowngrade'
  BY <1>1, <1>2 DEF NoDowngrade, Undowngraded, messages
<1>16. OpensAccepted'
  BY <1>1, <1>2, <1>3 DEF IInv, OpensAccepted
<1> QED
  BY <1>8, <1>9, <1>10, <1>11, <1>12, <1>13, <1>14, <1>15, <1>16 DEF IInv

LEMMA SendStep ==
    ASSUME IInv, UNCHANGED <<cfg, server, results, accepted>>,
           NEW c, NEW h, NEW waiting, SendAndReceive(c, h, waiting),
           Sound(c, Asked(sent)), c.state \notin {"NONE", "OPEN"}, IsTransport(h),
           AllTrusted(h.incomingData, Session, accepted),
           IsSeq(waiting), \A e \in Range(waiting) : IsEvent(e, Session, accepted),
           \/ h.firstMessageSent
           \/ h.incomingData = <<>> /\ waiting = <<>> /\ sent = <<>>
    PROVE  IInv'
<1> DEFINE asking == Asking(c)
           message == NextMessage(asking)
           after == AfterMessage(asking)
           g == DoSend(h, message)
           received == ReceiveNext(g)
           result == [received EXCEPT !.posted = <<message>>]
           type == message.cred.type
<1>1. Apply(result, after, waiting)
  BY DEF SendAndReceive
<1>2. cfg \in Configs /\ IsSeq(sent) /\ Undowngraded(sent)
  BY DEF IInv, TypeOK, NoDowngrade, Undowngraded
<1>3. Sound(asking, Asked(sent)) /\ asking.state = c.state
  BY AskingSound
<1> HIDE DEF asking
<1>4. /\ Sound(after, Asked(sent) \cup {type}) /\ after.state = c.state
      /\ type = "BASIC" => cfg.type = "BASIC" /\ "MD5" \notin Asked(sent)
  BY <1>2, <1>3, MessageSound
<1> HIDE DEF message, after
<1>5. /\ IsSeq(sent \o <<message>>) /\ Undowngraded(sent \o <<message>>)
      /\ Asked(sent \o <<message>>) = Asked(sent) \cup {type}
  BY <1>2, <1>4, SentIs
<1>6. /\ IsTransport(g) /\ g.incomingData = h.incomingData
      /\ g.firstMessageSent = h.firstMessageSent
      /\ ~h.firstMessageSent => g.firstMessage = <<message>>
  BY DoSendIs
<1> HIDE DEF g
<1>7. /\ IsTransport(received.http) /\ received.event = "NONE"
      /\ received.read \in {<<>>, g.incomingData}
      /\ received.http.incomingData \in {<<>>, g.incomingData}
      /\ received.http.firstMessageSent = g.firstMessageSent
      /\ received.http.firstMessage = g.firstMessage
  BY <1>6, ReceiveNextIs
<1>8. \E k, p, x, e : received = Result(k, p, x, e)
  BY DEF ReceiveNext
<1> HIDE DEF received
<1>9. /\ result.http = received.http /\ result.posted = <<message>>
      /\ result.read = received.read /\ result.event = received.event
  BY <1>8 DEF Result
<1> HIDE DEF result
<1>10. AllTrusted(<<>>, Session, accepted)
  BY EmptyIs DEF AllTrusted
<1>11. /\ AllTrusted(result.read, Session, accepted)
       /\ AllTrusted(result.http.incomingData, Session, accepted)
  BY <1>6, <1>7, <1>9, <1>10
<1>12. First(result.http, waiting \o Parsed(result.read), sent \o result.posted)
  <2>1. CASE h.firstMessageSent
    BY <1>6, <1>7, <1>9, <2>1 DEF First
  <2>2. CASE ~h.firstMessageSent
    <3>1. result.read = <<>> /\ result.http.incomingData = <<>>
      BY <1>6, <1>7, <1>9, <2>2
    <3>2. IsSeq(Parsed(result.read)) /\ Range(Parsed(result.read)) = {}
      BY <1>11, <3>1, ParsedIs
    <3>3. Range(waiting \o Parsed(result.read)) = {}
      BY <2>2, <3>2, EmptyIs, JoinIs
    <3>4. Range(sent \o <<message>>) = {message}
      BY <1>2, <2>2, EmptyIs, OneIs, JoinIs
    <3> QED
      BY <1>6, <1>7, <1>9, <2>2, <3>1, <3>3, <3>4 DEF First
  <2> QED
    BY <2>1, <2>2
<1>13. IsSeq(result.posted)
  BY <1>9, OneIs
<1> QED
  BY <1>1, <1>4, <1>5, <1>7, <1>9, <1>11, <1>12, <1>13, ApplyStep

-----------------------------------------------------------------------------
(***************************************************************************)
(* The server accepts no one without having authenticated him.             *)
(***************************************************************************)
Careful(v) ==
    AuthHas \subseteq DOMAIN v.auth /\ (Accepting(v.status) => v.auth.remoteAuthed)

LEMMA AnswerIs ==
    ASSUME NEW a, AuthHas \subseteq DOMAIN a, NEW data, NEW chal, NEW nonce, NEW outcome,
           data \in {"SUCCESS", "AUTH_ACCEPTED"} => a.remoteAuthed
    PROVE  Careful(Answer(a, data, chal, nonce, outcome))
<1> DEFINE v == Answer(a, data, chal, nonce, outcome)
<1>1. v.auth = a /\ v.status.data = data
  BY DEF Answer
<1> HIDE DEF v
<1> QED
  BY <1>1 DEF Careful, Accepting, v

LEMMA JudgedIs ==
    ASSUME NEW a, AuthHas \subseteq DOMAIN a
    PROVE  /\ AuthHas \subseteq DOMAIN Accept(a) /\ Accept(a).remoteAuthed
           /\ AuthHas \subseteq DOMAIN Refuse(a) /\ AuthHas \subseteq DOMAIN Demand(a)
<1>1. AuthHas \subseteq DOMAIN Accept(a) /\ Accept(a).remoteAuthed
  BY DEF Accept, AuthHas
<1>2. AuthHas \subseteq DOMAIN Refuse(a)
  BY DEF Refuse
<1>3. AuthHas \subseteq DOMAIN Demand(a)
  BY DEF Demand
<1> QED
  BY <1>1, <1>2, <1>3

LEMMA HeaderCareful ==
    ASSUME NEW a, AuthHas \subseteq DOMAIN a, NEW cred, NEW nonce, NEW fresh,
           cred # NoCred \/ a.remoteAuthed
    PROVE  Careful(AnalyzeHeader(a, cred, nonce, fresh))
<1> DEFINE raised == [a EXCEPT !.authType = "MD5", !.localNonce = NoNonce]
<1>1. AuthHas \subseteq DOMAIN raised
  OBVIOUS
<1>2. CASE cred = NoCred
  <2>1. AnalyzeHeader(a, cred, nonce, fresh) = Answer(a, "SUCCESS", NoChal, nonce, "NOT_HANDLED")
    BY <1>2 DEF AnalyzeHeader
  <2> QED
    BY <1>2, <2>1, AnswerIs
<1>3. CASE cred # NoCred /\ a.remoteAuthed
  <2>1. AnalyzeHeader(a, cred, nonce, fresh) = Answer(a, "NONE", NoChal, nonce, "ABORT")
    BY <1>3 DEF AnalyzeHeader
  <2> QED
    BY <1>3, <2>1, AnswerIs
<1>4. CASE cred # NoCred /\ ~a.remoteAuthed /\ cred.type = "MD5"
  <2>1. AnalyzeHeader(a, cred, nonce, fresh) = HandleMD5(a, cred, nonce, fresh)
    BY <1>4 DEF AnalyzeHeader, HandleAuthentication
  <2>2. \/ HandleMD5(a, cred, nonce, fresh) =
               Answer(Accept(raised), "AUTH_ACCEPTED", MD5Challenge(fresh), fresh, "OK")
        \/ HandleMD5(a, cred, nonce, fresh) =
               Answer(Refuse(raised), "INVALID_CRED", NoChal, nonce, "ABORT")
        \/ HandleMD5(a, cred, nonce, fresh) =
               Answer(Demand(raised), "INVALID_CRED", MD5Challenge(fresh), fresh, "OK")
    BY DEF HandleMD5
  <2> HIDE DEF raised
  <2> QED
    BY <1>1, <2>1, <2>2, AnswerIs, JudgedIs
<1>5. CASE cred # NoCred /\ ~a.remoteAuthed /\ cred.type # "MD5"
  <2>1. AnalyzeHeader(a, cred, nonce, fresh) = HandleBasic(a, cred, nonce)
    BY <1>5 DEF AnalyzeHeader, HandleAuthentication
  <2>2. \/ HandleBasic(a, cred, nonce) = Answer(Accept(a), "AUTH_ACCEPTED", NoChal, nonce, "OK")
        \/ HandleBasic(a, cred, nonce) = Answer(Refuse(a), "INVALID_CRED", NoChal, nonce, "ABORT")
        \/ HandleBasic(a, cred, nonce) =
               Answer(Demand(a), "INVALID_CRED", BasicChallenge, nonce, "OK")
    BY DEF HandleBasic
  <2> QED
    BY <2>1, <2>2, AnswerIs, JudgedIs
<1> QED
  BY <1>2, <1>3, <1>4, <1>5

LEMMA MissingCareful ==
    ASSUME NEW s, AuthHas \subseteq DOMAIN s.auth, NEW fresh
    PROVE  /\ Careful(Missing(s, fresh))
           /\ Careful([Missing(s, fresh) EXCEPT !.status.data = "INVALID_CRED"])
<1> DEFINE v == [Missing(s, fresh) EXCEPT !.status.data = "INVALID_CRED"]
<1>1. \E chal, nonce : Missing(s, fresh) = Answer(s.auth, "MISSING_CRED", chal, nonce, "OK")
  BY DEF Missing
<1>2. Careful(Missing(s, fresh))
  BY <1>1, AnswerIs
<1>3. v.auth = s.auth /\ v.status.data = "INVALID_CRED"
  BY <1>1 DEF Answer
<1> HIDE DEF v
<1>4. Careful(v)
  BY <1>3 DEF Careful, Accepting
<1> QED
  BY <1>2, <1>4 DEF v

LEMMA VerdictsCareful ==
    ASSUME NEW s, AuthHas \subseteq DOMAIN s.auth, NEW cred, NEW fresh,
           NEW v \in Verdicts(s, cred, fresh)
    PROVE  Careful(v)
<1>1. CASE cfg.server = "refusing"
  <2>1. PICK data \in Rejections, chal \in {NoChal, BasicChallenge, MD5Challenge(NoNonce), MD5Challenge(fresh)} :
            v = Answer(s.auth, data, chal, s.nonce, "OK")
    BY <1>1 DEF Verdicts
  <2> QED
    BY <2>1, AnswerIs DEF Rejections
<1>2. CASE cfg.server # "refusing" /\ cred = NoCred /\ ~s.auth.remoteAuthed
  <2>1. v = Missing(s, fresh)
    BY <1>2 DEF Verdicts
  <2> QED
    BY <2>1, MissingCareful
<1>3. CASE cfg.server = "class" /\ (cred # NoCred \/ s.auth.remoteAuthed)
  <2>1. v = AnalyzeHeader(s.auth, cred, s.nonce, fresh)
    BY <1>3 DEF Verdicts
  <2> QED
    BY <1>3, <2>1, HeaderCareful
<1>4. CASE cfg.server = "strict" /\ s.auth.remoteAuthed
  <2>1. v = Answer(s.auth, "SUCCESS", NoChal, s.nonce, "OK")
    BY <1>4 DEF Verdicts
  <2> QED
    BY <1>4, <2>1, AnswerIs
<1>5. CASE /\ cfg.server # "refusing" /\ ~(cred = NoCred /\ ~s.auth.remoteAuthed)
           /\ ~(cfg.server = "class" /\ (cred # NoCred \/ s.auth.remoteAuthed))
           /\ ~(cfg.server = "strict" /\ s.auth.remoteAuthed)
  <2>1. \/ \E chal, nonce : v = Answer(Accept(s.auth), "AUTH_ACCEPTED", chal, nonce, "OK")
        \/ v = [Missing(s, fresh) EXCEPT !.status.data = "INVALID_CRED"]
    BY <1>5 DEF Verdicts
  <2> QED
    BY <2>1, AnswerIs, JudgedIs, MissingCareful
<1> QED
  BY <1>1, <1>2, <1>3, <1>4, <1>5

LEMMA ServerSessionIs ==
    ASSUME NEW post, ServerInv
    PROVE  LET s == ServerSession(post)
           IN IsServer(s, accepted)
<1> DEFINE auth == SetSessionParams(cfg.demands, "", NoNonce,
                                    IF cfg.demands = "NONE" THEN "" ELSE "right", NoNonce)
           s == [server EXCEPT !.session = post.session, !.taken = <<>>, !.auth = auth]
<1>1. AuthHas \subseteq DOMAIN auth
  BY DEF SetSessionParams, AuthHas
<1>2. ServerSession(post) \in {server, s}
  BY DEF ServerSession
<1> HIDE DEF auth
<1>3. DOMAIN s = DOMAIN server /\ s.auth = auth /\ s.last = server.last
  BY DEF ServerInv, IsServer, ServerHas
<1> HIDE DEF s
<1>4. IsServer(s, accepted)
  BY <1>1, <1>3 DEF ServerInv, IsServer
<1> QED
  BY <1>2, <1>4 DEF ServerInv

-----------------------------------------------------------------------------
(***************************************************************************)
(* The steps of the client                                                 *)
(***************************************************************************)
LEMMA EmptyAsked == Asked(<<>>) = {}
BY EmptyIs DEF Asked

\* Nothing is sent
LEMMA QuietStep ==
    ASSUME IInv, UNCHANGED <<cfg, server, results, accepted>>, client.state # "NONE",
           NEW c, NEW event, NEW waiting,
           Apply(Result(http, <<>>, <<>>, event), c, waiting),
           c.state # "NONE", c.state = "OPEN" => Session \in accepted,
           Sound(c, Asked(sent)), IsSeq(waiting), Range(waiting) \subseteq Range(events)
    PROVE  IInv'
<1> DEFINE result == Result(http, <<>>, <<>>, event)
<1>1. result.http = http /\ result.posted = <<>> /\ result.read = <<>>
  BY DEF Result
<1> HIDE DEF result
<1>2. IsTransport(http) /\ IsSeq(sent) /\ Undowngraded(sent)
  BY DEF IInv, TypeOK, NoDowngrade, Undowngraded
<1>3. sent \o <<>> = sent
  BY <1>2, ConcatEmptySeq DEF IsSeq
<1>4. AllTrusted(http.incomingData, Session, accepted) /\ First(http, events, sent)
  BY DEF IInv, GoingInv
<1>5. AllTrusted(<<>>, Session, accepted)
  BY EmptyIs DEF AllTrusted
<1>6. IsSeq(Parsed(<<>>)) /\ Range(Parsed(<<>>)) = {}
  BY <1>5, ParsedIs
<1>7. Range(waiting \o Parsed(<<>>)) \subseteq Range(events)
  BY <1>6, JoinIs
<1>8. First(http, waiting \o Parsed(<<>>), sent)
  BY <1>4, <1>7 DEF First
<1>9. \A e \in Range(waiting) : IsEvent(e, Session, accepted)
  BY DEF IInv, EventsInv
<1>10. Apply(result, c, waiting)
  BY DEF result
<1> QED
  BY <1>1, <1>2, <1>3, <1>4, <1>5, <1>8, <1>9, <1>10, EmptyIs, ApplyStep

LEMMA StartSyncStep == IInv /\ StartSync => IInv'
<1> SUFFICES ASSUME IInv, StartSync PROVE IInv'
  OBVIOUS
<1> DEFINE auth == SetSessionParams(cfg.type, cfg.password, cfg.nonce, "", NoNonce)
           state == IF cfg.noInit THEN "SENDING_ITEMS" ELSE "LOCAL_INIT"
           prepared == [NoSession EXCEPT !.auth = auth, !.state = state]
           composed == ComposeClientInitialization(prepared, clientNonce)
           unused == NewTransport(cfg.attempts)
           made == IF cfg.prepared THEN InitTransport(unused) ELSE unused
           h == InitTransport(made)
<1>1. /\ SendAndReceive(composed, h, <<>>)
      /\ UNCHANGED <<cfg, server, results, accepted>>
  BY DEF StartSync
<1>2. sent = <<>>
  BY DEF StartSync, IInv, IdleInv
<1>3. /\ ClientHas \subseteq DOMAIN prepared /\ prepared.auth = auth /\ prepared.state = state
      /\ prepared.queue = <<>> /\ ~prepared.syncFinished /\ ~prepared.sessionClosed
  BY DEF NoSession, ClientHas
<1>4. AuthHas \subseteq DOMAIN auth /\ auth.authType = cfg.type
  BY DEF SetSessionParams, AuthHas
<1>5. state \notin {"NONE", "OPEN"}
  OBVIOUS
<1> HIDE DEF prepared, auth, state
<1>6. Sound(prepared, Asked(sent))
  <2>1. IsClient(prepared) /\ Over(prepared)
    BY <1>3, <1>4, EmptyIs DEF IsClient, Over
  <2>2. Range(prepared.queue) = {} /\ Len(prepared.queue) = 0 /\ Asked(sent) = {}
    BY <1>2, <1>3, EmptyIs, EmptyAsked
  <2>3. Creds(prepared, Asked(sent))
    BY <1>3, <1>4, <2>2 DEF Creds
  <2> QED
    BY <2>1, <2>3 DEF Sound
<1>7. Sound(composed, Asked(sent)) /\ composed.state = state
  BY <1>3, <1>6, ComposeSound
<1> HIDE DEF composed
<1>8. /\ IsTransport(unused) /\ unused.incomingData = <<>>
      /\ IsTransport(InitTransport(unused)) /\ InitTransport(unused).incomingData = <<>>
  BY NewTransportIs
<1>9. IsTransport(made) /\ made.incomingData = <<>>
  BY <1>8
<1> HIDE DEF made
<1>10. IsTransport(h) /\ h.incomingData = <<>>
  BY <1>9 DEF InitTransport, IsTransport, TransportHas
<1> HIDE DEF h
<1>11. AllTrusted(<<>>, Session, accepted) /\ IsSeq(<<>>) /\ Range(<<>>) = {}
  BY EmptyIs DEF AllTrusted
<1> QED
  BY <1>1, <1>2, <1>5, <1>7, <1>10, <1>11, SendStep

\* The client is in a session while it has something to do
LEMMA BusyIs ==
    ASSUME IInv, events # <<>>
    PROVE  /\ client.state # "NONE" /\ Sound(client, Asked(sent))
           /\ Head(events) \in Range(events) /\ IsEvent(Head(events), Session, accepted)
           /\ IsSeq(Tail(events)) /\ Range(Tail(events)) \subseteq Range(events)
           /\ client.state = "OPEN" => Session \in accepted
<1>1. client.state # "NONE" /\ Sound(client, Asked(sent)) /\ IsSeq(events)
  BY DEF IInv, IdleInv, ClientInv, TypeOK
<1>2. /\ Head(events) \in Range(events)
      /\ IsSeq(Tail(events)) /\ Range(Tail(events)) \subseteq Range(events)
  BY <1>1, TailOf
<1>3. IsEvent(Head(events), Session, accepted)
  BY <1>2 DEF IInv, EventsInv
<1> QED
  BY <1>1, <1>2, <1>3 DEF IInv, OpensAccepted

LEMMA RequestFinishedStep == IInv /\ RequestFinished => IInv'
<1> SUFFICES ASSUME IInv, RequestFinished PROVE IInv'
  OBVIOUS
<1> DEFINE r == Head(events).what
           result == HttpRequestFinished(http, r)
           waiting == Tail(events)
<1>1. /\ events # <<>> /\ Head(events).slot = "httpRequestFinished"
      /\ Apply(result, client, waiting)
      /\ UNCHANGED <<cfg, server, results, accepted>>
  BY DEF RequestFinished
<1>2. /\ client.state # "NONE" /\ Sound(client, Asked(sent))
      /\ IsEvent(Head(events), Session, accepted)
      /\ IsSeq(waiting) /\ Range(waiting) \subseteq Range(events)
      /\ client.state = "OPEN" => Session \in accepted
  BY <1>1, BusyIs
<1>3. AllTrusted(r.data, Session, accepted)
  BY <1>1, <1>2 DEF IsEvent
<1>4. /\ AllTrusted(http.incomingData, Session, accepted) /\ First(http, events, sent)
      /\ IsTransport(http) /\ IsSeq(sent) /\ Undowngraded(sent)
  BY <1>2 DEF IInv, GoingInv, TypeOK, NoDowngrade, Undowngraded
<1> HIDE DEF r, waiting
<1>5. /\ IsTransport(result.http)
      /\ result.read \in {<<>>, r.data} /\ result.posted \in {<<>>, http.firstMessage}
      /\ result.http.incomingData \in {http.incomingData, r.data}
      /\ \/ result.http.firstMessageSent /\ result.posted = <<>>
         \/ /\ ~result.http.firstMessageSent \/ http.firstMessageSent
            /\ result.http.firstMessage = http.firstMessage /\ result.read = <<>>
            /\ result.http.incomingData = http.incomingData
            /\ result.posted # <<>> => ~http.firstMessageSent
            /\ result.http.firstMessageSent = http.firstMessageSent
  BY <1>3, <1>4, FinishedIs DEF AllTrusted
<1> HIDE DEF result
<1>6. AllTrusted(<<>>, Session, accepted)
  BY EmptyIs DEF AllTrusted
<1>7. /\ AllTrusted(result.read, Session, accepted)
      /\ AllTrusted(result.http.incomingData, Session, accepted)
  BY <1>3, <1>4, <1>5, <1>6
<1>8. \A e \in Range(waiting) : IsEvent(e, Session, accepted)
  BY <1>2 DEF IInv, EventsInv
<1>9. CASE result.posted = <<>>
  <2>1. sent \o result.posted = sent
    BY <1>4, <1>9, ConcatEmptySeq DEF IsSeq
  <2>2. First(result.http, waiting \o Parsed(result.read), sent)
    <3>1. CASE result.http.firstMessageSent
      BY <3>1 DEF First
    <3>2. CASE ~result.http.firstMessageSent
      <4>1. /\ result.read = <<>> /\ ~http.firstMessageSent
            /\ result.http.incomingData = http.incomingData
            /\ result.http.firstMessage = http.firstMessage
        BY <1>5, <3>2
      <4>2. IsSeq(Parsed(result.read)) /\ Range(Parsed(result.read)) = {}
        BY <1>7, <4>1, ParsedIs
      <4>3. Range(waiting \o Parsed(result.read)) \subseteq Range(events)
        BY <1>2, <4>2, JoinIs
      <4> QED
        BY <1>4, <4>1, <4>3 DEF First
    <3> QED
      BY <3>1, <3>2
  <2>3. IsSeq(result.posted)
    BY <1>9, EmptyIs
  <2> QED
    BY <1>1, <1>2, <1>4, <1>5, <1>7, <1>8, <2>1, <2>2, <2>3, ApplyStep
<1>10. CASE result.posted # <<>>
  <2>1. /\ result.posted = http.firstMessage /\ ~http.firstMessageSent
        /\ result.read = <<>> /\ result.http.incomingData = http.incomingData
        /\ result.http.firstMessage = http.firstMessage
    BY <1>5, <1>10
  <2>2. PICK m \in Range(sent) : http.firstMessage = <<m>> /\ Range(sent) = {m}
    BY <1>4, <2>1 DEF First
  <2>3. /\ IsSeq(sent \o <<m>>) /\ Undowngraded(sent \o <<m>>)
        /\ Asked(sent \o <<m>>) = Asked(sent) /\ Range(sent \o <<m>>) = {m}
    BY <1>4, <2>2, AgainIs
  <2>4. IsSeq(Parsed(result.read)) /\ Range(Parsed(result.read)) = {}
    BY <1>7, <2>1, ParsedIs
  <2>5. Range(waiting \o Parsed(result.read)) \subseteq Range(events)
    BY <1>2, <2>4, JoinIs
  <2>6. First(result.http, waiting \o Parsed(result.read), sent \o <<m>>)
    <3>1. http.incomingData = <<>> /\ \A e \in Range(events) : e.slot # "handleParsingComplete"
      BY <1>4, <2>1 DEF First
    <3> QED
      BY <2>1, <2>2, <2>3, <2>5, <3>1 DEF First
  <2>7. IsSeq(result.posted) /\ result.posted = <<m>>
    BY <2>1, <2>2, OneIs
  <2> QED
    BY <1>1, <1>2, <1>5, <1>7, <1>8, <2>3, <2>6, <2>7, ApplyStep
<1> QED
  BY <1>9, <1>10

LEMMA AuthRequiredStep == IInv /\ AuthRequired => IInv'
<1> SUFFICES ASSUME IInv, AuthRequired PROVE IInv'
  OBVIOUS
<1>1. /\ events # <<>> /\ UNCHANGED <<cfg, server, results, accepted>>
      /\ Apply(Result(http, <<>>, <<>>, "TRANSPORT_CONNECTION_AUTHENTICATION_NEEDED"),
               client, Tail(events))
  BY DEF AuthRequired
<1> QED
  BY <1>1, BusyIs, QuietStep

LEMMA HandleParsingCompleteStep == IInv /\ HandleParsingComplete => IInv'
<1> SUFFICES ASSUME IInv, HandleParsingComplete PROVE IInv'
  OBVIOUS
<1> DEFINE reply == Head(events).what
           nonce == NextNonce(reply.status, clientNonce)
           done == ProcessMessage(client, reply, nonce)
           over == ExitSync(done)
<1>1. /\ events # <<>> /\ Head(events).slot = "handleParsingComplete"
      /\ UNCHANGED <<cfg, server, results, accepted>>
      /\ \/ /\ done.state \in {"LOCAL_INIT", "REMOTE_INIT", "SENDING_ITEMS"}
            /\ SendAndReceive(done, http, Tail(events))
         \/ Apply(Result(http, <<>>, <<>>, "NONE"), over, Tail(events))
  BY DEF HandleParsingComplete
<1>2. /\ client.state # "NONE" /\ Sound(client, Asked(sent))
      /\ Head(events) \in Range(events) /\ IsEvent(Head(events), Session, accepted)
      /\ IsSeq(Tail(events)) /\ Range(Tail(events)) \subseteq Range(events)
      /\ client.state = "OPEN" => Session \in accepted
  BY <1>1, BusyIs
<1>3. Trusted(reply, Session, accepted)
  BY <1>1, <1>2 DEF IsEvent
<1>4. /\ AllTrusted(http.incomingData, Session, accepted) /\ First(http, events, sent)
      /\ IsTransport(http)
  BY <1>2 DEF IInv, GoingInv, TypeOK
<1>5. http.firstMessageSent
  BY <1>1, <1>2, <1>4 DEF First
<1> HIDE DEF reply, nonce
<1>6. /\ Sound(done, Asked(sent)) /\ done.state # "NONE"
      /\ done.state = "OPEN" => client.state = "OPEN" \/ Accepting(reply.status)
  BY <1>2, ProcessSound
<1>7. done.state = "OPEN" => Session \in accepted
  BY <1>2, <1>3, <1>6 DEF Trusted
<1> HIDE DEF done
<1>8. Sound(over, Asked(sent)) /\ over.state = done.state
  BY <1>6, ExitSound
<1> HIDE DEF over
<1>9. \A e \in Range(Tail(events)) : IsEvent(e, Session, accepted)
  BY <1>2 DEF IInv, EventsInv
<1>10. CASE /\ done.state \in {"LOCAL_INIT", "REMOTE_INIT", "SENDING_ITEMS"}
            /\ SendAndReceive(done, http, Tail(events))
  <2>1. done.state \notin {"NONE", "OPEN"}
    BY <1>10
  <2> QED
    BY <1>1, <1>2, <1>4, <1>5, <1>6, <1>9, <1>10, <2>1, SendStep
<1>11. CASE Apply(Result(http, <<>>, <<>>, "NONE"), over, Tail(events))
  BY <1>1, <1>2, <1>6, <1>7, <1>8, <1>11, QuietStep
<1> QED
  BY <1>1, <1>10, <1>11

LEMMA EndSessionStep == IInv /\ EndSession => IInv'
<1> SUFFICES ASSUME IInv, EndSession PROVE IInv'
  OBVIOUS
<1>1. /\ results' = Append(results, client.state) /\ client' = NoSession
      /\ events' = <<>> /\ posts' = <<>> /\ sent' = <<>>
      /\ cfg' = cfg /\ server' = server /\ http' = http /\ accepted' = accepted
  BY DEF EndSession
<1>2. IsSeq(<<>>) /\ Range(<<>>) = {} /\ Asked(<<>>) = {}
  BY EmptyIs, EmptyAsked
<1>3. /\ IsSeq(results')
      /\ \A k \in DOMAIN results' :
             \/ k \in DOMAIN results /\ results'[k] = results[k]
             \/ k = Session /\ results'[k] = client.state
  BY <1>1, AppendIs DEF IInv, TypeOK, Session
<1>4. TypeOK'
  BY <1>1, <1>2, <1>3 DEF IInv, TypeOK, IsTransport
<1>5. /\ NoSession.state = "NONE" /\ NoSession.queue = <<>> /\ ~NoSession.syncFinished
      /\ ~NoSession.sessionClosed /\ ClientHas \subseteq DOMAIN NoSession
      /\ AuthHas \subseteq DOMAIN NoSession.auth /\ NoSession.auth.authType = "NONE"
  BY DEF NoSession, ClientHas, SetSessionParams, AuthHas
<1>6. IsClient(NoSession) /\ Over(NoSession)
  BY <1>2, <1>5 DEF IsClient, Over
<1>7. ClientInv'
  <2>1. Range(NoSession.queue) = {} /\ Len(NoSession.queue) = 0
    BY <1>5, EmptyIs
  <2>2. client' = NoSession /\ Asked(sent') = {}
    BY <1>1, <1>2
  <2> QED
    BY <1>5, <1>6, <2>1, <2>2 DEF ClientInv, Sound, Creds, Over, IsClient
<1>8. PostsInv' /\ EventsInv'
  BY <1>1, <1>2 DEF PostsInv, EventsInv
<1>9. ServerInv'
  BY <1>1 DEF IInv, ServerInv
<1>10. IdleInv'
  BY <1>1 DEF IdleInv
<1>11. GoingInv'
  BY <1>1, <1>5 DEF GoingInv
<1>12. NoDowngrade'
  BY <1>1 DEF NoDowngrade
<1>13. OpensAccepted'
  BY <1>1, <1>3, <1>5 DEF IInv, OpensAccepted
<1> QED
  BY <1>4, <1>7, <1>8, <1>9, <1>10, <1>11, <1>12, <1>13 DEF IInv

-----------------------------------------------------------------------------
(***************************************************************************)
(* The steps of the server and of the network                              *)
(***************************************************************************)
LEMMA MoreTrusted ==
    ASSUME NEW acc, NEW more, acc \subseteq more, NEW s
    PROVE  /\ \A p : IsPost(p, s, acc) => IsPost(p, s, more)
           /\ \A e : IsEvent(e, s, acc) => IsEvent(e, s, more)
           /\ \A data : AllTrusted(data, s, acc) => AllTrusted(data, s, more)
<1>1. \A data : AllTrusted(data, s, acc) => AllTrusted(data, s, more)
  BY DEF AllTrusted, Trusted
<1> QED
  BY <1>1 DEF IsPost, IsEvent, Trusted

LEMMA ServedStep ==
    ASSUME IInv, NEW i \in DOMAIN posts, NEW reply,
           UNCHANGED <<cfg, client, http, events, results, sent>>,
           posts' = [posts EXCEPT ![i].reply = <<reply>>],
           accepted \subseteq accepted', Trusted(reply, Session, accepted'), ServerInv'
    PROVE  IInv'
<1> DEFINE post == [posts[i] EXCEPT !.reply = <<reply>>]
<1>1. /\ IsSeq(posts) /\ client.state # "NONE"
      /\ IsPost(posts[i], Session, accepted)
  <2>1. posts # <<>>
    OBVIOUS
  <2>2. posts[i] \in Range(posts)
    BY DEF Range
  <2> QED
    BY <2>1, <2>2 DEF IInv, TypeOK, IdleInv, PostsInv
<1>2. posts' = [posts EXCEPT ![i] = post]
  OBVIOUS
<1>3. /\ DOMAIN post = DOMAIN posts[i] /\ post.session = posts[i].session
      /\ post.reply = <<reply>>
  BY <1>1 DEF IsPost, PostHas
<1> HIDE DEF post
<1>4. IsPost(post, Session, accepted')
  BY <1>1, <1>3, OneIs DEF IsPost, AllTrusted
<1>5. /\ IsSeq(posts') /\ Range(posts') \subseteq Range(posts) \cup {post}
  BY <1>1, <1>2, ChangedIs
<1>6. Session' = Session
  BY DEF Session
<1>7. TypeOK'
  BY <1>5 DEF IInv, TypeOK, IsTransport
<1>8. ClientInv'
  BY DEF IInv, ClientInv, Sound, Creds, Over, IsClient, Asked
<1>9. PostsInv'
  BY <1>4, <1>5, <1>6, MoreTrusted DEF IInv, PostsInv
<1>10. EventsInv'
  BY <1>6, MoreTrusted DEF IInv, EventsInv
<1>11. IdleInv'
  BY <1>1 DEF IdleInv
<1>12. GoingInv'
  BY <1>6, MoreTrusted DEF IInv, GoingInv
<1>13. NoDowngrade'
  BY DEF IInv, NoDowngrade
<1>14. OpensAccepted'
  BY <1>6 DEF IInv, OpensAccepted
<1> QED
  BY <1>7, <1>8, <1>9, <1>10, <1>11, <1>12, <1>13, <1>14 DEF IInv

LEMMA ServeStep ==
    ASSUME IInv, NEW i \in DOMAIN posts, Serve(i)
    PROVE  IInv'
<1> DEFINE post == posts[i]
           s == ServerSession(post)
           repeated == cfg.repeats /\ server.last # <<>>
                       /\ server.last[1].session = post.session
                       /\ server.last[1].id = post.message.id
<1>1. UNCHANGED <<cfg, client, http, events, results, sent>>
  BY DEF Serve
<1>2. post.session = Session
  BY DEF IInv, PostsInv, IsPost, Range
<1>3. CASE repeated
  <2>1. /\ posts' = [posts EXCEPT ![i].reply = <<server.last[1].reply>>]
        /\ server' = server /\ accepted' = accepted
    BY <1>3 DEF Serve
  <2>2. Trusted(server.last[1].reply, Session, accepted)
    BY <1>2, <1>3 DEF IInv, ServerInv, IsServer
  <2>3. ServerInv'
    BY <2>1 DEF IInv, ServerInv
  <2> QED
    BY <1>1, <2>1, <2>2, <2>3, ServedStep
<1>4. CASE ~repeated
  <2>1. PICK v \in Verdicts(s, post.message.cred, server.issued + 1),
             careless \in IF cfg.server = "refusing" THEN BOOLEAN ELSE {FALSE} :
             LET taken == IF v.auth.remoteAuthed THEN s.taken \o post.message.parts ELSE s.taken
                 done  == careless \/ (v.auth.remoteAuthed /\ Contains(post.message.parts, "Final"))
                 reply == [for |-> post.message.id, status |-> v.status,
                           alerts |-> done, final |-> done]
             IN /\ posts' = [posts EXCEPT ![i].reply = <<reply>>]
                /\ server' = [s EXCEPT !.auth = v.auth, !.taken = taken, !.nonce = v.nonce,
                                       !.issued = IF v.nonce # s.nonce THEN @ + 1 ELSE @,
                                       !.last = <<[session |-> post.session, id |-> post.message.id,
                                                   reply |-> reply]>>]
                /\ accepted' = IF v.auth.remoteAuthed THEN accepted \cup {post.session} ELSE accepted
    BY <1>4 DEF Serve
  <2>2. PICK done, taken, issued, reply :
             /\ reply = [for |-> post.message.id, status |-> v.status,
                         alerts |-> done, final |-> done]
             /\ posts' = [posts EXCEPT ![i].reply = <<reply>>]
             /\ server' = [s EXCEPT !.auth = v.auth, !.taken = taken, !.nonce = v.nonce,
                                    !.issued = issued,
                                    !.last = <<[session |-> post.session, id |-> post.message.id,
                                                reply |-> reply]>>]
             /\ accepted' = IF v.auth.remoteAuthed THEN accepted \cup {post.session} ELSE accepted
    BY <2>1
  <2>3. IsServer(s, accepted)
    BY ServerSessionIs DEF IInv
  <2> HIDE DEF s
  <2>4. Careful(v)
    BY <2>3, VerdictsCareful DEF IsServer
  <2>5. accepted \subseteq accepted' /\ (v.auth.remoteAuthed => post.session \in accepted')
    BY <2>2
  <2>6. reply.status = v.status
    BY <2>2
  <2>7. Trusted(reply, post.session, accepted')
    BY <2>4, <2>5, <2>6 DEF Trusted, Careful
  <2>8. ServerInv'
    <3> DEFINE last == [session |-> post.session, id |-> post.message.id, reply |-> reply]
    <3>1. last.session = post.session /\ last.reply = reply
      OBVIOUS
    <3>2. server' = [s EXCEPT !.auth = v.auth, !.taken = taken, !.nonce = v.nonce,
                              !.issued = issued, !.last = <<last>>]
      BY <2>2
    <3> HIDE DEF last
    <3>3. DOMAIN server' = DOMAIN s /\ server'.auth = v.auth /\ server'.last = <<last>>
      BY <2>3, <3>2 DEF IsServer, ServerHas
    <3>4. server'.last[1] = last
      BY <3>3
    <3> QED
      BY <2>3, <2>4, <2>7, <3>1, <3>3, <3>4 DEF ServerInv, IsServer, Careful
  <2> QED
    BY <1>1, <1>2, <2>2, <2>5, <2>7, <2>8, ServedStep
<1> QED
  BY <1>3, <1>4

LEMMA EndStep ==
    ASSUME IInv, NEW i \in DOMAIN posts, NEW ends, End(i, ends),
           UNCHANGED <<cfg, client, server, http, results, accepted, sent>>,
           IsSeq(ends),
           \A e \in Range(ends) :
               IsEvent(e, Session, accepted) /\ e.slot # "handleParsingComplete"
    PROVE  IInv'
<1> DEFINE post == [posts[i] EXCEPT !.abandoned = TRUE]
<1>1. /\ IsSeq(posts) /\ IsSeq(events) /\ client.state # "NONE"
      /\ IsPost(posts[i], Session, accepted)
  <2>1. posts # <<>>
    OBVIOUS
  <2>2. posts[i] \in Range(posts)
    BY DEF Range
  <2> QED
    BY <2>1, <2>2 DEF IInv, TypeOK, IdleInv, PostsInv
<1>2. /\ DOMAIN post = DOMAIN posts[i] /\ post.session = posts[i].session
      /\ post.reply = posts[i].reply
  BY <1>1 DEF IsPost, PostHas
<1>3. \/ posts' = [posts EXCEPT ![i] = post]
      \/ posts' = SubSeq(posts, 1, i - 1) \o SubSeq(posts, i + 1, Len(posts))
  BY DEF End
<1> HIDE DEF post
<1>4. IsPost(post, Session, accepted)
  BY <1>1, <1>2 DEF IsPost
<1>5. IsSeq(posts') /\ Range(posts') \subseteq Range(posts) \cup {post}
  <2>1. CASE posts' = [posts EXCEPT ![i] = post]
    BY <1>1, <2>1, ChangedIs
  <2>2. CASE posts' = SubSeq(posts, 1, i - 1) \o SubSeq(posts, i + 1, Len(posts))
    BY <1>1, <2>2, WithoutIs
  <2> QED
    BY <1>3, <2>1, <2>2
<1>6. IsSeq(events') /\ Range(events') = Range(events) \cup Range(ends)
  BY <1>1, JoinIs DEF End
<1>7. Session' = Session
  BY DEF Session
<1>8. TypeOK'
  BY <1>5, <1>6 DEF IInv, TypeOK, IsTransport
<1>9. ClientInv'
  BY DEF IInv, ClientInv, Sound, Creds, Over, IsClient, Asked
<1>10. PostsInv'
  BY <1>4, <1>5, <1>7 DEF IInv, PostsInv
<1>11. EventsInv'
  BY <1>6, <1>7 DEF IInv, EventsInv
<1>12. ServerInv'
  BY DEF IInv, ServerInv
<1>13. IdleInv'
  BY <1>1 DEF IdleInv
<1>14. GoingInv'
  <2>1. First(http, events', sent)
    BY <1>1, <1>6 DEF IInv, GoingInv, First
  <2>2. AllTrusted(http.incomingData, Session, accepted)
    BY <1>1 DEF IInv, GoingInv
  <2>3. http' = http /\ sent' = sent /\ accepted' = accepted
    OBVIOUS
  <2> QED
    BY <1>7, <2>1, <2>2, <2>3 DEF GoingInv
<1>15. NoDowngrade'
  BY DEF IInv, NoDowngrade
<1>16. OpensAccepted'
  BY <1>7 DEF IInv, OpensAccepted
<1> QED
  BY <1>8, <1>9, <1>10, <1>11, <1>12, <1>13, <1>14, <1>15, <1>16 DEF IInv

LEMMA DeliverStep ==
    ASSUME IInv, NEW i \in DOMAIN posts, Deliver(i)
    PROVE  IInv'
<1> DEFINE reply == posts[i].reply
           r == Answered(reply[1])
<1>1. AllTrusted(reply, Session, accepted) /\ IsTransport(http)
  BY DEF IInv, PostsInv, IsPost, TypeOK, Range
<1>2. reply # <<>> /\ End(i, Finished(http, r))
  BY DEF Deliver
<1> HIDE DEF reply
<1>3. Trusted(reply[1], Session, accepted)
  <2>1. Head(reply) \in Range(reply) /\ reply[1] = Head(reply)
    BY <1>1, <1>2, TailOf DEF AllTrusted, IsSeq
  <2> QED
    BY <1>1, <2>1 DEF AllTrusted
<1>4. "data" \in DOMAIN r /\ r.data = <<reply[1]>>
  BY DEF Answered
<1> HIDE DEF r
<1>5. AllTrusted(r.data, Session, accepted)
  BY <1>3, <1>4, OneIs DEF AllTrusted
<1>6. /\ IsSeq(Finished(http, r))
      /\ \A e \in Range(Finished(http, r)) :
             IsEvent(e, Session, accepted) /\ e.slot = "httpRequestFinished"
  BY <1>1, <1>4, <1>5, FinishedEvents
<1>7. UNCHANGED <<cfg, client, server, http, results, accepted, sent>>
  BY DEF Deliver
<1> QED
  BY <1>2, <1>6, <1>7, EndStep

LEMMA FailStep ==
    ASSUME IInv, NEW i \in DOMAIN posts, Fail(i)
    PROVE  IInv'
<1>1. UNCHANGED <<cfg, client, server, http, results, accepted, sent>>
  BY DEF Fail
<1>2. PICK ends \in Failures : End(i, ends)
  BY DEF Fail
<1> DEFINE Fine(s) == /\ IsSeq(s)
                      /\ \A e \in Range(s) : /\ IsEvent(e, Session, accepted)
                                             /\ e.slot # "handleParsingComplete"
<1>3. \A r \in {TimedOut, Broken, Nothing} : Fine(Finished(http, r))
  <2> SUFFICES ASSUME NEW r \in {TimedOut, Broken, Nothing} PROVE Fine(Finished(http, r))
    OBVIOUS
  <2>1. "data" \in DOMAIN r /\ r.data = <<>>
    BY DEF TimedOut, Broken, Nothing
  <2>2. AllTrusted(r.data, Session, accepted) /\ IsTransport(http)
    BY <2>1, EmptyIs DEF AllTrusted, IInv, TypeOK
  <2>3. /\ IsSeq(Finished(http, r))
        /\ \A e \in Range(Finished(http, r)) :
               IsEvent(e, Session, accepted) /\ e.slot = "httpRequestFinished"
    BY <2>1, <2>2, FinishedEvents
  <2> QED
    BY <2>3
<1>4. Fine(<<[slot |-> "authRequired", what |-> Broken]>>)
  <2> DEFINE e == [slot |-> "authRequired", what |-> Broken]
  <2>1. e.slot = "authRequired"
    OBVIOUS
  <2> HIDE DEF e
  <2>2. IsEvent(e, Session, accepted)
    BY <2>1 DEF IsEvent
  <2>3. Fine(<<e>>)
    BY <2>1, <2>2, OneIs
  <2> QED
    BY <2>3 DEF e
<1>5. \A s, t : Fine(s) /\ Fine(t) => Fine(s \o t)
  BY JoinIs
<1> HIDE DEF Fine
<1>6. Fine(ends)
  BY <1>2, <1>3, <1>4, <1>5 DEF Failures
<1> QED
  BY <1>1, <1>2, <1>6, EndStep DEF Fine

-----------------------------------------------------------------------------
LEMMA InitHolds == Init => IInv
<1> SUFFICES ASSUME Init PROVE IInv
  OBVIOUS
<1>1. /\ cfg \in Configs /\ client = NoSession /\ server = NewServer
      /\ http = NewTransport(0) /\ posts = <<>> /\ events = <<>>
      /\ results = <<>> /\ accepted = {} /\ sent = <<>>
  BY DEF Init
<1>2. IsSeq(<<>>) /\ Range(<<>>) = {} /\ Asked(<<>>) = {} /\ Len(<<>>) = 0
  BY EmptyIs, EmptyAsked
<1>3. TypeOK
  BY <1>1, <1>2, NewTransportIs DEF TypeOK
<1>4. /\ NoSession.state = "NONE" /\ NoSession.queue = <<>> /\ ~NoSession.syncFinished
      /\ ~NoSession.sessionClosed /\ ClientHas \subseteq DOMAIN NoSession
      /\ AuthHas \subseteq DOMAIN NoSession.auth /\ NoSession.auth.authType = "NONE"
  BY DEF NoSession, ClientHas, SetSessionParams, AuthHas
<1>5. IsClient(NoSession) /\ Over(NoSession)
  BY <1>2, <1>4 DEF IsClient, Over
<1>6. ClientInv
  <2>1. Range(NoSession.queue) = {} /\ Len(NoSession.queue) = 0
    BY <1>2, <1>4
  <2> QED
    BY <1>1, <1>2, <1>4, <1>5, <2>1 DEF ClientInv, Sound, Creds
<1>7. PostsInv /\ EventsInv
  BY <1>1, <1>2 DEF PostsInv, EventsInv
<1>8. ServerInv
  <2>1. /\ ServerHas \subseteq DOMAIN NewServer /\ NewServer.last = <<>>
        /\ AuthHas \subseteq DOMAIN NewServer.auth
    BY DEF NewServer, ServerHas, SetSessionParams, AuthHas
  <2> QED
    BY <1>1, <2>1 DEF ServerInv, IsServer
<1>9. IdleInv
  BY <1>1 DEF IdleInv
<1>10. GoingInv
  BY <1>1, <1>4 DEF GoingInv
<1>11. NoDowngrade
  BY <1>1 DEF NoDowngrade
<1>12. OpensAccepted
  BY <1>1, <1>4 DEF OpensAccepted
<1> QED
  BY <1>3, <1>6, <1>7, <1>8, <1>9, <1>10, <1>11, <1>12 DEF IInv

LEMMA NextHolds == IInv /\ [Next]_vars => IInv'
<1> SUFFICES ASSUME IInv, [Next]_vars PROVE IInv'
  OBVIOUS
<1>1. CASE StartSync
  BY <1>1, StartSyncStep
<1>2. CASE RequestFinished
  BY <1>2, RequestFinishedStep
<1>3. CASE AuthRequired
  BY <1>3, AuthRequiredStep
<1>4. CASE HandleParsingComplete
  BY <1>4, HandleParsingCompleteStep
<1>5. CASE EndSession
  BY <1>5, EndSessionStep
<1>6. ASSUME NEW i \in DOMAIN posts, Serve(i) PROVE IInv'
  BY <1>6, ServeStep
<1>7. ASSUME NEW i \in DOMAIN posts, Deliver(i) PROVE IInv'
  BY <1>7, DeliverStep
<1>8. ASSUME NEW i \in DOMAIN posts, Fail(i) PROVE IInv'
  BY <1>8, FailStep
<1>9. CASE UNCHANGED vars
  <2>1. /\ cfg' = cfg /\ client' = client /\ server' = server /\ http' = http
        /\ posts' = posts /\ events' = events /\ results' = results
        /\ accepted' = accepted /\ sent' = sent
    BY <1>9 DEF vars
  <2> QED
    BY <2>1 DEF IInv, TypeOK, ClientInv, PostsInv, EventsInv, ServerInv, IdleInv, GoingInv,
                NoDowngrade, OpensAccepted, Session, Sound, Creds, Over, IsClient, Asked,
                IsTransport, IsPost, IsEvent, IsServer, First, AllTrusted, Trusted
<1> QED
  BY <1>1, <1>2, <1>3, <1>4, <1>5, <1>6, <1>7, <1>8, <1>9 DEF Next, ClientStep, Request

(***************************************************************************)
(* Whatever a server says of a session that accepts it, it has accepted it *)
(* in this session; what is sent is one message until an answer has come.  *)
(***************************************************************************)
THEOREM OpeningInvariant == Spec => []IInv
<1> QED
  BY InitHolds, NextHolds, PTL DEF Spec

-----------------------------------------------------------------------------
(***************************************************************************)
(* The items of a client that sends an initialization.  While a message is *)
(* processed they may be queued in a session that is over (Waits); when it *)
(* is done, only in one that is open (Holds).                              *)
(***************************************************************************)
Itemless(queue) == \A p \in Range(queue) : p.kind # "Changes"

Holds(c) == c.state # "SENDING_ITEMS" /\ (Itemless(c.queue) \/ c.state = "OPEN")
Waits(c) ==
    c.state # "SENDING_ITEMS" /\ (Itemless(c.queue) \/ c.state = "OPEN" \/ c.syncFinished)

LEMMA InitializationItemless ==
    ASSUME ~cfg.noInit, NEW c, NEW nonce
    PROVE  IsSeq(InitializationPackage(c, nonce)) /\ Itemless(InitializationPackage(c, nonce))
<1> DEFINE creds == [i \in DOMAIN ComposedCred(c.auth, nonce) |->
                         CredPackage(ComposedCred(c.auth, nonce)[i])]
           devInf == IF c.devInfSent THEN <<>> ELSE <<Package("DevInf")>>
           Fine(s) == IsSeq(s) /\ Itemless(s)
<1>1. Fine(<<>>) /\ \A p : p.kind # "Changes" => Fine(<<p>>)
  BY EmptyIs, OneIs DEF Itemless
<1>2. \A kind : Package(kind).kind = kind
  BY DEF Package
<1>3. Fine(<<Package("Alert")>>) /\ Fine(<<Package("Final")>>) /\ Fine(devInf)
  BY <1>1, <1>2
<1>4. Fine(creds)
  <2>1. CASE c.auth.authType = "NONE"
    <3>1. ComposedCred(c.auth, nonce) = <<>>
      BY <2>1 DEF ComposedCred
    <3>2. creds = <<>>
      BY <3>1
    <3> QED
      BY <1>1, <3>2
  <2>2. CASE c.auth.authType # "NONE"
    <3> DEFINE e == Encoded(c.auth.authType, c.auth.remotePassword, NonceToSend(c.auth, nonce))
    <3>1. ComposedCred(c.auth, nonce) = <<e>>
      BY <2>2 DEF ComposedCred
    <3> HIDE DEF e
    <3>2. creds = <<CredPackage(e)>>
      BY <3>1
    <3>3. CredPackage(e).kind # "Changes"
      BY DEF CredPackage
    <3> QED
      BY <1>1, <3>2, <3>3
  <2> QED
    BY <2>1, <2>2
<1>5. \A s, t : Fine(s) /\ Fine(t) => Fine(s \o t)
  BY JoinIs DEF Itemless
<1>6. InitializationPackage(c, nonce) =
          (((creds \o devInf) \o <<Package("Alert")>>) \o <<>>) \o <<Package("Final")>>
  BY DEF InitializationPackage
<1> HIDE DEF creds, devInf, Fine
<1>7. Fine(InitializationPackage(c, nonce))
  BY <1>1, <1>3, <1>4, <1>5, <1>6
<1> QED
  BY <1>7 DEF Fine

LEMMA ComposeWaits ==
    ASSUME ~cfg.noInit, NEW c, NEW nonce, IsClient(c)
    PROVE  LET d == ComposeClientInitialization(c, nonce)
           IN (Waits(c) => Waits(d)) /\ (Holds(c) => Holds(d))
<1> DEFINE more == InitializationPackage(c, nonce)
           auth == ComposeAuthentication(c.auth, nonce)
           d == ComposeClientInitialization(c, nonce)
<1>1. d = [c EXCEPT !.queue = c.queue \o more, !.auth = auth, !.devInfSent = TRUE]
  BY DEF ComposeClientInitialization
<1>2. IsSeq(more) /\ Itemless(more)
  BY InitializationItemless
<1> HIDE DEF more, auth, d
<1>3. d.queue = c.queue \o more /\ d.state = c.state /\ d.syncFinished = c.syncFinished
  BY <1>1 DEF IsClient, ClientHas
<1>4. Itemless(c.queue) => Itemless(d.queue)
  BY <1>2, <1>3, JoinIs DEF Itemless, IsClient
<1> QED
  BY <1>3, <1>4 DEF Waits, Holds, d

LEMMA AbortWaits ==
    ASSUME NEW c, NEW state, IsClient(c), Waits(c), state # "SENDING_ITEMS"
    PROVE  Waits(AbortSync(c, state))
<1> DEFINE d == AbortSync(c, state)
<1>1. CASE c.sessionClosed
  BY <1>1 DEF AbortSync
<1>2. CASE ~c.sessionClosed
  <2>1. d = [c EXCEPT !.state = state, !.syncFinished = TRUE]
    BY <1>2 DEF AbortSync
  <2> HIDE DEF d
  <2>2. d.state = state /\ d.syncFinished
    BY <2>1 DEF IsClient, ClientHas
  <2> QED
    BY <2>2 DEF Waits, d
<1> QED
  BY <1>1, <1>2

LEMMA ExitHolds ==
    ASSUME NEW c, IsClient(c), Waits(c)
    PROVE  Holds(ExitSync(c))
<1> DEFINE d == ExitSync(c)
<1>1. CASE ~c.syncFinished
  BY <1>1 DEF ExitSync, Waits, Holds
<1>2. CASE c.syncFinished
  <2>1. d = [c EXCEPT !.sessionClosed = TRUE, !.queue = <<>>]
    BY <1>2 DEF ExitSync
  <2> HIDE DEF d
  <2>2. d.state = c.state /\ d.queue = <<>>
    BY <2>1 DEF IsClient, ClientHas
  <2>3. Itemless(d.queue)
    BY <2>2, EmptyIs DEF Itemless
  <2> QED
    BY <2>2, <2>3 DEF Waits, Holds, d
<1> QED
  BY <1>1, <1>2

LEMMA TransportStatusHolds ==
    ASSUME NEW c, NEW event, NEW asked, Sound(c, asked), Holds(c)
    PROVE  Holds(TransportStatus(c, event))
<1>1. CASE event = "NONE"
  BY <1>1 DEF TransportStatus
<1>2. CASE event # "NONE"
  <2>1. PICK state \in {"INVALID_SYNCML_MESSAGE", "CONNECTION_ERROR"} :
            TransportStatus(c, event) = ExitSync(AbortSync(c, state))
    BY <1>2 DEF TransportStatus
  <2>2. state \notin Going /\ state # "SENDING_ITEMS"
    BY DEF Going
  <2>3. IsClient(c) /\ Waits(c)
    BY DEF Sound, Holds, Waits
  <2>4. IsClient(AbortSync(c, state))
    BY <2>2, AbortSound DEF Sound
  <2> QED
    BY <2>1, <2>2, <2>3, <2>4, AbortWaits, ExitHolds
<1> QED
  BY <1>1, <1>2

LEMMA ResendWaits ==
    ASSUME ~cfg.noInit, NEW c, NEW nonce, IsClient(c), Waits(c)
    PROVE  Waits(ResendPackage(c, nonce))
<1>1. CASE c.state = "LOCAL_INIT"
  <2> DEFINE again == [c EXCEPT !.devInfSent = FALSE]
  <2>1. /\ DOMAIN again = DOMAIN c /\ again.state = c.state /\ again.auth = c.auth
        /\ again.queue = c.queue /\ again.syncFinished = c.syncFinished
    BY DEF IsClient, ClientHas
  <2>2. ResendPackage(c, nonce) = ComposeClientInitialization(again, nonce)
    BY <1>1 DEF ResendPackage
  <2> HIDE DEF again
  <2>3. IsClient(again) /\ Waits(again)
    BY <2>1 DEF IsClient, Waits
  <2> QED
    BY <2>2, <2>3, ComposeWaits
<1>2. CASE c.state # "LOCAL_INIT"
  <2>1. ResendPackage(c, nonce) = AbortSync(c, "INTERNAL_ERROR")
    BY <1>2 DEF ResendPackage, Waits
  <2> QED
    BY <2>1, AbortWaits
<1> QED
  BY <1>1, <1>2

LEMMA StatusWaits ==
    ASSUME ~cfg.noInit, NEW c, NEW reply, NEW nonce, NEW asked, Sound(c, asked), Waits(c)
    PROVE  Waits(HandleStatus(c, reply, nonce))
<1> DEFINE v == AnalyzeHeaderStatus(c.auth, reply.status, nonce)
           judged == [c EXCEPT !.auth = v.auth]
           d == HandleStatus(c, reply, nonce)
<1>1. \/ d = judged \/ d = ResendPackage(judged, nonce)
      \/ d = AbortSync(judged, "AUTHENTICATION_FAILURE")
      \/ d = AbortSync(judged, "INTERNAL_ERROR")
  BY DEF HandleStatus
<1>2. AuthHas \subseteq DOMAIN v.auth
  BY VerdictIs DEF Sound, IsClient
<1> HIDE DEF v, d
<1>3. /\ DOMAIN judged = DOMAIN c /\ judged.state = c.state /\ judged.auth = v.auth
      /\ judged.queue = c.queue /\ judged.syncFinished = c.syncFinished
  BY DEF Sound, IsClient, ClientHas
<1> HIDE DEF judged
<1>4. IsClient(judged) /\ Waits(judged)
  BY <1>2, <1>3 DEF Sound, IsClient, Waits
<1> QED
  BY <1>1, <1>4, ResendWaits, AbortWaits DEF d

LEMMA AlertsWaits ==
    ASSUME NEW c, NEW reply, IsClient(c), Waits(c)
    PROVE  Waits(HandleAlerts(c, reply))
<1> DEFINE d == HandleAlerts(c, reply)
<1>1. CASE d = c
  BY <1>1
<1>2. CASE d # c
  <2>1. d = [c EXCEPT !.state = "REMOTE_INIT"] /\ c.state # "OPEN"
    BY <1>2 DEF HandleAlerts
  <2> HIDE DEF d
  <2>2. d.state = "REMOTE_INIT" /\ d.queue = c.queue /\ d.syncFinished = c.syncFinished
    BY <2>1 DEF IsClient, ClientHas
  <2> QED
    BY <2>1, <2>2 DEF Waits, d
<1> QED
  BY <1>1, <1>2

LEMMA FinalWaits ==
    ASSUME NEW c, NEW reply, IsClient(c), Waits(c)
    PROVE  Waits(HandleFinal(c, reply))
<1> DEFINE d == HandleFinal(c, reply)
           composed == ComposeClientModifications(c)
<1>1. \/ d = c \/ d = [composed EXCEPT !.state = "OPEN"]
      \/ d = AbortSync(c, "INTERNAL_ERROR")
  BY DEF HandleFinal, Waits
<1>2. CASE d = [composed EXCEPT !.state = "OPEN"]
  <2>1. DOMAIN composed = DOMAIN c
    BY DEF ComposeClientModifications
  <2> HIDE DEF d, composed
  <2>2. d.state = "OPEN"
    BY <1>2, <2>1 DEF IsClient, ClientHas
  <2> QED
    BY <2>2 DEF Waits, d
<1> QED
  BY <1>1, <1>2, AbortWaits

LEMMA ProcessWaits ==
    ASSUME ~cfg.noInit, NEW c, NEW reply, NEW nonce, NEW asked, Sound(c, asked), Waits(c)
    PROVE  Waits(ProcessMessage(c, reply, nonce))
<1> DEFINE s == HandleStatus(c, reply, nonce)
           a == HandleAlerts(s, reply)
<1>1. ProcessMessage(c, reply, nonce) = HandleFinal(a, reply)
  BY DEF ProcessMessage
<1>2. Sound(s, asked) /\ Waits(s)
  BY StatusSound, StatusWaits
<1> HIDE DEF s
<1>3. Sound(a, asked) /\ Waits(a)
  BY <1>2, AlertsSound, AlertsWaits DEF Sound
<1> HIDE DEF a
<1> QED
  BY <1>1, <1>3, FinalWaits DEF Sound

-----------------------------------------------------------------------------
SentItemless == \A message \in Range(sent) : "Changes" \notin Range(message.parts)

ItemsInv == ~cfg.noInit => Holds(client) /\ SentItemless

LEMMA ApplyHolds ==
    ASSUME IsSeq(sent), cfg' = cfg, NEW result, NEW c, NEW waiting, NEW asked,
           Apply(result, c, waiting), Sound(c, asked), IsSeq(result.posted),
           ~cfg.noInit => /\ Holds(c) /\ SentItemless
                          /\ \A m \in Range(result.posted) : "Changes" \notin Range(m.parts)
    PROVE  ItemsInv'
<1>1. sent' = sent \o result.posted /\ client' = TransportStatus(c, result.event)
  BY DEF Apply
<1>2. Range(sent') = Range(sent) \cup Range(result.posted)
  BY <1>1, JoinIs
<1>3. ~cfg.noInit => Holds(client')
  BY <1>1, TransportStatusHolds
<1> QED
  BY <1>2, <1>3 DEF ItemsInv, SentItemless, Holds, Itemless

\* A message that is made while there is nothing of the items in the queue
LEMMA MessageItemless ==
    ASSUME cfg \in Configs, NEW c, NEW asked, Sound(c, asked), Holds(c), c.state # "OPEN"
    PROVE  LET asking == Asking(c)
           IN /\ "Changes" \notin Range(NextMessage(asking).parts)
              /\ Holds(AfterMessage(asking))
<1> DEFINE asking == Asking(c)
           q == asking.queue
           w == Written(q)
           rest == SubSeq(q, Len(w) + 1, Len(q))
           d == AfterMessage(asking)
<1>1. Sound(asking, asked) /\ asking.state = c.state
  BY AskingSound
<1>2. Itemless(q)
  <2>1. CASE c.queue # <<>>
    BY <2>1 DEF Asking, Holds
  <2>2. CASE c.queue = <<>>
    <3>1. asking = [c EXCEPT !.queue = <<Package("Next")>>]
      BY <2>2 DEF Asking
    <3>2. q = <<Package("Next")>>
      BY <3>1 DEF Sound, IsClient, ClientHas
    <3>3. Package("Next").kind # "Changes"
      BY DEF Package
    <3> QED
      BY <3>2, <3>3, OneIs DEF Itemless
  <2> QED
    BY <2>1, <2>2
<1> HIDE DEF asking
<1>3. IsSeq(q) /\ Len(q) \in Nat /\ \A i \in 1 .. Len(q) : q[i] \in Range(q)
  BY <1>1, SeqIs DEF Sound, IsClient
<1>4. PICK k \in 0 .. Len(q) : IsSeq(w) /\ Len(w) = k /\ \A i \in 1 .. k : w[i] = q[i]
  BY <1>3, WrittenIs
<1>5. d = [asking EXCEPT !.msgId = asking.msgId + 1, !.queue = rest]
  BY DEF AfterMessage
<1>6. d.state = asking.state /\ d.queue = rest
  BY <1>1, <1>5 DEF Sound, IsClient, ClientHas
<1>7. Range(rest) \subseteq Range(q)
  BY <1>3, <1>4, SliceIs
<1>8. Holds(d)
  BY <1>1, <1>2, <1>6, <1>7 DEF Holds, Itemless
<1>9. DOMAIN w = 1 .. k
  BY <1>4, SeqIs
<1>10. \A i \in 1 .. k : w[i].kind # "Changes"
  BY <1>2, <1>3, <1>4 DEF Itemless
<1>11. NextMessage(asking).parts = [i \in DOMAIN w |-> w[i].kind]
  BY DEF NextMessage, Parts
<1> HIDE DEF q, w, rest, d
<1>12. "Changes" \notin Range(NextMessage(asking).parts)
  BY <1>9, <1>10, <1>11 DEF Range
<1> QED
  BY <1>8, <1>12 DEF asking, d

LEMMA SendHolds ==
    ASSUME cfg \in Configs, IsSeq(sent), cfg' = cfg, NEW c, NEW h, NEW waiting, NEW asked,
           SendAndReceive(c, h, waiting), Sound(c, asked), c.state # "OPEN",
           ~cfg.noInit => Holds(c) /\ SentItemless
    PROVE  ItemsInv'
<1> DEFINE asking == Asking(c)
           message == NextMessage(asking)
           after == AfterMessage(asking)
           received == ReceiveNext(DoSend(h, message))
           result == [received EXCEPT !.posted = <<message>>]
           type == message.cred.type
<1>1. Apply(result, after, waiting)
  BY DEF SendAndReceive
<1>2. Sound(asking, asked)
  BY AskingSound
<1>3. ~cfg.noInit => "Changes" \notin Range(message.parts) /\ Holds(after)
  BY MessageItemless
<1> HIDE DEF asking
<1>4. Sound(after, asked \cup {type})
  BY <1>2, MessageSound
<1> HIDE DEF message, after
<1>5. result.posted = <<message>>
  BY DEF ReceiveNext, Result
<1> HIDE DEF result
<1>6. IsSeq(result.posted) /\ Range(result.posted) = {message}
  BY <1>5, OneIs
<1> QED
  BY <1>1, <1>3, <1>4, <1>6, ApplyHolds

LEMMA QuietHolds ==
    ASSUME IsSeq(sent), cfg' = cfg, NEW c, NEW event, NEW waiting, NEW asked,
           Apply(Result(http, <<>>, <<>>, event), c, waiting), Sound(c, asked),
           ~cfg.noInit => Holds(c) /\ SentItemless
    PROVE  ItemsInv'
<1> DEFINE result == Result(http, <<>>, <<>>, event)
<1>1. result.posted = <<>>
  BY DEF Result
<1> HIDE DEF result
<1>2. IsSeq(result.posted) /\ Range(result.posted) = {}
  BY <1>1, EmptyIs
<1>3. Apply(result, c, waiting)
  BY DEF result
<1> QED
  BY <1>2, <1>3, ApplyHolds

LEMMA StartSyncHolds == IInv /\ ItemsInv /\ StartSync => ItemsInv'
<1> SUFFICES ASSUME IInv, ItemsInv, StartSync PROVE ItemsInv'
  OBVIOUS
<1> DEFINE auth == SetSessionParams(cfg.type, cfg.password, cfg.nonce, "", NoNonce)
           state == IF cfg.noInit THEN "SENDING_ITEMS" ELSE "LOCAL_INIT"
           prepared == [NoSession EXCEPT !.auth = auth, !.state = state]
           composed == ComposeClientInitialization(prepared, clientNonce)
           unused == NewTransport(cfg.attempts)
           h == InitTransport(IF cfg.prepared THEN InitTransport(unused) ELSE unused)
<1>1. SendAndReceive(composed, h, <<>>) /\ cfg' = cfg
  BY DEF StartSync
<1>2. sent = <<>> /\ IsSeq(sent) /\ cfg \in Configs
  BY DEF StartSync, IInv, IdleInv, TypeOK
<1>3. /\ ClientHas \subseteq DOMAIN prepared /\ prepared.auth = auth /\ prepared.state = state
      /\ prepared.queue = <<>> /\ ~prepared.syncFinished /\ ~prepared.sessionClosed
  BY DEF NoSession, ClientHas
<1>4. AuthHas \subseteq DOMAIN auth /\ auth.authType = cfg.type
  BY DEF SetSessionParams, AuthHas
<1>5. state # "OPEN" /\ (~cfg.noInit => state # "SENDING_ITEMS")
  OBVIOUS
<1> HIDE DEF prepared, auth, state, h
<1>6. IsClient(prepared) /\ Over(prepared)
  BY <1>3, <1>4, EmptyIs DEF IsClient, Over
<1>7. Range(prepared.queue) = {} /\ Len(prepared.queue) = 0
  BY <1>3, EmptyIs
<1>8. Sound(prepared, {})
  BY <1>3, <1>4, <1>6, <1>7 DEF Creds, Sound
<1>9. Sound(composed, {}) /\ composed.state = state
  BY <1>3, <1>8, ComposeSound
<1>10. ~cfg.noInit => Holds(composed)
  BY <1>3, <1>5, <1>6, <1>7, ComposeWaits DEF Holds, Itemless
<1>11. SentItemless
  BY <1>2, EmptyIs DEF SentItemless
<1> HIDE DEF composed
<1> QED
  BY <1>1, <1>2, <1>5, <1>9, <1>10, <1>11, SendHolds

LEMMA RequestFinishedHolds == IInv /\ ItemsInv /\ RequestFinished => ItemsInv'
<1> SUFFICES ASSUME IInv, ItemsInv, RequestFinished PROVE ItemsInv'
  OBVIOUS
<1> DEFINE r == Head(events).what
           result == HttpRequestFinished(http, r)
<1>1. /\ events # <<>> /\ Head(events).slot = "httpRequestFinished" /\ cfg' = cfg
      /\ Apply(result, client, Tail(events))
  BY DEF RequestFinished
<1>2. /\ client.state # "NONE" /\ Sound(client, Asked(sent))
      /\ IsEvent(Head(events), Session, accepted)
  BY <1>1, BusyIs
<1>3. IsSeq(r.data)
  BY <1>1, <1>2 DEF IsEvent, AllTrusted
<1>4. First(http, events, sent) /\ IsTransport(http) /\ IsSeq(sent)
  BY <1>2 DEF IInv, GoingInv, TypeOK
<1> HIDE DEF r
<1>5. /\ result.posted \in {<<>>, http.firstMessage}
      /\ result.posted # <<>> => ~http.firstMessageSent
  BY <1>3, <1>4, FinishedIs
<1> HIDE DEF result
<1>6. IsSeq(result.posted) /\ Range(result.posted) \subseteq Range(sent)
  <2>1. CASE result.posted = <<>>
    BY <2>1, EmptyIs
  <2>2. CASE result.posted # <<>>
    <3>1. PICK m \in Range(sent) : http.firstMessage = <<m>>
      BY <1>4, <1>5, <2>2 DEF First
    <3> QED
      BY <1>5, <2>2, <3>1, OneIs
  <2> QED
    BY <2>1, <2>2
<1> QED
  BY <1>1, <1>2, <1>4, <1>6, ApplyHolds DEF ItemsInv, SentItemless

LEMMA HandleParsingCompleteHolds == IInv /\ ItemsInv /\ HandleParsingComplete => ItemsInv'
<1> SUFFICES ASSUME IInv, ItemsInv, HandleParsingComplete PROVE ItemsInv'
  OBVIOUS
<1> DEFINE reply == Head(events).what
           nonce == NextNonce(reply.status, clientNonce)
           done == ProcessMessage(client, reply, nonce)
           over == ExitSync(done)
<1>1. /\ events # <<>> /\ cfg' = cfg
      /\ \/ /\ done.state \in {"LOCAL_INIT", "REMOTE_INIT", "SENDING_ITEMS"}
            /\ SendAndReceive(done, http, Tail(events))
         \/ Apply(Result(http, <<>>, <<>>, "NONE"), over, Tail(events))
  BY DEF HandleParsingComplete
<1>2. /\ client.state # "NONE" /\ Sound(client, Asked(sent))
      /\ IsSeq(sent) /\ cfg \in Configs
  BY <1>1, BusyIs DEF IInv, TypeOK
<1> HIDE DEF reply, nonce
<1>3. Sound(done, Asked(sent))
  BY <1>2, ProcessSound
<1>4. ~cfg.noInit => Waits(done) /\ SentItemless
  BY <1>2, ProcessWaits DEF ItemsInv, Holds, Waits
<1> HIDE DEF done
<1>5. Sound(over, Asked(sent)) /\ (~cfg.noInit => Holds(over))
  BY <1>3, <1>4, ExitSound, ExitHolds DEF Sound
<1> HIDE DEF over
<1>6. CASE /\ done.state \in {"LOCAL_INIT", "REMOTE_INIT", "SENDING_ITEMS"}
           /\ SendAndReceive(done, http, Tail(events))
  <2>1. done.state \in Going /\ done.state # "OPEN"
    BY <1>6 DEF Going
  <2>2. ~cfg.noInit => Holds(done)
    BY <1>3, <1>4, <2>1 DEF Sound, Over, Waits, Holds
  <2> QED
    BY <1>1, <1>2, <1>3, <1>4, <1>6, <2>1, <2>2, SendHolds
<1>7. CASE Apply(Result(http, <<>>, <<>>, "NONE"), over, Tail(events))
  BY <1>1, <1>2, <1>4, <1>5, <1>7, QuietHolds
<1> QED
  BY <1>1, <1>6, <1>7

LEMMA AuthRequiredHolds == IInv /\ ItemsInv /\ AuthRequired => ItemsInv'
<1> SUFFICES ASSUME IInv, ItemsInv, AuthRequired PROVE ItemsInv'
  OBVIOUS
<1>1. /\ events # <<>> /\ cfg' = cfg
      /\ Apply(Result(http, <<>>, <<>>, "TRANSPORT_CONNECTION_AUTHENTICATION_NEEDED"),
               client, Tail(events))
  BY DEF AuthRequired
<1>2. Sound(client, Asked(sent)) /\ IsSeq(sent)
  BY <1>1, BusyIs DEF IInv, TypeOK
<1> QED
  BY <1>1, <1>2, QuietHolds DEF ItemsInv

\* A session that is over leaves nothing queued and nothing sent
LEMMA NothingHeld == Holds(NoSession) /\ (sent = <<>> => SentItemless)
<1>1. NoSession.state = "NONE" /\ NoSession.queue = <<>>
  BY DEF NoSession
<1> QED
  BY <1>1, EmptyIs DEF Holds, Itemless, SentItemless

LEMMA EndSessionHolds == EndSession => ItemsInv'
<1>1. EndSession => client' = NoSession /\ sent' = <<>>
  BY DEF EndSession
<1>2. sent' = <<>> => SentItemless'
  BY EmptyIs DEF SentItemless
<1> QED
  BY <1>1, <1>2, NothingHeld DEF ItemsInv, Holds, Itemless

LEMMA StillHolds == ItemsInv /\ UNCHANGED <<cfg, client, sent>> => ItemsInv'
  BY DEF ItemsInv, Holds, Itemless, SentItemless

LEMMA NextItems == IInv /\ ItemsInv /\ [Next]_vars => ItemsInv'
<1> SUFFICES ASSUME IInv, ItemsInv, [Next]_vars PROVE ItemsInv'
  OBVIOUS
<1>1. CASE StartSync
  BY <1>1, StartSyncHolds
<1>2. CASE RequestFinished
  BY <1>2, RequestFinishedHolds
<1>3. CASE AuthRequired
  BY <1>3, AuthRequiredHolds
<1>4. CASE HandleParsingComplete
  BY <1>4, HandleParsingCompleteHolds
<1>5. CASE EndSession
  BY <1>5, EndSessionHolds
<1>6. ASSUME NEW i \in DOMAIN posts, Serve(i) \/ Deliver(i) \/ Fail(i) PROVE ItemsInv'
  <2>1. UNCHANGED <<cfg, client, sent>>
    BY <1>6, Zenon DEF Serve, Deliver, Fail
  <2> QED
    BY <2>1, StillHolds
<1>7. CASE UNCHANGED vars
  BY <1>7, StillHolds DEF vars
<1> QED
  BY <1>1, <1>2, <1>3, <1>4, <1>5, <1>6, <1>7 DEF Next, ClientStep, Request

LEMMA ItemsInvariant == Spec => []ItemsInv
<1>1. Init => ItemsInv
  BY NothingHeld DEF Init, ItemsInv
<1> QED
  BY <1>1, NextItems, OpeningInvariant, PTL DEF Spec

(***************************************************************************)
(* No session gets behind its initialization with a server that has not    *)
(* accepted the client in that session, however many requests are lost,    *)
(* repeated or answered late, and a client that sends an initialization    *)
(* neither composes nor sends items before (handleStatusElement,           *)
(* handleFinal, resendPackage, abortSync).                                 *)
(***************************************************************************)
THEOREM AcceptedBeforeOpen == Spec => []AcceptedFirst
<1>1. IInv /\ ItemsInv => AcceptedFirst
  <2> SUFFICES ASSUME IInv, ItemsInv, ~cfg.noInit, ItemsOut PROVE Session \in accepted
    BY DEF IInv, AcceptedFirst
  <2>1. client.state = "OPEN"
    BY DEF ItemsInv, ItemsOut, Holds, Itemless, SentItemless
  <2> QED
    BY <2>1 DEF IInv, OpensAccepted
<1> QED
  BY <1>1, OpeningInvariant, ItemsInvariant, PTL

(***************************************************************************)
(* A password is sent as it is only by a user who chose so, and never in a *)
(* session that has come to MD5 (handleChallenge, composeAuthentication),  *)
(* whatever is queued when a challenge arrives and whatever is sent again. *)
(***************************************************************************)
THEOREM NeverDowngraded == Spec => []NoDowngrade
<1>1. IInv => NoDowngrade
  BY DEF IInv
<1> QED
  BY <1>1, OpeningInvariant, PTL

-----------------------------------------------------------------------------
(***************************************************************************)
(* Who has the right password.  A session that nothing disturbs is one     *)
(* message under way at a time, with the credentials the client has for    *)
(* it now, and one answer: it is accepted, or challenged once, and then    *)
(* the server holds the nonce of the challenge too.                        *)
(***************************************************************************)
Quiet(k) == k \notin Range(hurt)
Settled  == Quiet(Session - 1)
Welcomed == Welcome /\ ~cfg.prepared

\* Between two sessions there is nothing under way, and what has the number of
\* a session is of one that was started
Idle == sent = <<>>
Before(k) == k \in Nat /\ (IF Idle THEN k < Session ELSE k <= Session)
OrderInv ==
    /\ Idle => posts = <<>> /\ events = <<>> /\ client.state = "NONE"
    /\ IsSeq(hurt) /\ \A k \in Range(hurt) : Before(k)
    /\ server.issued \in Nat /\ Before(server.session)
    /\ server.last # <<>> => Before(server.last[1].session)

\* The nonces: a client without one is given one by the first challenge
Known    == cfg.type = "MD5" => clientNonce \in {NoNonce, server.nonce}
Agreed   == cfg.type = "MD5" => clientNonce = server.nonce
StartInv == Welcomed /\ Idle /\ Settled => Known

\* A server that has rejected the client, and waits for the right digest
ServerAuthHas == AuthHas \cup {"localPassword"}
Waiting(a) ==
    /\ ServerAuthHas \subseteq DOMAIN a /\ ~a.remoteAuthed
    /\ a.localNonce = NoNonce /\ a.localPassword = "right"
Demanding == server.session = Session /\ Waiting(server.auth)

\* A client that waits for the answer to its first or its second message
ClientAuthHas == AuthHas \cup {"remotePassword", "remoteNonce"}
Guessing ==
    /\ client.auth.authType = cfg.type
    /\ client.auth.remoteAuthPending => cfg.type = "BASIC" \/ clientNonce # NoNonce
Ready ==
    /\ client.state = "LOCAL_INIT" /\ client.queue = <<>>
    /\ ~client.syncFinished /\ ~client.sessionClosed
    /\ ClientAuthHas \subseteq DOMAIN client.auth
    /\ client.auth.remotePassword = "right" /\ client.auth.remoteNonce = NoNonce
    /\ \/ client.msgId = 1 /\ Guessing
       \/ client.msgId = 2 /\ client.auth.authType = "MD5"
    /\ http.connections = 1 /\ http.incomingData = <<>>

Credentials(type, nonce) == IF type = "NONE" THEN NoCred ELSE Encoded(type, "right", nonce)

\* Its message, which the server has not seen
IsMessage(m) ==
    /\ m.id = client.msgId /\ Contains(m.parts, "Final")
    /\ m.cred = Credentials(client.auth.authType, clientNonce)
Unserved ==
    /\ server.last # <<>> =>
           server.last[1].session # Session \/ server.last[1].id # client.msgId
    /\ client.msgId = 1 /\ Settled => Known
    /\ client.msgId = 2 => clientNonce = server.nonce /\ clientNonce # NoNonce /\ Demanding

\* The answers
Good(r) ==
    /\ r.status.data \in {"SUCCESS", "AUTH_ACCEPTED"} /\ r.alerts /\ r.final
    /\ cfg.type = "MD5" =>
           r.status.data = "AUTH_ACCEPTED" /\ r.status.chal.nonce = server.nonce
Bad(r) ==
    /\ client.msgId = 1 /\ cfg.type # "NONE" /\ r.status.data \in Rejections
    /\ r.status.chal = MD5Challenge(server.nonce) /\ server.nonce # NoNonce
    /\ ~r.alerts /\ ~r.final /\ Demanding
    /\ server.last # <<>> /\ server.last[1].id = 1
    /\ Settled /\ cfg.type = "MD5" => ~client.auth.remoteAuthPending
Verdict(r) == Good(r) \/ Bad(r)

\* Where the message is, or the answer
AtServer ==
    /\ events = <<>> /\ http.handleIncomingData
    /\ \E p : /\ posts = <<p>> /\ PostHas \subseteq DOMAIN p
              /\ p.session = Session /\ ~p.abandoned /\ IsMessage(p.message)
              /\ \/ p.reply = <<>> /\ Unserved
                 \/ \E r : p.reply = <<r>> /\ Verdict(r)
AtTransport ==
    /\ posts = <<>> /\ http.handleIncomingData
    /\ \E r : /\ events = <<[slot |-> "httpRequestFinished", what |-> Answered(r)]>>
              /\ Verdict(r)
AtParser ==
    /\ posts = <<>>
    /\ \E r : /\ events = <<[slot |-> "handleParsingComplete", what |-> r]>>
              /\ Verdict(r)
Ended ==
    /\ posts = <<>> /\ events = <<>> /\ Agreed
    /\ \/ client.state = "OPEN"
       \/ client.state = "AUTHENTICATION_FAILURE" /\ client.sessionClosed /\ ~Settled

CalmInv ==
    Welcomed /\ Quiet(Session) /\ ~Idle =>
        Ended \/ (Ready /\ (AtServer \/ AtTransport \/ AtParser))

ResultsInv == Welcomed => RightPasswordOpens

WelcomeInv == IInv /\ OrderInv /\ StartInv /\ CalmInv /\ ResultsInv

-----------------------------------------------------------------------------
(***************************************************************************)
(* The verdict on the credentials of a welcome client.                     *)
(***************************************************************************)
Approved(v) ==
    /\ v.auth.remoteAuthed /\ v.status.data \in {"SUCCESS", "AUTH_ACCEPTED"}
    /\ cfg.type = "MD5" => v.status.data = "AUTH_ACCEPTED" /\ v.status.chal.nonce = v.nonce
Challenged(v, fresh) ==
    /\ Waiting(v.auth) /\ v.status.data \in Rejections
    /\ v.status.chal = MD5Challenge(fresh) /\ v.nonce = fresh

LEMMA AnswerHas ==
    ASSUME NEW a, NEW data, NEW chal, NEW nonce, NEW outcome
    PROVE  LET v == Answer(a, data, chal, nonce, outcome)
           IN /\ v.auth = a /\ v.status.data = data /\ v.status.chal = chal /\ v.nonce = nonce
              /\ DOMAIN v = {"auth", "status", "nonce", "outcome"}
              /\ DOMAIN v.status = {"data", "chal"}
BY DEF Answer

\* A digest with the nonce of the server, or with another
LEMMA DigestJudged ==
    ASSUME NEW a, ServerAuthHas \subseteq DOMAIN a, ~a.remoteAuthed, a.localNonce = NoNonce,
           a.localPassword = "right", NEW nonce, NEW stored, NEW fresh,
           nonce = stored \/ ~a.localAuthPending
    PROVE  LET v == AnalyzeHeader(a, Encoded("MD5", "right", nonce), stored, fresh)
           IN IF nonce = stored THEN Approved(v) ELSE Challenged(v, fresh)
<1> DEFINE cred == Encoded("MD5", "right", nonce)
           raised == [a EXCEPT !.authType = "MD5", !.localNonce = NoNonce]
           v == AnalyzeHeader(a, cred, stored, fresh)
<1>1. cred.type = "MD5" /\ cred.nonce = nonce /\ cred # NoCred
      /\ (cred = Encoded("MD5", "right", stored) <=> nonce = stored)
  BY DEF Encoded, NoCred
<1>2. LocalNonce(a, stored) = stored
  BY DEF LocalNonce
<1>3. v = HandleMD5(a, cred, stored, fresh)
  BY <1>1 DEF AnalyzeHeader, HandleAuthentication
<1>4. DOMAIN raised = DOMAIN a /\ raised.localNonce = NoNonce /\ raised.localPassword = "right"
  BY DEF ServerAuthHas, AuthHas
<1> HIDE DEF cred, raised
<1>5. CASE nonce = stored
  <2>1. v = Answer(Accept(raised), "AUTH_ACCEPTED", MD5Challenge(fresh), fresh, "OK")
    BY <1>1, <1>2, <1>3, <1>5 DEF HandleMD5, raised
  <2>2. Accept(raised).remoteAuthed
    BY <1>4 DEF Accept, ServerAuthHas, AuthHas
  <2>3. MD5Challenge(fresh).nonce = fresh
    BY DEF MD5Challenge
  <2> HIDE DEF v
  <2>4. /\ v.auth = Accept(raised) /\ v.status.data = "AUTH_ACCEPTED"
        /\ v.status.chal = MD5Challenge(fresh) /\ v.nonce = fresh
    BY <2>1, AnswerHas
  <2>5. Approved(v)
    BY <2>2, <2>3, <2>4 DEF Approved
  <2> QED
    BY <1>5, <2>5 DEF v, cred
<1>6. CASE nonce # stored
  <2>1. v = Answer(Demand(raised), "INVALID_CRED", MD5Challenge(fresh), fresh, "OK")
    BY <1>1, <1>2, <1>3, <1>6 DEF HandleMD5, raised
  <2>2. Waiting(Demand(raised))
    BY <1>4 DEF Waiting, Demand, ServerAuthHas, AuthHas
  <2> HIDE DEF v
  <2>3. /\ v.auth = Demand(raised) /\ v.status.data = "INVALID_CRED"
        /\ v.status.chal = MD5Challenge(fresh) /\ v.nonce = fresh
    BY <2>1, AnswerHas
  <2>4. Challenged(v, fresh)
    BY <2>2, <2>3 DEF Challenged, Rejections
  <2> QED
    BY <1>6, <2>4 DEF v, cred
<1> QED
  BY <1>5, <1>6

\* What a strict server makes of credentials
LEMMA StrictJudged ==
    ASSUME cfg.server = "strict", NEW s, ServerAuthHas \subseteq DOMAIN s.auth,
           ~s.auth.remoteAuthed, s.auth.localNonce = NoNonce, s.auth.localPassword = "right",
           s.auth.authType = "MD5" \/ s.auth.authType = cfg.demands,
           cfg.demands \in {"BASIC", "MD5"},
           NEW type \in {"BASIC", "MD5"}, type = "BASIC" \/ s.auth.authType = "MD5",
           cfg.type = "MD5" => type = "MD5",
           NEW nonce, NEW fresh, NEW v \in Verdicts(s, Encoded(type, "right", nonce), fresh)
    PROVE  \/ Approved(v)
           \/ Challenged(v, fresh) /\ (type = "MD5" => nonce # s.nonce \/ nonce = NoNonce)
<1> DEFINE cred == Encoded(type, "right", nonce)
           bad == [Missing(s, fresh) EXCEPT !.status.data = "INVALID_CRED"]
<1>1. /\ cred.type = type /\ cred # NoCred
      /\ type = "MD5" => (cred = Encoded(type, "right", s.nonce) <=> nonce = s.nonce)
      /\ type = "BASIC" => cred = Encoded(type, "right", s.nonce)
  BY DEF Encoded, NoCred
<1> HIDE DEF cred
<1>2. v = IF Convincing(s, cred)
          THEN Answer(Accept(s.auth), "AUTH_ACCEPTED",
                      IF cred.type = "MD5" THEN MD5Challenge(fresh) ELSE NoChal,
                      IF cred.type = "MD5" THEN fresh ELSE s.nonce, "OK")
          ELSE bad
  BY <1>1 DEF Verdicts, cred
<1>3. CASE Convincing(s, cred)
  <2>1. /\ v.auth = Accept(s.auth) /\ v.status.data = "AUTH_ACCEPTED"
        /\ type = "MD5" => v.status.chal = MD5Challenge(fresh) /\ v.nonce = fresh
    BY <1>1, <1>2, <1>3, AnswerHas
  <2>2. Accept(s.auth).remoteAuthed
    BY DEF Accept, ServerAuthHas, AuthHas
  <2>3. MD5Challenge(fresh).nonce = fresh
    BY DEF MD5Challenge
  <2> QED
    BY <2>1, <2>2, <2>3 DEF Approved
<1>4. CASE ~Convincing(s, cred)
  <2>1. s.auth.authType = "MD5" /\ (type = "MD5" => nonce # s.nonce \/ nonce = NoNonce)
    BY <1>1, <1>4 DEF Convincing
  <2>2. Missing(s, fresh) = Answer(s.auth, "MISSING_CRED", MD5Challenge(fresh), fresh, "OK")
    BY <2>1 DEF Missing, ChallengeFor
  <2>3. /\ v.auth = s.auth /\ v.status.data = "INVALID_CRED"
        /\ v.status.chal = MD5Challenge(fresh) /\ v.nonce = fresh
    BY <1>2, <1>4, <2>2, AnswerHas
  <2>4. Challenged(v, fresh)
    BY <2>3 DEF Challenged, Waiting, Rejections
  <2> QED
    BY <2>1, <2>4
<1> QED
  BY <1>3, <1>4

\* What the server answers if it need not ask for credentials first
LEMMA VerdictsOf ==
    ASSUME NEW s, NEW cred, NEW fresh, NEW v \in Verdicts(s, cred, fresh),
           cred # NoCred \/ s.auth.remoteAuthed
    PROVE  /\ cfg.server = "class" => v = AnalyzeHeader(s.auth, cred, s.nonce, fresh)
           /\ cfg.server = "strict" /\ s.auth.remoteAuthed =>
                  v = Answer(s.auth, "SUCCESS", NoChal, s.nonce, "OK")
<1>1. CASE cfg.server = "class"
  BY <1>1 DEF Verdicts
<1>2. CASE cfg.server = "strict" /\ s.auth.remoteAuthed
  BY <1>2 DEF Verdicts
<1> QED
  BY <1>1, <1>2

\* The first message: accepted, or challenged if the nonces differ
LEMMA FirstVerdict ==
    ASSUME Welcome, cfg \in Configs, NEW s,
           s.auth = SetSessionParams(cfg.demands, "", NoNonce,
                                     IF cfg.demands = "NONE" THEN "" ELSE "right", NoNonce),
           NEW nonce, NEW fresh,
           NEW v \in Verdicts(s, Credentials(cfg.type, nonce), fresh)
    PROVE  \/ Approved(v)
           \/ /\ Challenged(v, fresh) /\ cfg.type # "NONE"
              /\ cfg.type = "MD5" => nonce # s.nonce \/ nonce = NoNonce
<1> DEFINE local == IF cfg.demands = "NONE" THEN "" ELSE "right"
           a == s.auth
           cred == Credentials(cfg.type, nonce)
<1>1. /\ cfg.type \in {"NONE", "BASIC", "MD5"} /\ cfg.demands \in {"NONE", "BASIC", "MD5"}
      /\ cfg.server \in {"class", "strict"}
      /\ \/ cfg.type = cfg.demands
         \/ cfg.server = "strict" /\ cfg.type = "BASIC"
         \/ cfg.server = "class" /\ cfg.type = "MD5" /\ cfg.demands = "BASIC"
  BY KindAssumption DEF Welcome, AuthTypes
<1>2. /\ ServerAuthHas \subseteq DOMAIN a /\ a.authType = cfg.demands
      /\ a.localNonce = NoNonce /\ a.localPassword = local /\ ~a.localAuthPending
      /\ (a.remoteAuthed <=> cfg.demands = "NONE")
  <2>1. local = "" <=> cfg.demands = "NONE"
    BY <1>1
  <2> HIDE DEF local
  <2>2. a = SetSessionParams(cfg.demands, "", NoNonce, local, NoNonce)
    BY DEF local
  <2> HIDE DEF a
  <2> QED
    BY <2>1, <2>2 DEF SetSessionParams, ServerAuthHas, AuthHas
<1> HIDE DEF a
<1>3. CASE a.remoteAuthed
  <2>1. cfg.demands = "NONE" /\ cfg.type # "MD5"
    BY <1>1, <1>2, <1>3
  <2>2. CASE cfg.server = "strict"
    <3>1. v = Answer(a, "SUCCESS", NoChal, s.nonce, "OK")
      <4>1. v \in Verdicts(s, cred, fresh) /\ s.auth.remoteAuthed /\ cfg.server = "strict"
        BY <1>3, <2>2 DEF a
      <4> HIDE DEF cred
      <4>2. v = Answer(s.auth, "SUCCESS", NoChal, s.nonce, "OK")
        BY ONLY <4>1, VerdictsOf
      <4> QED
        BY <4>2 DEF a
    <3>2. v.auth = a /\ v.status.data = "SUCCESS"
      BY <3>1 DEF Answer
    <3> QED
      BY <1>3, <2>1, <3>2 DEF Approved
  <2>3. CASE cfg.server = "class"
    <3>1. cfg.type = "NONE" /\ cred = NoCred
      BY <1>1, <2>1, <2>3 DEF Credentials
    <3>2. v = AnalyzeHeader(a, cred, s.nonce, fresh)
      BY <1>3, <2>3, VerdictsOf DEF a
    <3>3. v = Answer(a, "SUCCESS", NoChal, s.nonce, "NOT_HANDLED")
      BY <3>1, <3>2 DEF AnalyzeHeader
    <3>4. v.auth = a /\ v.status.data = "SUCCESS"
      BY <3>3 DEF Answer
    <3> QED
      BY <1>3, <2>1, <3>4 DEF Approved
  <2> QED
    BY <1>1, <2>2, <2>3
<1>4. CASE ~a.remoteAuthed
  <2>1. cfg.demands # "NONE" /\ cfg.type \in {"BASIC", "MD5"} /\ a.localPassword = "right"
    BY <1>1, <1>2, <1>4
  <2>2. cred = Encoded(cfg.type, "right", nonce) /\ cred # NoCred /\ cred.type = cfg.type
    BY <2>1 DEF Credentials, Encoded, NoCred
  <2>3. CASE cfg.server = "strict"
    <3>1. cfg.type = "BASIC" \/ a.authType = "MD5"
      BY <1>1, <1>2, <2>1, <2>3
    <3>2. \/ Approved(v)
          \/ Challenged(v, fresh) /\ (cfg.type = "MD5" => nonce # s.nonce \/ nonce = NoNonce)
      BY <1>1, <1>2, <1>4, <2>1, <2>2, <2>3, <3>1, StrictJudged DEF a
    <3> QED
      BY <2>1, <3>2
  <2>4. CASE cfg.server = "class"
    <3>1. v = AnalyzeHeader(a, cred, s.nonce, fresh)
      BY <2>2, <2>4, VerdictsOf DEF a
    <3>2. CASE cfg.type = "MD5"
      <4>1. IF nonce = s.nonce THEN Approved(v) ELSE Challenged(v, fresh)
        BY <1>2, <1>4, <2>1, <2>2, <3>1, <3>2, DigestJudged
      <4> QED
        BY <2>1, <4>1
    <3>3. CASE cfg.type = "BASIC"
      <4>1. a.authType = "BASIC"
        BY <1>1, <1>2, <2>4, <3>3
      <4>2. cred = Encoded("BASIC", a.localPassword, NoNonce)
        BY <2>1, <2>2, <3>3 DEF Encoded
      <4>3. v = HandleBasic(a, cred, s.nonce)
        BY <1>4, <2>2, <3>1, <3>3 DEF AnalyzeHeader, HandleAuthentication
      <4>4. v = Answer(Accept(a), "AUTH_ACCEPTED", NoChal, s.nonce, "OK")
        BY <4>1, <4>2, <4>3 DEF HandleBasic
      <4>5. v.auth = Accept(a) /\ v.status.data = "AUTH_ACCEPTED"
        BY <4>4 DEF Answer
      <4>6. Accept(a).remoteAuthed
        BY <1>2 DEF Accept, ServerAuthHas, AuthHas
      <4> QED
        BY <3>3, <4>5, <4>6 DEF Approved
    <3> QED
      BY <2>1, <3>2, <3>3
  <2> QED
    BY <1>1, <2>3, <2>4
<1> QED
  BY <1>3, <1>4

\* The answer to a challenge: accepted
LEMMA SecondVerdict ==
    ASSUME Welcome, cfg \in Configs, NEW s, Waiting(s.auth), s.nonce # NoNonce, NEW fresh,
           NEW v \in Verdicts(s, Credentials("MD5", s.nonce), fresh)
    PROVE  Approved(v)
<1> DEFINE a == s.auth
           cred == Encoded("MD5", "right", s.nonce)
<1>1. cfg.server \in {"class", "strict"}
  BY KindAssumption DEF Welcome
<1>2. Credentials("MD5", s.nonce) = cred /\ cred # NoCred /\ cred.type = "MD5"
  BY DEF Credentials, Encoded, NoCred
<1>3. /\ ServerAuthHas \subseteq DOMAIN a /\ ~a.remoteAuthed
      /\ a.localNonce = NoNonce /\ a.localPassword = "right"
  BY DEF Waiting
<1> HIDE DEF cred, a
<1>4. CASE cfg.server = "class"
  <2>1. v = AnalyzeHeader(a, cred, s.nonce, fresh)
    BY <1>2, <1>4, VerdictsOf DEF a
  <2> QED
    BY <1>3, <2>1, DigestJudged DEF cred
<1>5. CASE cfg.server = "strict"
  <2>1. Convincing(s, cred)
    BY <1>2 DEF Convincing, cred
  <2>2. v = Answer(Accept(a), "AUTH_ACCEPTED", MD5Challenge(fresh), fresh, "OK")
    BY <1>2, <1>3, <1>5, <2>1 DEF Verdicts, a
  <2>3. /\ v.auth = Accept(a) /\ v.status.data = "AUTH_ACCEPTED"
        /\ v.status.chal = MD5Challenge(fresh) /\ v.nonce = fresh
    BY <2>2, AnswerHas
  <2>4. Accept(a).remoteAuthed /\ MD5Challenge(fresh).nonce = fresh
    BY <1>3 DEF Accept, ServerAuthHas, AuthHas, MD5Challenge
  <2> QED
    BY <2>3, <2>4 DEF Approved
<1> QED
  BY <1>1, <1>4, <1>5

-----------------------------------------------------------------------------
(***************************************************************************)
(* The initialization of a welcome client: one message, all of it.         *)
(***************************************************************************)
LEMMA AppendedIs ==
    ASSUME NEW x, NEW y, NEW z
    PROVE  /\ <<>> \o <<x>> = <<x>> /\ <<x>> \o <<y>> = <<x, y>>
           /\ <<x, y>> \o <<z>> = <<x, y, z>>
<1>1. IsSeq(<<x>>) /\ IsSeq(<<x, y>>)
  <2> DEFINE S == {x, y}
  <2>1. <<x>> \in Seq(S) /\ <<x, y>> \in Seq(S)
    OBVIOUS
  <2> HIDE DEF S
  <2> QED
    BY <2>1, AnySeq
<1>2. <<>> \o <<x>> = <<x>>
  BY <1>1, NoneIs
<1>3. <<x>> \o <<y>> = <<x, y>>
  <2> DEFINE s == <<x>>
             u == s \o <<y>>
  <2>1. /\ Len(s) = 1 /\ 1 \in 1 .. Len(<<y>>) /\ <<y>>[1] = y
        /\ s[1] = x
        /\ 1 \in 1 .. 1
    OBVIOUS
  <2> HIDE DEF s
  <2>2. IsSeq(u) /\ Len(u) = 2 /\ u[1] = x /\ u[2] = y
    BY <1>1, <2>1, OneIs, JoinIs DEF s
  <2>3. DOMAIN u = 1 .. 2
    BY <2>2, SeqIs
  <2> HIDE DEF u
  <2>4. u = <<x, y>>
    BY <2>2, <2>3 DEF IsSeq
  <2> QED
    BY <2>4 DEF u, s
<1>4. <<x, y>> \o <<z>> = <<x, y, z>>
  <2> DEFINE s == <<x, y>>
             u == s \o <<z>>
  <2>1. /\ Len(s) = 2 /\ 1 \in 1 .. Len(<<z>>) /\ <<z>>[1] = z
        /\ s[1] = x /\ s[2] = y
        /\ 1 \in 1 .. 2 /\ 2 \in 1 .. 2
    OBVIOUS
  <2> HIDE DEF s
  <2>2. IsSeq(u) /\ Len(u) = 3 /\ u[1] = x /\ u[2] = y /\ u[3] = z
    BY <1>1, <2>1, OneIs, JoinIs DEF s
  <2>3. DOMAIN u = 1 .. 3
    BY <2>2, SeqIs
  <2> HIDE DEF u
  <2>4. u = <<x, y, z>>
    BY <2>2, <2>3 DEF IsSeq
  <2> QED
    BY <2>4 DEF u, s
<1> QED
  BY <1>2, <1>3, <1>4

LEMMA FourthIs ==
    ASSUME NEW x, NEW y, NEW z, NEW w
    PROVE  <<x, y, z>> \o <<w>> = <<x, y, z, w>>
<1>1. IsSeq(<<x, y, z>>)
  <2> DEFINE S == {x, y, z}
  <2>1. <<x, y, z>> \in Seq(S)
    OBVIOUS
  <2> HIDE DEF S
  <2> QED
    BY <2>1, AnySeq
<1>2. <<x, y, z>> \o <<w>> = <<x, y, z, w>>
  <2> DEFINE s == <<x, y, z>>
             u == s \o <<w>>
  <2>1. /\ Len(s) = 3 /\ 1 \in 1 .. Len(<<w>>) /\ <<w>>[1] = w
        /\ s[1] = x /\ s[2] = y /\ s[3] = z
        /\ 1 \in 1 .. 3 /\ 2 \in 1 .. 3 /\ 3 \in 1 .. 3
    OBVIOUS
  <2> HIDE DEF s
  <2>2. IsSeq(u) /\ Len(u) = 4 /\ u[1] = x /\ u[2] = y /\ u[3] = z /\ u[4] = w
    BY <1>1, <2>1, OneIs, JoinIs DEF s
  <2>3. DOMAIN u = 1 .. 4
    BY <2>2, SeqIs
  <2> HIDE DEF u
  <2>4. u = <<x, y, z, w>>
    BY <2>2, <2>3 DEF IsSeq
  <2> QED
    BY <2>4 DEF u, s
<1> QED
  BY <1>2

LEMMA WholeQueue ==
    ASSUME cfg \in Configs, cfg.room > 3, NEW q, IsSeq(q), Len(q) \in 1 .. 4
    PROVE  Written(q) = q /\ SubSeq(q, Len(Written(q)) + 1, Len(q)) = <<>>
<1>1. cfg.room \in Nat
  BY RoomAssumption
<1> DEFINE n == Len(q)
           room == cfg.room
<1>2. n \in 1 .. 4 /\ room \in Nat /\ room > 3
  BY <1>1
<1>3. Written(q) = SubSeq(q, 1, IF n < room THEN n ELSE room)
  BY DEF Written
<1>4. q \in Seq(Range(q)) /\ n \in Nat
  BY <1>2 DEF IsSeq
<1>5. SubSeq(q, 1, n) = q
  BY <1>4, SubSeqFull
<1>6. SubSeq(q, n + 1, n) = <<>>
  BY <1>4, SubSeqEmpty
<1>7. (IF n < room THEN n ELSE room) = n
  <2> HIDE DEF n, room
  <2> QED
    BY <1>2
<1> QED
  BY <1>3, <1>5, <1>6, <1>7

LEMMA PackageIs ==
    ASSUME Welcome, NEW c, NEW nonce, ~c.devInfSent
    PROVE  InitializationPackage(c, nonce) =
               IF c.auth.authType = "NONE"
               THEN <<Package("DevInf"), Package("Alert"), Package("Final")>>
               ELSE <<CredPackage(Encoded(c.auth.authType, c.auth.remotePassword,
                                          NonceToSend(c.auth, nonce))),
                      Package("DevInf"), Package("Alert"), Package("Final")>>
<1> DEFINE creds == [i \in DOMAIN ComposedCred(c.auth, nonce) |->
                         CredPackage(ComposedCred(c.auth, nonce)[i])]
           e == Encoded(c.auth.authType, c.auth.remotePassword, NonceToSend(c.auth, nonce))
           p == Package("DevInf")
           a == Package("Alert")
           f == Package("Final")
<1>1. InitializationPackage(c, nonce) = ((creds \o <<p>>) \o <<a>>) \o <<>> \o <<f>>
  BY DEF InitializationPackage, Welcome
<1>2. creds = IF c.auth.authType = "NONE" THEN <<>> ELSE <<CredPackage(e)>>
  BY DEF ComposedCred
<1> HIDE DEF creds, e, p, a, f
<1>3. \A x : /\ ((<<>> \o <<p>>) \o <<a>>) \o <<>> \o <<f>> = <<p, a, f>>
             /\ ((<<x>> \o <<p>>) \o <<a>>) \o <<>> \o <<f>> = <<x, p, a, f>>
  <2> SUFFICES ASSUME NEW x
               PROVE  /\ ((<<>> \o <<p>>) \o <<a>>) \o <<>> \o <<f>> = <<p, a, f>>
                      /\ ((<<x>> \o <<p>>) \o <<a>>) \o <<>> \o <<f>> = <<x, p, a, f>>
    OBVIOUS
  <2>1. <<>> \o <<p>> = <<p>> /\ <<x>> \o <<p>> = <<x, p>>
    BY AppendedIs
  <2>2. <<p>> \o <<a>> = <<p, a>> /\ <<x, p>> \o <<a>> = <<x, p, a>>
    BY AppendedIs
  <2>3. <<p, a>> \o <<>> = <<p, a>> /\ <<x, p, a>> \o <<>> = <<x, p, a>>
    OBVIOUS
  <2>4. <<p, a>> \o <<f>> = <<p, a, f>>
    BY AppendedIs
  <2>5. <<x, p, a>> \o <<f>> = <<x, p, a, f>>
    BY FourthIs
  <2> QED
    BY <2>1, <2>2, <2>3, <2>4, <2>5
<1> QED
  BY <1>1, <1>2, <1>3 DEF e, p, a, f

Composed(c, d, nonce) ==
    /\ d.state = c.state /\ d.queue = <<>> /\ d.msgId = c.msgId + 1
    /\ d.syncFinished = c.syncFinished /\ d.sessionClosed = c.sessionClosed
    /\ ClientAuthHas \subseteq DOMAIN d.auth
    /\ d.auth.authType = c.auth.authType
    /\ d.auth.remotePassword = "right" /\ d.auth.remoteNonce = NoNonce
    /\ d.auth.remoteAuthPending =>
           c.auth.remoteAuthPending \/ c.auth.authType = "BASIC" \/ nonce # NoNonce

LEMMA InitializationSent ==
    ASSUME Welcome, cfg \in Configs, NEW c, NEW nonce, ~c.devInfSent,
           ClientHas \subseteq DOMAIN c, c.queue = <<>>, ClientAuthHas \subseteq DOMAIN c.auth,
           c.auth.remotePassword = "right", c.auth.remoteNonce = NoNonce
    PROVE  LET asking  == Asking(ComposeClientInitialization(c, nonce))
               message == NextMessage(asking)
           IN /\ message.id = c.msgId + 1 /\ Contains(message.parts, "Final")
              /\ message.cred = Credentials(c.auth.authType, nonce)
              /\ Composed(c, AfterMessage(asking), nonce)
<1> DEFINE type == c.auth.authType
           e == Encoded(type, "right", nonce)
           q == InitializationPackage(c, nonce)
           auth == ComposeAuthentication(c.auth, nonce)
           d == ComposeClientInitialization(c, nonce)
           asking == Asking(d)
           message == NextMessage(asking)
           after == AfterMessage(asking)
<1>1. NonceToSend(c.auth, nonce) = nonce
  BY DEF NonceToSend
<1>2. q = IF type = "NONE"
          THEN <<Package("DevInf"), Package("Alert"), Package("Final")>>
          ELSE <<CredPackage(e), Package("DevInf"), Package("Alert"), Package("Final")>>
  BY <1>1, PackageIs
<1>3. IsSeq(q)
  BY CredsOfClient
<1>4. /\ ClientAuthHas \subseteq DOMAIN auth /\ auth.authType = type
      /\ auth.remotePassword = "right" /\ auth.remoteNonce = NoNonce
      /\ auth.remoteAuthPending =>
             c.auth.remoteAuthPending \/ type = "BASIC" \/ nonce # NoNonce
  BY <1>1 DEF ComposeAuthentication, ClientAuthHas, AuthHas
<1>5. d = [c EXCEPT !.queue = c.queue \o q, !.auth = auth, !.devInfSent = TRUE]
  BY DEF ComposeClientInitialization
<1>6. c.queue \o q = q
  BY <1>3, NoneIs
<1> HIDE DEF type, e, q, auth
<1>7. /\ DOMAIN d = DOMAIN c /\ d.queue = q /\ d.auth = auth /\ d.state = c.state
      /\ d.msgId = c.msgId
      /\ d.syncFinished = c.syncFinished /\ d.sessionClosed = c.sessionClosed
  BY <1>5, <1>6 DEF ClientHas
<1> HIDE DEF d
<1>8. Len(q) \in 1 .. 4 /\ q # <<>>
  BY <1>2
<1>9. Written(q) = q /\ SubSeq(q, Len(Written(q)) + 1, Len(q)) = <<>>
  BY <1>3, <1>8, WholeQueue DEF Welcome
<1>10. asking = d
  BY <1>7, <1>8 DEF Asking
<1>11. after = [d EXCEPT !.msgId = @ + 1, !.queue = <<>>]
  BY <1>7, <1>9, <1>10 DEF AfterMessage
<1>12. /\ message.id = c.msgId + 1 /\ message.cred = CredOf(q) /\ message.parts = Parts(q)
  BY <1>7, <1>9, <1>10 DEF NextMessage
<1> HIDE DEF message, asking, after
<1>13. Composed(c, after, nonce)
  BY <1>4, <1>7, <1>11 DEF Composed, ClientHas, type
<1>14. Contains(Parts(q), "Final")
  <2> DEFINE n == Len(q)
             parts == Parts(q)
  <2>1. DOMAIN q = 1 .. n /\ n \in 1 .. 4 /\ q[n].kind = "Final"
    BY <1>2, <1>3, <1>8, SeqIs DEF Package, CredPackage
  <2>2. parts = [i \in 1 .. n |-> q[i].kind]
    BY <2>1 DEF Parts
  <2> HIDE DEF n, parts
  <2>3. parts = [i \in 1 .. n |-> parts[i]] /\ n \in Nat
    BY <2>1, <2>2
  <2>4. Len(parts) = n /\ n \in 1 .. n /\ parts[n] = "Final"
    BY <2>1, <2>2, <2>3, FunIs
  <2>5. \E i \in 1 .. Len(parts) : parts[i] = "Final"
    BY <2>4
  <2> QED
    BY <2>5 DEF Contains, parts
<1>15. CredOf(q) = Credentials(type, nonce)
  <2> DEFINE creds == {i \in DOMAIN q : q[i].kind = "Cred"}
  <2>1. CASE type = "NONE"
    <3>1. DOMAIN q = 1 .. 3 /\ \A i \in 1 .. 3 : q[i].kind # "Cred"
      BY <1>2, <2>1 DEF Package
    <3>2. creds = {}
      BY <3>1
    <3> QED
      BY <2>1, <3>2 DEF CredOf, Credentials
  <2>2. CASE type # "NONE"
    <3>1. /\ DOMAIN q = 1 .. 4 /\ q[1] = CredPackage(e)
          /\ q[2].kind # "Cred" /\ q[3].kind # "Cred" /\ q[4].kind # "Cred"
      BY <1>2, <2>2 DEF Package
    <3>2. CredPackage(e).kind = "Cred" /\ CredPackage(e).cred = e
      BY DEF CredPackage
    <3>3. creds = {1}
      BY <3>1, <3>2
    <3>4. Max({1}) = 1
      <4>1. {1} \subseteq 1 .. 1 /\ {1} # {}
        OBVIOUS
      <4>2. Max({1}) \in {1}
        BY <4>1, LastPlace
      <4> QED
        BY <4>2
    <3> QED
      BY <2>2, <3>1, <3>2, <3>3, <3>4 DEF CredOf, Credentials, e
  <2> QED
    BY <2>1, <2>2
<1> QED
  BY <1>12, <1>13, <1>14, <1>15 DEF type, message, asking, after, d

-----------------------------------------------------------------------------
(***************************************************************************)
(* The steps of a session that nothing disturbs.                           *)
(***************************************************************************)
ThePost(m) == [message |-> m, session |-> Session, reply |-> <<>>, abandoned |-> FALSE]

LEMMA OnePosted == \A m : Posted(<<m>>) = <<ThePost(m)>>
<1> SUFFICES ASSUME NEW m PROVE Posted(<<m>>) = <<ThePost(m)>>
  OBVIOUS
<1> DEFINE p == ThePost(m)
<1>1. Posted(<<m>>) = [i \in 1 .. 1 |-> p]
  <2>1. DOMAIN <<m>> = 1 .. 1 /\ \A i \in 1 .. 1 : <<m>>[i] = m
    OBVIOUS
  <2> QED
    BY <2>1 DEF Posted, ThePost
<1> HIDE DEF p
<1> QED
  BY <1>1 DEF p

LEMMA NoneParsed == Parsed(<<>>) = <<>>
BY DEF Parsed

LEMMA OneParsed == \A r : Parsed(<<r>>) = <<[slot |-> "handleParsingComplete", what |-> r]>>
BY DEF Parsed

LEMMA NoneAfter == \A s : IsSeq(s) => s \o <<>> = s
BY ConcatEmptySeq DEF IsSeq

\* A message goes out
LEMMA Dispatched ==
    ASSUME NEW c, NEW h, SendAndReceive(c, h, <<>>), IsTransport(h), h.incomingData = <<>>,
           posts = <<>>
    PROVE  /\ client' = AfterMessage(Asking(c)) /\ events' = <<>>
           /\ posts' = <<ThePost(NextMessage(Asking(c)))>>
           /\ http'.connections = h.connections /\ http'.incomingData = <<>>
           /\ http'.handleIncomingData
<1> DEFINE message == NextMessage(Asking(c))
           after == AfterMessage(Asking(c))
           g == DoSend(h, message)
           waits == [g EXCEPT !.handleIncomingData = TRUE]
           result == [ReceiveNext(g) EXCEPT !.posted = <<message>>]
<1>1. Apply(result, after, <<>>)
  BY DEF SendAndReceive
<1>2. g.connections = h.connections /\ g.incomingData = <<>> /\ TransportHas \subseteq DOMAIN g
  BY DEF DoSend, IsTransport, TransportHas
<1> HIDE DEF g, message, after
<1>3. ReceiveNext(g) = Result(waits, <<>>, <<>>, "NONE")
  BY <1>2 DEF ReceiveNext
<1>4. /\ result.http = waits /\ result.posted = <<message>>
      /\ result.read = <<>> /\ result.event = "NONE"
  BY <1>3 DEF Result
<1>5. /\ waits.connections = h.connections /\ waits.incomingData = <<>>
      /\ waits.handleIncomingData
  BY <1>2 DEF TransportHas
<1> HIDE DEF waits, result
<1>6. /\ http' = waits /\ posts' = posts \o Posted(<<message>>)
      /\ events' = <<>> \o Parsed(<<>>) /\ client' = TransportStatus(after, "NONE")
  BY <1>1, <1>4 DEF Apply
<1>7. TransportStatus(after, "NONE") = after
  BY DEF TransportStatus
<1>8. <<>> \o Posted(<<message>>) = <<ThePost(message)>> /\ <<>> \o Parsed(<<>>) = <<>>
  BY OnePosted, NoneParsed, OneIs, EmptyIs, NoneIs
<1> QED
  BY <1>5, <1>6, <1>7, <1>8 DEF message, after

\* The first message
LEMMA StartCalm == WelcomeInv /\ StartSync => CalmInv'
<1> SUFFICES ASSUME WelcomeInv, StartSync, Welcomed', Quiet(Session)'
             PROVE  (Ready /\ AtServer)'
  BY DEF CalmInv
<1> DEFINE auth == SetSessionParams(cfg.type, cfg.password, cfg.nonce, "", NoNonce)
           c == [NoSession EXCEPT !.auth = auth, !.state = "LOCAL_INIT"]
           d == ComposeClientInitialization(c, clientNonce)
           unused == NewTransport(cfg.attempts)
           h == InitTransport(unused)
           message == NextMessage(Asking(d))
<1>1. /\ UNCHANGED <<cfg, clientNonce, server, results, hurt>> /\ Session' = Session
      /\ cfg \in Configs /\ posts = <<>> /\ sent = <<>>
  BY DEF StartSync, Session, WelcomeInv, IInv, TypeOK, IdleInv
<1>2. /\ Welcome /\ ~cfg.prepared /\ ~cfg.noInit /\ cfg.password = "right"
      /\ cfg.nonce = NoNonce
  BY <1>1 DEF Welcomed, Welcome
<1>3. SendAndReceive(d, h, <<>>)
  BY <1>2 DEF StartSync
<1>4. /\ ClientAuthHas \subseteq DOMAIN auth /\ auth.authType = cfg.type
      /\ auth.remotePassword = "right" /\ auth.remoteNonce = NoNonce
      /\ ~auth.remoteAuthPending
  BY <1>2 DEF SetSessionParams, ClientAuthHas, AuthHas
<1> HIDE DEF auth
<1>5. /\ ClientHas \subseteq DOMAIN c /\ c.auth = auth /\ c.state = "LOCAL_INIT"
      /\ c.queue = <<>> /\ ~c.syncFinished /\ ~c.sessionClosed /\ ~c.devInfSent /\ c.msgId = 0
  BY DEF NoSession, ClientHas
<1> HIDE DEF c
<1>6. /\ message.id = 1 /\ Contains(message.parts, "Final")
      /\ message.cred = Credentials(cfg.type, clientNonce)
      /\ Composed(c, AfterMessage(Asking(d)), clientNonce)
  BY <1>1, <1>2, <1>4, <1>5, InitializationSent
<1>7. IsTransport(h) /\ h.incomingData = <<>> /\ h.connections = 1
  <2>1. IsTransport(h) /\ h.incomingData = <<>>
    BY NewTransportIs
  <2> QED
    BY <2>1 DEF NewTransport, InitTransport
<1> HIDE DEF d, h, message
<1>8. /\ client' = AfterMessage(Asking(d)) /\ events' = <<>>
      /\ posts' = <<ThePost(message)>>
      /\ http'.connections = 1 /\ http'.incomingData = <<>> /\ http'.handleIncomingData
  BY <1>1, <1>3, <1>7, Dispatched DEF message
<1>9. /\ client'.state = "LOCAL_INIT" /\ client'.queue = <<>> /\ client'.msgId = 1
      /\ ~client'.syncFinished /\ ~client'.sessionClosed
      /\ ClientAuthHas \subseteq DOMAIN client'.auth /\ client'.auth.authType = cfg.type
      /\ client'.auth.remotePassword = "right" /\ client'.auth.remoteNonce = NoNonce
      /\ client'.auth.remoteAuthPending => cfg.type = "BASIC" \/ clientNonce # NoNonce
  BY <1>4, <1>5, <1>6, <1>8 DEF Composed
<1>10. Ready'
  BY <1>1, <1>8, <1>9 DEF Ready, Guessing
<1>11. Unserved'
  <2>1. server.last # <<>> => server.last[1].session # Session
    <3>1. \A k : Before(k) => k # Session
      <4>1. Session \in Nat
        BY SeqIs DEF Session, WelcomeInv, IInv, TypeOK
      <4> QED
        BY <1>1, <4>1 DEF Before, Idle
    <3> QED
      BY <3>1 DEF WelcomeInv, OrderInv
  <2>2. Settled => Known
    BY <1>1, <1>2 DEF WelcomeInv, StartInv, Welcomed, Idle
  <2>3. (Settled' <=> Settled) /\ (Known' <=> Known)
    BY <1>1 DEF Settled, Quiet, Session, Known
  <2> QED
    BY <1>1, <1>9, <2>1, <2>2, <2>3 DEF Unserved
<1>12. AtServer'
  <2>1. ASSUME NEW m, m = message
        PROVE  (\E p : /\ posts = <<p>> /\ PostHas \subseteq DOMAIN p
                       /\ p.session = Session /\ ~p.abandoned /\ IsMessage(p.message)
                       /\ p.reply = <<>> /\ Unserved)'
    <3>1. ASSUME NEW p, p = ThePost(m)
          PROVE  (/\ posts = <<p>> /\ PostHas \subseteq DOMAIN p
                  /\ p.session = Session /\ ~p.abandoned /\ IsMessage(p.message)
                  /\ p.reply = <<>> /\ Unserved)'
      <4>1. /\ PostHas \subseteq DOMAIN p /\ p.session = Session /\ ~p.abandoned
            /\ p.reply = <<>> /\ p.message = m
        BY <3>1 DEF ThePost, PostHas
      <4>2. IsMessage(m)'
        BY <1>1, <1>6, <1>9, <2>1 DEF IsMessage
      <4>3. posts' = <<p>>
        BY <1>8, <2>1, <3>1
      <4> QED
        BY <1>1, <1>11, <4>1, <4>2, <4>3
    <3> QED
      BY <3>1
  <2> QED
    BY <1>8, <2>1 DEF AtServer
<1> QED
  BY <1>10, <1>12

\* The server answers
LEMMA ServeCalm ==
    ASSUME WelcomeInv, NEW i \in DOMAIN posts, Serve(i), Welcomed', Quiet(Session)'
    PROVE  (Ready /\ AtServer)'
<1>1. /\ UNCHANGED <<cfg, client, clientNonce, http, events, results, hurt, sent>>
      /\ posts[i].reply = <<>> /\ Session' = Session
  BY DEF Serve, Session
<1>2. /\ cfg \in Configs /\ Welcome /\ ~cfg.prepared /\ Quiet(Session)
      /\ ServerHas \subseteq DOMAIN server /\ server.issued \in Nat
  BY <1>1 DEF WelcomeInv, IInv, TypeOK, Welcomed, Welcome, Quiet, ServerInv, IsServer, OrderInv
<1>3. Ready /\ AtServer
  <2>1. posts # <<>>
    OBVIOUS
  <2> QED
    BY <1>2, <2>1 DEF WelcomeInv, OrderInv, CalmInv, Welcomed, Ended, AtTransport, AtParser
<1>4. PICK p : /\ posts = <<p>> /\ PostHas \subseteq DOMAIN p
               /\ p.session = Session /\ ~p.abandoned /\ IsMessage(p.message)
               /\ \/ p.reply = <<>> /\ Unserved
                  \/ \E r : p.reply = <<r>> /\ Verdict(r)
  BY <1>3 DEF AtServer
<1>5. i = 1 /\ posts[i] = p /\ p.reply = <<>> /\ Unserved
  <2>1. i = 1 /\ posts[i] = p
    BY <1>4
  <2>2. \A r : <<r>> # <<>>
    OBVIOUS
  <2> QED
    BY <1>1, <1>4, <2>1, <2>2
<1> DEFINE m == p.message
           s == ServerSession(p)
           fresh == server.issued + 1
           last(r) == <<[session |-> p.session, id |-> m.id, reply |-> r]>>
           reply(v) == [for |-> m.id, status |-> v.status,
                        alerts |-> v.auth.remoteAuthed /\ Contains(m.parts, "Final"),
                        final |-> v.auth.remoteAuthed /\ Contains(m.parts, "Final")]
<1>6. PICK v, taken, issued :
          /\ v \in Verdicts(s, m.cred, fresh)
          /\ posts' = [posts EXCEPT ![i].reply = <<reply(v)>>]
          /\ server' = [s EXCEPT !.auth = v.auth, !.taken = taken, !.nonce = v.nonce,
                                 !.issued = issued, !.last = last(reply(v))]
  <2> DEFINE post == posts[i]
             repeated == cfg.repeats /\ server.last # <<>>
                         /\ server.last[1].session = post.session
                         /\ server.last[1].id = post.message.id
             t == ServerSession(post)
             done(v, careless) == careless \/ (v.auth.remoteAuthed
                                               /\ Contains(post.message.parts, "Final"))
             answer(v, careless) ==
                 [for |-> post.message.id, status |-> v.status,
                  alerts |-> done(v, careless), final |-> done(v, careless)]
             answers(v, careless) ==
                 /\ posts' = [posts EXCEPT ![i].reply = <<answer(v, careless)>>]
                 /\ server' = [t EXCEPT
                        !.auth = v.auth,
                        !.taken = IF v.auth.remoteAuthed THEN t.taken \o post.message.parts
                                  ELSE t.taken,
                        !.nonce = v.nonce,
                        !.issued = IF v.nonce # t.nonce THEN @ + 1 ELSE @,
                        !.last = <<[session |-> post.session, id |-> post.message.id,
                                    reply |-> answer(v, careless)]>>]
  <2>1. ~repeated
    BY <1>4, <1>5 DEF Unserved, IsMessage
  <2>2. cfg.server # "refusing"
    BY <1>2 DEF Welcome
  <2>3. \E v \in Verdicts(t, post.message.cred, server.issued + 1) :
            \E careless \in IF cfg.server = "refusing" THEN BOOLEAN ELSE {FALSE} :
                answers(v, careless)
    BY <2>1 DEF Serve
  <2>4. PICK v \in Verdicts(t, post.message.cred, server.issued + 1) : answers(v, FALSE)
    <3> HIDE DEF answers, t
    <3> QED
      BY <2>2, <2>3
  <2>5. answer(v, FALSE) = reply(v) /\ t = s /\ post = p
    BY <1>5
  <2> QED
    BY <1>5, <2>4, <2>5
<1> DEFINE r == reply(v)
<1>7. /\ r.status = v.status
      /\ v.auth.remoteAuthed => r.alerts /\ r.final
      /\ ~v.auth.remoteAuthed => ~r.alerts /\ ~r.final
  BY <1>4 DEF IsMessage
<1>8. posts' = <<[p EXCEPT !.reply = <<r>>]>>
  BY <1>4, <1>5, <1>6
<1>9. \/ client.msgId = 1 /\ Guessing
      \/ client.msgId = 2 /\ client.auth.authType = "MD5"
  BY <1>3 DEF Ready
<1>10. ASSUME ServerHas \subseteq DOMAIN s
       PROVE  /\ server'.session = s.session /\ server'.auth = v.auth /\ server'.nonce = v.nonce
              /\ server'.last = last(r)
  <2> HIDE DEF last, r, s
  <2> QED
    BY <1>6, <1>10 DEF ServerHas, r
<1>11. v \in Verdicts(s, m.cred, fresh)
  BY <1>6
<1> HIDE DEF r, reply
<1>12. Verdict(r)'
  <2>1. CASE client.msgId = 1 /\ Guessing
    <3> DEFINE auth == SetSessionParams(cfg.demands, "", NoNonce,
                                        IF cfg.demands = "NONE" THEN "" ELSE "right", NoNonce)
    <3>1. s = [server EXCEPT !.session = p.session, !.taken = <<>>, !.auth = auth]
      BY <1>4, <2>1 DEF ServerSession, IsMessage
    <3> HIDE DEF auth
    <3>2. /\ ServerHas \subseteq DOMAIN s /\ s.auth = auth /\ s.session = Session
          /\ s.nonce = server.nonce
      BY <1>2, <1>4, <3>1 DEF ServerHas
    <3>3. m.cred = Credentials(cfg.type, clientNonce)
      BY <1>4, <2>1 DEF IsMessage, Guessing
    <3>4. \/ Approved(v)
          \/ /\ Challenged(v, fresh) /\ cfg.type # "NONE"
             /\ cfg.type = "MD5" => clientNonce # server.nonce \/ clientNonce = NoNonce
      BY <1>2, <1>11, <3>2, <3>3, FirstVerdict DEF auth
    <3>5. CASE Approved(v)
      BY <1>1, <1>7, <1>10, <3>2, <3>5 DEF Approved, Verdict, Good
    <3>6. CASE /\ Challenged(v, fresh) /\ cfg.type # "NONE"
               /\ cfg.type = "MD5" => clientNonce # server.nonce \/ clientNonce = NoNonce
      <4>1. fresh # NoNonce
        BY <1>2 DEF NoNonce
      <4>2. Settled /\ cfg.type = "MD5" => ~client.auth.remoteAuthPending
        BY <1>5, <2>1, <3>6 DEF Unserved, Known, Guessing
      <4>3. Settled' <=> Settled
        BY <1>1 DEF Settled, Quiet
      <4>4. server'.last # <<>> /\ server'.last[1].id = 1
        <5>1. m.id = 1
          BY <1>4, <2>1 DEF IsMessage
        <5>2. server'.last = last(r)
          BY <1>10, <3>2
        <5> QED
          BY <5>1, <5>2
      <4>5. Demanding'
        BY <1>1, <1>10, <3>2, <3>6 DEF Demanding, Challenged
      <4>6. /\ ~v.auth.remoteAuthed /\ v.status.data \in Rejections
            /\ v.status.chal = MD5Challenge(fresh) /\ server'.nonce = fresh
        BY <1>10, <3>2, <3>6 DEF Challenged, Waiting
      <4>7. Bad(r)'
        BY <1>1, <1>7, <2>1, <3>6, <4>1, <4>2, <4>3, <4>4, <4>5, <4>6 DEF Bad
      <4> QED
        BY <4>7 DEF Verdict
    <3> QED
      BY <3>4, <3>5, <3>6
  <2>2. CASE client.msgId = 2 /\ client.auth.authType = "MD5"
    <3>1. clientNonce = server.nonce /\ clientNonce # NoNonce /\ Demanding
      BY <1>5, <2>2 DEF Unserved
    <3>2. s = server
      BY <1>4, <2>2, <3>1 DEF ServerSession, IsMessage, Demanding
    <3>3. m.cred = Credentials("MD5", s.nonce)
      BY <1>4, <2>2, <3>1, <3>2 DEF IsMessage
    <3>4. Waiting(s.auth) /\ s.nonce # NoNonce
      BY <3>1, <3>2 DEF Demanding
    <3>5. Approved(v)
      <4> HIDE DEF s, fresh, m
      <4> QED
        BY <1>2, <1>11, <3>3, <3>4, SecondVerdict
    <3> QED
      BY <1>1, <1>2, <1>7, <1>10, <3>2, <3>5 DEF Approved, Verdict, Good
  <2> QED
    BY <1>9, <2>1, <2>2
<1>13. Ready'
  BY <1>1, <1>3 DEF Ready, Guessing
<1>14. AtServer'
  <2> DEFINE q == [p EXCEPT !.reply = <<r>>]
  <2>1. /\ PostHas \subseteq DOMAIN q /\ q.session = Session /\ ~q.abandoned
        /\ q.message = m /\ q.reply = <<r>>
    BY <1>4 DEF PostHas
  <2> HIDE DEF q, r
  <2>2. IsMessage(q.message)'
    BY <1>1, <1>4, <2>1 DEF IsMessage, q
  <2> QED
    BY <1>1, <1>3, <1>8, <1>12, <2>1, <2>2 DEF AtServer, q
<1> QED
  BY <1>13, <1>14

\* The answer reaches the client
LEMMA DeliverCalm ==
    ASSUME WelcomeInv, NEW i \in DOMAIN posts, Deliver(i), Welcomed', Quiet(Session)'
    PROVE  (Ready /\ AtTransport)'
<1>1. /\ UNCHANGED <<cfg, client, clientNonce, server, http, results, hurt, sent>>
      /\ posts[i].reply # <<>> /\ Session' = Session
      /\ End(i, Finished(http, Answered(posts[i].reply[1])))
  BY DEF Deliver, Session
<1>2. Ready /\ AtServer
  <2>1. posts # <<>> /\ Welcomed /\ Quiet(Session)
    BY <1>1 DEF Welcomed, Welcome, Quiet
  <2> QED
    BY <2>1 DEF WelcomeInv, OrderInv, CalmInv, Ended, AtTransport, AtParser
<1>3. PICK p : /\ posts = <<p>>
               /\ \/ p.reply = <<>> /\ Unserved
                  \/ \E r : p.reply = <<r>> /\ Verdict(r)
  BY <1>2 DEF AtServer
<1>4. i = 1 /\ posts[i] = p
  BY <1>3
<1>5. PICK r : p.reply = <<r>> /\ Verdict(r)
  BY <1>1, <1>3, <1>4
<1> DEFINE event == [slot |-> "httpRequestFinished", what |-> Answered(r)]
<1>6. Finished(http, Answered(r)) = <<event>>
  <2>1. http.connections = 1
    BY <1>2 DEF Ready
  <2>2. Finished(http, Answered(r)) = [k \in 1 .. 1 |-> event]
    BY <2>1 DEF Finished
  <2> HIDE DEF event
  <2> QED
    BY <2>2
<1>7. events = <<>> /\ http.handleIncomingData
  BY <1>2 DEF AtServer
<1>8. events' = <<event>>
  <2>1. <<>> \o <<event>> = <<event>>
    BY OneIs, NoneIs
  <2>2. events' = events \o Finished(http, Answered(r))
    BY <1>1, <1>4, <1>5 DEF End
  <2> QED
    BY <1>6, <1>7, <2>1, <2>2
<1>9. posts' = <<>>
  <2>1. posts' = SubSeq(posts, 1, i - 1) \o SubSeq(posts, i + 1, Len(posts))
    BY <1>1 DEF End
  <2>2. IsSeq(posts) /\ Len(posts) = 1
    BY <1>3, OneIs
  <2>3. SubSeq(posts, 1, 0) = <<>> /\ SubSeq(posts, 2, 1) = <<>>
    BY <2>2, SubSeqEmpty DEF IsSeq
  <2>4. i - 1 = 0 /\ i + 1 = 2
    BY <1>4
  <2> QED
    BY <2>1, <2>2, <2>3, <2>4, EmptyIs, NoneIs
<1>10. Ready'
  BY <1>1, <1>2 DEF Ready, Guessing
<1>11. Verdict(r)'
  BY <1>1, <1>5 DEF Verdict, Good, Bad, Demanding, Settled, Quiet
<1> QED
  BY <1>1, <1>7, <1>8, <1>9, <1>10, <1>11 DEF AtTransport

\* What is under way where the client has an event to handle
LEMMA EventCalm ==
    ASSUME WelcomeInv, events # <<>>, Welcomed, Quiet(Session)
    PROVE  Ready /\ (AtTransport \/ AtParser)
BY DEF WelcomeInv, OrderInv, CalmInv, Ended, AtServer

LEMMA OneEvent == \A e : Head(<<e>>) = e /\ Tail(<<e>>) = <<>>
OBVIOUS

\* The transport reads it
LEMMA FinishedCalm ==
    ASSUME WelcomeInv, RequestFinished, Welcomed', Quiet(Session)'
    PROVE  (Ready /\ AtParser)'
<1>1. /\ UNCHANGED <<cfg, clientNonce, server, results, accepted, hurt>>
      /\ events # <<>> /\ Head(events).slot = "httpRequestFinished"
      /\ Apply(HttpRequestFinished(http, Head(events).what), client, Tail(events))
      /\ Session' = Session
  BY DEF RequestFinished, Session
<1>2. Ready /\ (AtTransport \/ AtParser)
  <2>1. Welcomed /\ Quiet(Session)
    BY <1>1 DEF Welcomed, Welcome, Quiet
  <2> QED
    BY <1>1, <2>1, EventCalm
<1>3. AtTransport
  <2>1. ~AtParser
    <3>1. \A r : [slot |-> "handleParsingComplete", what |-> r].slot # "httpRequestFinished"
      OBVIOUS
    <3> QED
      BY <1>1, <3>1, OneEvent DEF AtParser
  <2> QED
    BY <1>2, <2>1
<1>4. PICK r : /\ events = <<[slot |-> "httpRequestFinished", what |-> Answered(r)]>>
               /\ Verdict(r)
  BY <1>3 DEF AtTransport
<1>5. Head(events).what = Answered(r) /\ Tail(events) = <<>>
  BY <1>4, OneEvent
<1> DEFINE came == [http EXCEPT !.firstMessageSent = TRUE, !.firstMessage = <<>>]
           read == [came EXCEPT !.handleIncomingData = FALSE]
<1>6. IsTransport(http) /\ http.handleIncomingData /\ posts = <<>>
  BY <1>3 DEF WelcomeInv, IInv, TypeOK, AtTransport
<1>7. /\ came.handleIncomingData
      /\ read.connections = http.connections /\ read.incomingData = http.incomingData
  BY <1>6 DEF IsTransport, TransportHas
<1>8. HttpRequestFinished(http, Answered(r)) = Result(read, <<>>, <<r>>, "NONE")
  <2>1. Answered(r).error = "none" /\ Answered(r).data = <<r>> /\ <<r>> # <<>>
    BY DEF Answered
  <2>2. HttpRequestFinished(http, Answered(r)) = ReceiveData(came, <<r>>)
    BY <2>1 DEF HttpRequestFinished
  <2> HIDE DEF came
  <2> QED
    BY <1>7, <2>1, <2>2 DEF ReceiveData
<1> DEFINE result == Result(read, <<>>, <<r>>, "NONE")
<1>9. /\ result.http = read /\ result.posted = <<>> /\ result.read = <<r>>
      /\ result.event = "NONE"
  BY DEF Result
<1> HIDE DEF read, came, result
<1>10. Apply(result, client, <<>>)
  BY <1>1, <1>5, <1>8 DEF result
<1>11. /\ http' = read /\ posts' = posts \o Posted(<<>>)
       /\ events' = <<>> \o Parsed(<<r>>) /\ client' = TransportStatus(client, "NONE")
  BY <1>9, <1>10 DEF Apply
<1>12. client' = client
  BY <1>11 DEF TransportStatus
<1>13. posts' = <<>>
  <2>1. Posted(<<>>) = <<>>
    BY DEF Posted
  <2> QED
    BY <1>6, <1>11, <2>1, EmptyIs, NoneIs
<1>14. events' = <<[slot |-> "handleParsingComplete", what |-> r]>>
  <2> DEFINE e == [slot |-> "handleParsingComplete", what |-> r]
  <2>1. Parsed(<<r>>) = <<e>>
    BY OneParsed
  <2> HIDE DEF e
  <2>2. events' = <<e>>
    BY <1>11, <2>1, OneIs, NoneIs
  <2> QED
    BY <2>2 DEF e
<1>15. Ready'
  BY <1>1, <1>2, <1>7, <1>11, <1>12 DEF Ready, Guessing
<1>16. Verdict(r)'
  BY <1>1, <1>4, <1>12 DEF Verdict, Good, Bad, Demanding, Settled, Quiet
<1> QED
  BY <1>13, <1>14, <1>15, <1>16 DEF AtParser

\* Nothing else is among the events
LEMMA NoDemandCalm ==
    ASSUME WelcomeInv, AuthRequired, Welcomed', Quiet(Session)'
    PROVE  FALSE
<1>1. /\ UNCHANGED <<cfg, results, hurt>> /\ Session' = Session
      /\ events # <<>> /\ Head(events).slot = "authRequired"
  BY DEF AuthRequired, Session
<1>2. Welcomed /\ Quiet(Session)
  BY <1>1 DEF Welcomed, Welcome, Quiet
<1>3. \A r : /\ [slot |-> "handleParsingComplete", what |-> r].slot # "authRequired"
             /\ [slot |-> "httpRequestFinished", what |-> Answered(r)].slot # "authRequired"
  OBVIOUS
<1> QED
  BY <1>1, <1>2, <1>3, EventCalm, OneEvent DEF AtTransport, AtParser

\* An answer that accepts the client opens the session
LEMMA GoodProcessed ==
    ASSUME WelcomeInv, Ready, NEW r, Good(r), NEW nonce
    PROVE  LET d == ProcessMessage(client, r, nonce)
           IN d.state = "OPEN" /\ ~d.syncFinished
<1> DEFINE a == client.auth
           b == [a EXCEPT !.authedToRemote = TRUE, !.remoteAuthPending = FALSE]
           c == [client EXCEPT !.auth = b]
           e == [c EXCEPT !.state = "REMOTE_INIT"]
           d == ProcessMessage(client, r, nonce)
<1>1. ClientHas \subseteq DOMAIN client /\ ClientAuthHas \subseteq DOMAIN a
  BY DEF WelcomeInv, IInv, ClientInv, Sound, IsClient, Ready
<1>2. client.state = "LOCAL_INIT" /\ ~client.syncFinished
  BY DEF Ready
<1>3. r.status.data \in {"SUCCESS", "AUTH_ACCEPTED"} /\ r.alerts /\ r.final
  BY DEF Good
<1>4. AnalyzeHeaderStatus(a, r.status, nonce) = [auth |-> b, outcome |-> "OK"]
  BY <1>3 DEF AnalyzeHeaderStatus, Rejections
<1>5. b.authedToRemote
  BY <1>1 DEF ClientAuthHas, AuthHas
<1> HIDE DEF b
<1>6. HandleStatus(client, r, nonce) = c
  BY <1>4 DEF HandleStatus
<1>7. ClientHas \subseteq DOMAIN c /\ c.auth = b /\ c.state = "LOCAL_INIT" /\ ~c.syncFinished
  BY <1>1, <1>2 DEF ClientHas
<1> HIDE DEF c
<1>8. HandleAlerts(c, r) = e
  BY <1>3, <1>7 DEF HandleAlerts
<1>9. ClientHas \subseteq DOMAIN e /\ e.auth = b /\ e.state = "REMOTE_INIT" /\ ~e.syncFinished
  BY <1>7 DEF ClientHas
<1> HIDE DEF e
<1>10. HandleFinal(e, r) = [ComposeClientModifications(e) EXCEPT !.state = "OPEN"]
  BY <1>3, <1>5, <1>9 DEF HandleFinal
<1>11. /\ ClientHas \subseteq DOMAIN ComposeClientModifications(e)
       /\ ~ComposeClientModifications(e).syncFinished
  BY <1>9 DEF ComposeClientModifications, ClientHas
<1>12. d = [ComposeClientModifications(e) EXCEPT !.state = "OPEN"]
  BY <1>6, <1>8, <1>10 DEF ProcessMessage
<1> QED
  BY <1>11, <1>12 DEF ClientHas

\* A challenge is answered, or the session is given up
LEMMA BadProcessed ==
    ASSUME WelcomeInv, Ready, NEW r, Bad(r), NEW nonce, nonce # NoNonce
    PROVE  LET d == ProcessMessage(client, r, nonce)
           IN \/ \E c : /\ d = ComposeClientInitialization(c, nonce)
                        /\ ClientHas \subseteq DOMAIN c /\ c.queue = <<>> /\ ~c.devInfSent
                        /\ c.state = "LOCAL_INIT" /\ c.msgId = 1
                        /\ ~c.syncFinished /\ ~c.sessionClosed
                        /\ ClientAuthHas \subseteq DOMAIN c.auth /\ c.auth.authType = "MD5"
                        /\ c.auth.remotePassword = "right" /\ c.auth.remoteNonce = NoNonce
              \/ /\ cfg.type = "MD5" /\ client.auth.remoteAuthPending
                 /\ d.state = "AUTHENTICATION_FAILURE" /\ d.syncFinished
                 /\ ClientHas \subseteq DOMAIN d
<1> DEFINE a == client.auth
           rejected == [a EXCEPT !.authedToRemote = FALSE]
           chal == r.status.chal
           d == ProcessMessage(client, r, nonce)
<1>1. ClientHas \subseteq DOMAIN client /\ ClientAuthHas \subseteq DOMAIN a
  BY DEF WelcomeInv, IInv, ClientInv, Sound, IsClient, Ready
<1>2. /\ client.state = "LOCAL_INIT" /\ client.queue = <<>>
      /\ ~client.syncFinished /\ ~client.sessionClosed
      /\ a.remotePassword = "right" /\ a.remoteNonce = NoNonce
  BY DEF Ready
<1>3. client.msgId = 1 /\ a.authType = cfg.type /\ a.authType # "NONE"
  <2>1. client.msgId = 1 /\ cfg.type # "NONE"
    BY DEF Bad
  <2> QED
    BY <2>1 DEF Ready, Guessing
<1>4. r.status.data \in Rejections /\ ~r.alerts /\ ~r.final /\ chal.type = "MD5" /\ chal # NoChal
  <2>1. r.status.data \in Rejections /\ ~r.alerts /\ ~r.final /\ chal = MD5Challenge(server.nonce)
    BY DEF Bad
  <2> QED
    BY <2>1 DEF MD5Challenge, NoChal
<1> HIDE DEF chal
<1>5. /\ ClientAuthHas \subseteq DOMAIN rejected /\ rejected.authType = a.authType
      /\ rejected.remoteAuthPending = a.remoteAuthPending
      /\ rejected.remotePassword = "right" /\ rejected.remoteNonce = NoNonce
  BY <1>1, <1>2 DEF ClientAuthHas, AuthHas
<1> HIDE DEF rejected
<1>6. AnalyzeHeaderStatus(a, r.status, nonce) = HandleChallenge(rejected, chal, nonce)
  <2>1. r.status.data \notin {"SUCCESS", "AUTH_ACCEPTED"}
    BY <1>4 DEF Rejections
  <2> QED
    BY <1>3, <1>4, <2>1 DEF AnalyzeHeaderStatus, rejected, chal
<1>7. \A c : HandleFinal(HandleAlerts(c, r), r) = c
  BY <1>4 DEF HandleAlerts, HandleFinal
<1>8. d = HandleStatus(client, r, nonce)
  BY <1>7 DEF ProcessMessage
<1>9. MayAnswer(rejected, chal, nonce) <=> ~(a.authType = "MD5" /\ a.remoteAuthPending)
  BY <1>4, <1>5 DEF MayAnswer
<1>10. CASE MayAnswer(rejected, chal, nonce)
  <2> DEFINE b == [rejected EXCEPT !.authType = "MD5"]
             judged == [client EXCEPT !.auth = b]
             c == [judged EXCEPT !.devInfSent = FALSE]
  <2>1. HandleChallenge(rejected, chal, nonce) = [auth |-> b, outcome |-> "RESEND"]
    BY <1>4, <1>10 DEF HandleChallenge
  <2>2. /\ ClientAuthHas \subseteq DOMAIN b /\ b.authType = "MD5"
        /\ b.remotePassword = "right" /\ b.remoteNonce = NoNonce
    BY <1>5 DEF ClientAuthHas, AuthHas
  <2> HIDE DEF b
  <2>3. d = ResendPackage(judged, nonce)
    BY <1>6, <1>8, <2>1 DEF HandleStatus
  <2>4. ClientHas \subseteq DOMAIN judged /\ judged.auth = b /\ judged.state = "LOCAL_INIT"
        /\ judged.queue = <<>> /\ judged.msgId = 1
        /\ ~judged.syncFinished /\ ~judged.sessionClosed
    BY <1>1, <1>2, <1>3 DEF ClientHas
  <2> HIDE DEF judged
  <2>5. /\ ClientHas \subseteq DOMAIN c /\ c.auth = b /\ c.state = "LOCAL_INIT"
        /\ c.queue = <<>> /\ c.msgId = 1 /\ ~c.devInfSent
        /\ ~c.syncFinished /\ ~c.sessionClosed
    BY <2>4 DEF ClientHas
  <2>6. d = ComposeClientInitialization(c, nonce)
    BY <2>3, <2>4 DEF ResendPackage
  <2> HIDE DEF c, d
  <2>7. \E x : /\ d = ComposeClientInitialization(x, nonce)
               /\ ClientHas \subseteq DOMAIN x /\ x.queue = <<>> /\ ~x.devInfSent
               /\ x.state = "LOCAL_INIT" /\ x.msgId = 1
               /\ ~x.syncFinished /\ ~x.sessionClosed
               /\ ClientAuthHas \subseteq DOMAIN x.auth /\ x.auth.authType = "MD5"
               /\ x.auth.remotePassword = "right" /\ x.auth.remoteNonce = NoNonce
    BY <2>2, <2>5, <2>6
  <2> QED
    BY <2>7 DEF d
<1>11. CASE ~MayAnswer(rejected, chal, nonce)
  <2> DEFINE judged == [client EXCEPT !.auth = rejected]
  <2>1. HandleChallenge(rejected, chal, nonce) = [auth |-> rejected, outcome |-> "ABORT"]
    BY <1>11 DEF HandleChallenge
  <2>2. d = AbortSync(judged, "AUTHENTICATION_FAILURE")
    BY <1>6, <1>8, <2>1 DEF HandleStatus
  <2>3. ClientHas \subseteq DOMAIN judged /\ ~judged.sessionClosed
    BY <1>1, <1>2 DEF ClientHas
  <2> HIDE DEF judged
  <2>4. d = [judged EXCEPT !.state = "AUTHENTICATION_FAILURE", !.syncFinished = TRUE]
    BY <2>2, <2>3 DEF AbortSync
  <2>5. /\ d.state = "AUTHENTICATION_FAILURE" /\ d.syncFinished /\ ClientHas \subseteq DOMAIN d
    BY <2>3, <2>4 DEF ClientHas
  <2> QED
    BY <1>3, <1>9, <1>11, <2>5
<1> QED
  BY <1>10, <1>11

\* The client takes it
LEMMA ParsedCalm ==
    ASSUME WelcomeInv, HandleParsingComplete, Welcomed', Quiet(Session)'
    PROVE  (Ended \/ (Ready /\ AtServer))'
<1> DEFINE reply == Head(events).what
           nonce == NextNonce(reply.status, clientNonce)
           done == ProcessMessage(client, reply, nonce)
           quiet == Result(http, <<>>, <<>>, "NONE")
<1>1. /\ UNCHANGED <<cfg, server, results, accepted, hurt>> /\ Session' = Session
      /\ events # <<>> /\ Head(events).slot = "handleParsingComplete" /\ clientNonce' = nonce
      /\ \/ /\ done.state \in {"LOCAL_INIT", "REMOTE_INIT", "SENDING_ITEMS"}
            /\ SendAndReceive(done, http, Tail(events))
         \/ /\ done.state \notin {"LOCAL_INIT", "REMOTE_INIT", "SENDING_ITEMS"}
            /\ Apply(quiet, ExitSync(done), Tail(events))
  BY DEF HandleParsingComplete, Session
<1>2. Welcomed /\ Quiet(Session) /\ cfg \in Configs
  BY <1>1 DEF Welcomed, Welcome, Quiet, WelcomeInv, IInv, TypeOK
<1>3. Ready /\ AtParser
  <2>1. \A r : [slot |-> "httpRequestFinished", what |-> Answered(r)].slot # "handleParsingComplete"
    OBVIOUS
  <2>2. ~AtTransport
    BY <1>1, <2>1, OneEvent DEF AtTransport
  <2> QED
    BY <1>1, <1>2, <2>2, EventCalm
<1>4. Verdict(reply) /\ Tail(events) = <<>> /\ posts = <<>>
  BY <1>3, OneEvent DEF AtParser
<1>5. IsTransport(http) /\ http.incomingData = <<>> /\ http.connections = 1
  BY <1>3 DEF WelcomeInv, IInv, TypeOK, Ready
<1>6. ASSUME NEW d, Apply(quiet, d, <<>>)
      PROVE  client' = d /\ posts' = <<>> /\ events' = <<>>
  <2>1. /\ quiet.posted = <<>> /\ quiet.read = <<>> /\ quiet.event = "NONE"
    BY DEF Result
  <2> HIDE DEF quiet
  <2>2. /\ posts' = posts \o Posted(<<>>) /\ events' = <<>> \o Parsed(<<>>)
        /\ client' = TransportStatus(d, "NONE")
    BY <1>6, <2>1 DEF Apply
  <2>3. Posted(<<>>) = <<>> /\ Parsed(<<>>) = <<>> /\ <<>> \o <<>> = <<>>
    BY EmptyIs, NoneIs DEF Posted, Parsed
  <2>4. TransportStatus(d, "NONE") = d
    BY DEF TransportStatus
  <2> QED
    BY <1>4, <2>2, <2>3, <2>4
<1> HIDE DEF quiet, reply
<1>7. CASE Good(reply)
  <2>1. done.state = "OPEN" /\ ~done.syncFinished
    BY <1>3, <1>7, GoodProcessed
  <2>2. cfg.type = "MD5" => nonce = server.nonce
    BY <1>7 DEF Good, NextNonce
  <2> HIDE DEF done, nonce
  <2>3. ExitSync(done) = done
    BY <2>1 DEF ExitSync
  <2>4. client'.state = "OPEN" /\ posts' = <<>> /\ events' = <<>>
    BY <1>1, <1>4, <1>6, <2>1, <2>3
  <2> QED
    BY <1>1, <2>2, <2>4 DEF Ended, Agreed
<1>8. CASE Bad(reply)
  <2>1. nonce = server.nonce /\ nonce # NoNonce /\ Demanding
    BY <1>8 DEF Bad, NextNonce, MD5Challenge
  <2>2. server.last # <<>> /\ server.last[1].id = 1
    BY <1>8 DEF Bad
  <2>3. Settled /\ cfg.type = "MD5" => ~client.auth.remoteAuthPending
    BY <1>8 DEF Bad
  <2> HIDE DEF nonce
  <2>4. CASE \E c : /\ done = ComposeClientInitialization(c, nonce)
                    /\ ClientHas \subseteq DOMAIN c /\ c.queue = <<>> /\ ~c.devInfSent
                    /\ c.state = "LOCAL_INIT" /\ c.msgId = 1
                    /\ ~c.syncFinished /\ ~c.sessionClosed
                    /\ ClientAuthHas \subseteq DOMAIN c.auth /\ c.auth.authType = "MD5"
                    /\ c.auth.remotePassword = "right" /\ c.auth.remoteNonce = NoNonce
    <3> PICK c : /\ done = ComposeClientInitialization(c, nonce)
                 /\ ClientHas \subseteq DOMAIN c /\ c.queue = <<>> /\ ~c.devInfSent
                 /\ c.state = "LOCAL_INIT" /\ c.msgId = 1
                 /\ ~c.syncFinished /\ ~c.sessionClosed
                 /\ ClientAuthHas \subseteq DOMAIN c.auth /\ c.auth.authType = "MD5"
                 /\ c.auth.remotePassword = "right" /\ c.auth.remoteNonce = NoNonce
      BY <2>4
    <3> DEFINE message == NextMessage(Asking(done))
    <3>1. /\ message.id = 2 /\ Contains(message.parts, "Final")
          /\ message.cred = Credentials("MD5", nonce)
          /\ Composed(c, AfterMessage(Asking(done)), nonce)
      BY <1>2, InitializationSent DEF Welcomed
    <3>2. done.state = "LOCAL_INIT"
      BY DEF ComposeClientInitialization, ClientHas
    <3>3. SendAndReceive(done, http, <<>>)
      BY <1>1, <1>4, <3>2
    <3> HIDE DEF done
    <3>4. /\ client' = AfterMessage(Asking(done)) /\ events' = <<>>
          /\ posts' = <<ThePost(message)>>
          /\ http'.connections = 1 /\ http'.incomingData = <<>> /\ http'.handleIncomingData
      BY <1>4, <1>5, <3>3, Dispatched
    <3>5. /\ client'.state = "LOCAL_INIT" /\ client'.queue = <<>> /\ client'.msgId = 2
          /\ ~client'.syncFinished /\ ~client'.sessionClosed
          /\ ClientAuthHas \subseteq DOMAIN client'.auth /\ client'.auth.authType = "MD5"
          /\ client'.auth.remotePassword = "right" /\ client'.auth.remoteNonce = NoNonce
      BY <3>1, <3>4 DEF Composed
    <3>6. Ready'
      BY <3>4, <3>5 DEF Ready
    <3>7. Unserved'
      BY <1>1, <2>1, <2>2, <3>5 DEF Unserved, Demanding
    <3>8. ASSUME NEW m, m = message
          PROVE  (\E p : /\ posts = <<p>> /\ PostHas \subseteq DOMAIN p
                         /\ p.session = Session /\ ~p.abandoned /\ IsMessage(p.message)
                         /\ p.reply = <<>> /\ Unserved)'
      <4>1. ASSUME NEW p, p = ThePost(m)
            PROVE  (/\ posts = <<p>> /\ PostHas \subseteq DOMAIN p
                    /\ p.session = Session /\ ~p.abandoned /\ IsMessage(p.message)
                    /\ p.reply = <<>> /\ Unserved)'
        <5>1. /\ PostHas \subseteq DOMAIN p /\ p.session = Session /\ ~p.abandoned
              /\ p.reply = <<>> /\ p.message = m
          BY <4>1 DEF ThePost, PostHas
        <5>2. IsMessage(m)'
          BY <1>1, <3>1, <3>5, <3>8 DEF IsMessage
        <5>3. posts' = <<p>>
          BY <3>4, <3>8, <4>1
        <5> QED
          BY <1>1, <3>7, <5>1, <5>2, <5>3
      <4> QED
        BY <4>1
    <3>9. AtServer'
      BY <3>4, <3>8 DEF AtServer
    <3> QED
      BY <3>6, <3>9
  <2>5. CASE /\ cfg.type = "MD5" /\ client.auth.remoteAuthPending
             /\ done.state = "AUTHENTICATION_FAILURE" /\ done.syncFinished
             /\ ClientHas \subseteq DOMAIN done
    <3> HIDE DEF done
    <3>1. /\ ExitSync(done).state = "AUTHENTICATION_FAILURE" /\ ExitSync(done).sessionClosed
      BY <2>5 DEF ExitSync, ClientHas
    <3>2. client' = ExitSync(done) /\ posts' = <<>> /\ events' = <<>>
      BY <1>1, <1>4, <1>6, <2>5
    <3>3. ~Settled'
      BY <1>1, <2>3, <2>5 DEF Settled, Quiet
    <3> QED
      BY <1>1, <2>1, <3>1, <3>2, <3>3 DEF Ended, Agreed
  <2> QED
    BY <1>3, <1>8, <2>1, <2>4, <2>5, BadProcessed
<1> QED
  BY <1>4, <1>7, <1>8 DEF Verdict

-----------------------------------------------------------------------------
(***************************************************************************)
(* Every step.  In a session there is always something sent, so that what  *)
(* is said of the time between two sessions is a matter of EndSession.     *)
(***************************************************************************)
LEMMA StillSent ==
    ASSUME NEW s, IsSeq(s), NEW t, IsSeq(t), s # <<>> \/ t # <<>>
    PROVE  s \o t # <<>>
<1>1. Len(s) \in Nat /\ Len(t) \in Nat /\ Len(s \o t) = Len(s) + Len(t)
  BY SeqIs, JoinIs
<1>2. \A u : IsSeq(u) /\ Len(u) = 0 => u = <<>>
  BY EmptySeq DEF IsSeq
<1>3. Len(s) # 0 \/ Len(t) # 0
  BY <1>2
<1>4. Len(s \o t) # 0
  BY <1>1, <1>3
<1> QED
  BY <1>4, EmptyIs

LEMMA SendsOne ==
    ASSUME IsSeq(sent), NEW c, NEW h, NEW waiting, SendAndReceive(c, h, waiting)
    PROVE  sent' # <<>>
<1> DEFINE message == NextMessage(Asking(c))
           received == ReceiveNext(DoSend(h, message))
           result == [received EXCEPT !.posted = <<message>>]
<1>1. Apply(result, AfterMessage(Asking(c)), waiting)
  BY DEF SendAndReceive
<1>2. \E k, p, x, e : received = Result(k, p, x, e)
  BY DEF ReceiveNext
<1> HIDE DEF received, message
<1>3. result.posted = <<message>>
  BY <1>2 DEF Result
<1> HIDE DEF result
<1>4. sent' = sent \o <<message>>
  BY <1>1, <1>3 DEF Apply
<1>5. <<message>> # <<>>
  OBVIOUS
<1> QED
  BY <1>4, <1>5, OneIs, StillSent

\* A step within a session, in which nothing goes wrong
LEMMA OrderKept ==
    ASSUME WelcomeInv, UNCHANGED <<server, hurt, results>>, sent' # <<>>
    PROVE  OrderInv' /\ StartInv'
<1>1. Session' = Session /\ Session \in Nat
  BY SeqIs DEF Session, WelcomeInv, IInv, TypeOK
<1>2. ~Idle'
  BY DEF Idle
<1>3. \A k : Before(k) => Before(k)'
  BY <1>1, <1>2 DEF Before
<1> QED
  BY <1>2, <1>3 DEF WelcomeInv, OrderInv, StartInv

\* How the sessions before this one ended stays as it is
LEMMA ResultsKept ==
    ASSUME WelcomeInv, UNCHANGED <<cfg, results>>, Range(hurt) \subseteq Range(hurt')
    PROVE  ResultsInv'
BY DEF WelcomeInv, ResultsInv, RightPasswordOpens, Welcomed, Welcome

\* A session with something to do has sent something
LEMMA Started == WelcomeInv /\ (events # <<>> \/ posts # <<>>) => sent # <<>> /\ IsSeq(sent)
BY DEF WelcomeInv, OrderInv, Idle, IInv, TypeOK

LEMMA StartWelcome ==
    ASSUME WelcomeInv, StartSync
    PROVE  OrderInv' /\ StartInv' /\ CalmInv' /\ ResultsInv'
<1>1. UNCHANGED <<cfg, server, hurt, results>>
  BY DEF StartSync
<1>2. \E c, h, waiting : SendAndReceive(c, h, waiting)
  BY DEF StartSync
<1>3. sent' # <<>>
  BY <1>2, SendsOne DEF WelcomeInv, IInv, TypeOK
<1>4. hurt' = hurt
  BY <1>1
<1> QED
  BY <1>1, <1>3, <1>4, StartCalm, OrderKept, ResultsKept

LEMMA FinishedWelcome ==
    ASSUME WelcomeInv, RequestFinished
    PROVE  OrderInv' /\ StartInv' /\ CalmInv' /\ ResultsInv'
<1> DEFINE r == Head(events).what
           result == HttpRequestFinished(http, r)
<1>1. /\ UNCHANGED <<cfg, server, hurt, results>> /\ events # <<>> /\ hurt' = hurt
      /\ sent' = sent \o result.posted
  BY DEF RequestFinished, Apply
<1>2. sent # <<>> /\ IsSeq(sent) /\ client.state # "NONE"
  BY <1>1, Started DEF WelcomeInv, OrderInv, IInv, IdleInv
<1>3. IsSeq(r.data)
  <2>1. Head(events).slot = "httpRequestFinished" /\ IsEvent(Head(events), Session, accepted)
    BY BusyIs DEF RequestFinished, WelcomeInv
  <2> QED
    BY <2>1 DEF IsEvent, AllTrusted
<1>4. IsTransport(http) /\ First(http, events, sent)
  BY <1>2 DEF WelcomeInv, IInv, TypeOK, GoingInv
<1> HIDE DEF r
<1>5. /\ result.posted \in {<<>>, http.firstMessage}
      /\ result.posted # <<>> => ~http.firstMessageSent
  BY <1>3, <1>4, FinishedIs
<1> HIDE DEF result
<1>6. IsSeq(result.posted)
  <2>1. CASE result.posted = <<>>
    BY <2>1, EmptyIs
  <2>2. CASE result.posted # <<>>
    <3>1. \E m : http.firstMessage = <<m>>
      BY <1>4, <1>5, <2>2 DEF First
    <3> QED
      BY <1>5, <2>2, <3>1, OneIs
  <2> QED
    BY <2>1, <2>2
<1>7. sent' # <<>>
  BY <1>1, <1>2, <1>6, StillSent
<1>8. CalmInv'
  BY FinishedCalm DEF CalmInv
<1> QED
  BY <1>1, <1>7, <1>8, OrderKept, ResultsKept

LEMMA DemandWelcome ==
    ASSUME WelcomeInv, AuthRequired
    PROVE  OrderInv' /\ StartInv' /\ CalmInv' /\ ResultsInv'
<1> DEFINE result == Result(http, <<>>, <<>>, "TRANSPORT_CONNECTION_AUTHENTICATION_NEEDED")
<1>1. /\ UNCHANGED <<cfg, server, hurt, results>> /\ events # <<>> /\ hurt' = hurt
      /\ sent' = sent \o result.posted
  BY DEF AuthRequired, Apply
<1>2. result.posted = <<>>
  BY DEF Result
<1> HIDE DEF result
<1>3. sent' # <<>>
  BY <1>1, <1>2, Started, EmptyIs, StillSent
<1>4. CalmInv'
  BY NoDemandCalm DEF CalmInv
<1> QED
  BY <1>1, <1>3, <1>4, OrderKept, ResultsKept

LEMMA ParsedWelcome ==
    ASSUME WelcomeInv, HandleParsingComplete
    PROVE  OrderInv' /\ StartInv' /\ CalmInv' /\ ResultsInv'
<1> DEFINE quiet == Result(http, <<>>, <<>>, "NONE")
<1>1. /\ UNCHANGED <<cfg, server, hurt, results>> /\ events # <<>> /\ hurt' = hurt
      /\ \E c, h, waiting : SendAndReceive(c, h, waiting) \/ Apply(quiet, c, waiting)
  BY DEF HandleParsingComplete
<1>2. quiet.posted = <<>>
  BY DEF Result
<1> HIDE DEF quiet
<1>3. sent # <<>> /\ IsSeq(sent)
  BY <1>1, Started
<1>4. \A c, waiting : Apply(quiet, c, waiting) => sent' # <<>>
  BY <1>2, <1>3, EmptyIs, StillSent DEF Apply
<1>5. sent' # <<>>
  BY <1>1, <1>3, <1>4, SendsOne
<1>6. CalmInv'
  BY ParsedCalm DEF CalmInv
<1> QED
  BY <1>1, <1>5, <1>6, OrderKept, ResultsKept

\* What was open is over, with the two sides agreed on a nonce
LEMMA EndWelcome ==
    ASSUME WelcomeInv, EndSession
    PROVE  OrderInv' /\ StartInv' /\ CalmInv' /\ ResultsInv'
<1>1. /\ results' = Append(results, client.state) /\ client' = NoSession
      /\ events' = <<>> /\ posts' = <<>> /\ sent' = <<>>
      /\ cfg' = cfg /\ clientNonce' = clientNonce /\ server' = server /\ hurt' = hurt
      /\ client.sessionClosed \/ client.state \in {"OPEN", "FINALIZING"}
  BY DEF EndSession
<1>2. /\ IsSeq(results) /\ Session \in Nat /\ Session' = Session + 1
      /\ \A k \in DOMAIN results' :
             \/ k \in DOMAIN results /\ results'[k] = results[k]
             \/ k = Session /\ results'[k] = client.state
  BY <1>1, SeqIs, AppendIs DEF WelcomeInv, IInv, TypeOK, Session
<1>3. Idle'
  BY <1>1 DEF Idle
<1>4. ~Idle
  BY <1>1 DEF WelcomeInv, OrderInv, IInv, ClientInv, Sound, Over, Going
<1>5. OrderInv'
  <2>1. \A k : Before(k) => Before(k)'
    BY <1>2, <1>3 DEF Before
  <2>2. client'.state = "NONE"
    BY <1>1 DEF NoSession
  <2> QED
    BY <1>1, <2>1, <2>2 DEF WelcomeInv, OrderInv
<1>6. Welcomed /\ Quiet(Session) => Ended
  BY <1>1, <1>4 DEF WelcomeInv, CalmInv, Ready
<1>7. StartInv'
  <2> SUFFICES ASSUME Welcomed', Settled' PROVE Known'
    BY DEF StartInv
  <2>1. Welcomed /\ Quiet(Session)
    BY <1>1, <1>2 DEF Welcomed, Welcome, Settled, Quiet
  <2> QED
    BY <1>1, <1>6, <2>1 DEF Ended, Agreed, Known
<1>8. CalmInv'
  BY <1>3 DEF CalmInv
<1>9. ResultsInv'
  <2> SUFFICES ASSUME Welcomed', NEW k \in DOMAIN results', {k, k - 1} \cap Range(hurt) = {}
               PROVE  results'[k] = "OPEN"
    BY <1>1 DEF ResultsInv, RightPasswordOpens
  <2>1. Welcomed
    BY <1>1 DEF Welcomed, Welcome
  <2>2. CASE k \in DOMAIN results /\ results'[k] = results[k]
    BY <2>1, <2>2 DEF WelcomeInv, ResultsInv, RightPasswordOpens, Welcomed
  <2>3. CASE k = Session /\ results'[k] = client.state
    <3>1. Quiet(Session) /\ Settled
      BY <2>3 DEF Quiet, Settled
    <3> QED
      BY <1>6, <2>1, <2>3, <3>1 DEF Ended
  <2> QED
    BY <1>2, <2>2, <2>3
<1> QED
  BY <1>5, <1>7, <1>8, <1>9

LEMMA ServeWelcome ==
    ASSUME WelcomeInv, NEW i \in DOMAIN posts, Serve(i)
    PROVE  OrderInv' /\ StartInv' /\ CalmInv' /\ ResultsInv'
<1> DEFINE post == posts[i]
           s == ServerSession(post)
<1>1. UNCHANGED <<cfg, results, hurt, sent>> /\ hurt' = hurt /\ Session' = Session
  BY DEF Serve, Session
<1>2. posts # <<>>
  OBVIOUS
<1>3. sent # <<>> /\ sent' # <<>>
  BY <1>1, <1>2, Started
<1>4. /\ Session \in Nat /\ post.session = Session
      /\ ServerHas \subseteq DOMAIN server /\ server.issued \in Nat
  <2>1. post \in Range(posts) /\ IsSeq(results)
    BY DEF Range, WelcomeInv, IInv, TypeOK
  <2>2. post.session = Session
    BY <2>1 DEF WelcomeInv, IInv, PostsInv, IsPost
  <2>3. Session \in Nat
    BY <2>1, SeqIs DEF Session
  <2> QED
    BY <2>2, <2>3 DEF WelcomeInv, IInv, ServerInv, IsServer, OrderInv
<1>5. \A k : Before(k) => Before(k)'
  BY <1>1, <1>3, <1>4 DEF Before, Idle
<1>6. Before(Session)'
  BY <1>1, <1>3, <1>4 DEF Before, Idle
<1>7. /\ server'.issued \in Nat /\ Before(server.session)'
      /\ server'.last # <<>> => Before(server.last[1].session)'
  <2>1. CASE server' = server
    BY <1>5, <2>1 DEF WelcomeInv, OrderInv
  <2>2. CASE server' # server
    <3>1. ServerHas \subseteq DOMAIN s /\ s.session = Session /\ s.issued = server.issued
      BY <1>4 DEF ServerSession, ServerHas
    <3>2. PICK v, taken, reply :
              server' = [s EXCEPT !.auth = v.auth, !.taken = taken, !.nonce = v.nonce,
                                  !.issued = IF v.nonce # s.nonce THEN @ + 1 ELSE @,
                                  !.last = <<[session |-> post.session, id |-> post.message.id,
                                              reply |-> reply]>>]
      <4> DEFINE answered(v, taken, reply) ==
                     server' = [s EXCEPT
                         !.auth = v.auth, !.taken = taken, !.nonce = v.nonce,
                         !.issued = IF v.nonce # s.nonce THEN @ + 1 ELSE @,
                         !.last = <<[session |-> post.session, id |-> post.message.id,
                                     reply |-> reply]>>]
      <4>1. \E v \in Verdicts(s, post.message.cred, server.issued + 1), careless \in BOOLEAN :
                LET done  == careless \/ (v.auth.remoteAuthed
                                          /\ Contains(post.message.parts, "Final"))
                IN answered(v, IF v.auth.remoteAuthed THEN s.taken \o post.message.parts
                               ELSE s.taken,
                            [for |-> post.message.id, status |-> v.status,
                             alerts |-> done, final |-> done])
        BY <2>2 DEF Serve
      <4> HIDE DEF answered
      <4>2. \E v, taken, reply : answered(v, taken, reply)
        BY <4>1
      <4> QED
        BY <4>2 DEF answered
    <3> DEFINE last == [session |-> post.session, id |-> post.message.id, reply |-> reply]
    <3>3. last.session = Session
      BY <1>4
    <3> HIDE DEF s, last
    <3>4. /\ server'.issued \in {s.issued, s.issued + 1} /\ server'.session = s.session
          /\ server'.last = <<last>>
      BY <3>1, <3>2 DEF ServerHas, last
    <3>5. server'.session = Session /\ server'.last[1].session = Session
      BY <3>1, <3>3, <3>4
    <3>6. server'.issued \in Nat
      BY <1>4, <3>1, <3>4
    <3> QED
      BY <1>1, <1>3, <1>4, <3>5, <3>6 DEF Before, Idle
  <2> QED
    BY <2>1, <2>2
<1>8. OrderInv' /\ StartInv'
  <2>1. ~Idle'
    BY <1>3 DEF Idle
  <2> QED
    BY <1>1, <1>5, <1>7, <2>1 DEF WelcomeInv, OrderInv, StartInv
<1>9. CalmInv'
  BY ServeCalm DEF CalmInv
<1> QED
  BY <1>1, <1>8, <1>9, ResultsKept

LEMMA DeliverWelcome ==
    ASSUME WelcomeInv, NEW i \in DOMAIN posts, Deliver(i)
    PROVE  OrderInv' /\ StartInv' /\ CalmInv' /\ ResultsInv'
<1>1. UNCHANGED <<cfg, server, hurt, results>> /\ hurt' = hurt /\ sent' = sent
  BY DEF Deliver
<1>2. posts # <<>>
  OBVIOUS
<1>3. sent' # <<>>
  BY <1>1, <1>2, Started
<1>4. CalmInv'
  BY DeliverCalm DEF CalmInv
<1> QED
  BY <1>1, <1>3, <1>4, OrderKept, ResultsKept

LEMMA FailWelcome ==
    ASSUME WelcomeInv, NEW i \in DOMAIN posts, Fail(i)
    PROVE  OrderInv' /\ StartInv' /\ CalmInv' /\ ResultsInv'
<1>1. /\ UNCHANGED <<cfg, server, results, sent>> /\ hurt' = Append(hurt, Session)
      /\ Session' = Session
  BY DEF Fail, Session
<1>2. posts # <<>>
  OBVIOUS
<1>3. sent # <<>> /\ sent' # <<>>
  BY <1>1, <1>2, Started
<1>4. IsSeq(results) /\ IsSeq(hurt)
  BY DEF WelcomeInv, IInv, TypeOK, OrderInv
<1>5. Session \in Nat
  BY <1>4, SeqIs DEF Session
<1>6. IsSeq(hurt') /\ Range(hurt') = Range(hurt) \cup {Session}
  <2>1. \A x : IsSeq(Append(hurt, x)) /\ Range(Append(hurt, x)) = Range(hurt) \cup {x}
    <3> SUFFICES ASSUME NEW x
                 PROVE  /\ IsSeq(Append(hurt, x))
                        /\ Range(Append(hurt, x)) = Range(hurt) \cup {x}
      OBVIOUS
    <3>1. IsSeq(<<x>>) /\ Range(<<x>>) = {x}
      BY OneIs
    <3>2. Append(hurt, x) = hurt \o <<x>>
      BY <1>4, AppendIs
    <3> QED
      BY <1>4, <3>1, <3>2, JoinIs
  <2> QED
    BY <1>1, <2>1
<1>7. \A k : Before(k) => Before(k)'
  BY <1>1, <1>3, <1>5 DEF Before, Idle
<1>8. OrderInv' /\ StartInv'
  <2>1. ~Idle' /\ Before(Session)'
    BY <1>1, <1>3, <1>5 DEF Before, Idle
  <2>2. \A k \in Range(hurt') : Before(k)'
    BY <1>1, <1>6, <1>7, <2>1 DEF WelcomeInv, OrderInv
  <2> QED
    BY <1>1, <1>6, <1>7, <2>1, <2>2 DEF WelcomeInv, OrderInv, StartInv
<1>9. CalmInv'
  BY <1>1, <1>6 DEF CalmInv, Quiet
<1> QED
  BY <1>1, <1>6, <1>8, <1>9, ResultsKept

LEMMA WelcomeInit == Init => WelcomeInv
<1> SUFFICES ASSUME Init PROVE WelcomeInv
  OBVIOUS
<1>1. /\ client = NoSession /\ clientNonce = NoNonce /\ server = NewServer
      /\ posts = <<>> /\ events = <<>> /\ results = <<>> /\ hurt = <<>> /\ sent = <<>>
  BY DEF Init
<1>2. /\ NoSession.state = "NONE" /\ NewServer.issued = 0 /\ NewServer.session = 0
      /\ NewServer.last = <<>>
  BY DEF NoSession, NewServer, NoNonce
<1>3. Session = 1 /\ IsSeq(<<>>) /\ Range(<<>>) = {} /\ DOMAIN results = {}
  BY <1>1, EmptyIs DEF Session
<1>4. OrderInv
  BY <1>1, <1>2, <1>3 DEF OrderInv, Idle, Before
<1>5. StartInv
  BY <1>1 DEF StartInv, Known
<1>6. CalmInv
  BY <1>1 DEF CalmInv, Idle
<1>7. ResultsInv
  BY <1>3 DEF ResultsInv, RightPasswordOpens
<1> QED
  BY <1>4, <1>5, <1>6, <1>7, InitHolds DEF WelcomeInv

\* Nothing happens
LEMMA WelcomeSame ==
    ASSUME WelcomeInv, UNCHANGED vars
    PROVE  OrderInv' /\ StartInv' /\ CalmInv' /\ ResultsInv'
<1>1. /\ cfg' = cfg /\ client' = client /\ clientNonce' = clientNonce /\ server' = server
      /\ http' = http /\ posts' = posts /\ events' = events /\ results' = results
      /\ hurt' = hurt /\ sent' = sent
  BY DEF vars
<1>2. OrderInv' /\ StartInv'
  BY <1>1 DEF WelcomeInv, OrderInv, StartInv, Before, Idle, Session, Welcomed, Welcome,
              Settled, Quiet, Known
<1>3. CalmInv'
  <2>1. (Ended' <=> Ended) /\ (Ready' <=> Ready)
    BY <1>1 DEF Ended, Agreed, Settled, Quiet, Session, Ready, Guessing
  <2>2. /\ \A r : Verdict(r) => Verdict(r)'
        /\ \A m : IsMessage(m) => IsMessage(m)'
    BY <1>1 DEF Verdict, Good, Bad, Demanding, Settled, Quiet, Session, IsMessage
  <2>3. Unserved => Unserved'
    BY <1>1 DEF Unserved, Settled, Quiet, Session, Known, Demanding
  <2>4. AtServer => AtServer'
    BY <1>1, <2>2, <2>3 DEF AtServer, Session
  <2>5. (AtTransport => AtTransport') /\ (AtParser => AtParser')
    BY <1>1, <2>2 DEF AtTransport, AtParser
  <2>6. Session' = Session /\ Welcomed' = Welcomed /\ Idle' = Idle
    BY <1>1 DEF Session, Welcomed, Welcome, Idle
  <2> QED
    BY <1>1, <2>1, <2>4, <2>5, <2>6 DEF WelcomeInv, CalmInv, Quiet
<1>4. ResultsInv'
  BY <1>1, ResultsKept
<1> QED
  BY <1>2, <1>3, <1>4

LEMMA WelcomeNext == WelcomeInv /\ [Next]_vars => WelcomeInv'
<1> SUFFICES ASSUME WelcomeInv, [Next]_vars PROVE WelcomeInv'
  OBVIOUS
<1> DEFINE Kept == OrderInv' /\ StartInv' /\ CalmInv' /\ ResultsInv'
<1>1. IInv'
  BY NextHolds DEF WelcomeInv
<1>2. StartSync => Kept
  BY StartWelcome
<1>3. RequestFinished => Kept
  BY FinishedWelcome
<1>4. AuthRequired => Kept
  BY DemandWelcome
<1>5. HandleParsingComplete => Kept
  BY ParsedWelcome
<1>6. EndSession => Kept
  BY EndWelcome
<1>7. ASSUME NEW i \in DOMAIN posts, Serve(i) PROVE Kept
  BY <1>7, ServeWelcome
<1>8. ASSUME NEW i \in DOMAIN posts, Deliver(i) PROVE Kept
  BY <1>8, DeliverWelcome
<1>9. ASSUME NEW i \in DOMAIN posts, Fail(i) PROVE Kept
  BY <1>9, FailWelcome
<1>10. UNCHANGED vars => Kept
  BY WelcomeSame
<1> QED
  BY <1>1, <1>2, <1>3, <1>4, <1>5, <1>6, <1>7, <1>8, <1>9, <1>10
     DEF Next, ClientStep, Request, WelcomeInv

(***************************************************************************)
(* Who has the right password gets in, in any session that nothing         *)
(* disturbs and that does not follow a disturbed one, for any number of    *)
(* sessions, failures and attempts and whatever became of the sessions     *)
(* before (initiateSync, analyzeHeaderStatus, handleChallenge,             *)
(* handleStatusElement, handleFinal).  The application does not call       *)
(* init() of the transport: where it does, as the example of the transport *)
(* shows it, an answer is reported twice, and the second report ends the   *)
(* session.                                                                *)
(***************************************************************************)
THEOREM WelcomeOpens == Spec => [](~cfg.prepared => RightPasswordOpens)
<1>1. WelcomeInv => (~cfg.prepared => RightPasswordOpens)
  <2>1. RightPasswordOpens \/ Welcome
    BY DEF RightPasswordOpens
  <2> QED
    BY <2>1 DEF WelcomeInv, ResultsInv, Welcomed
<1> QED
  BY <1>1, WelcomeInit, WelcomeNext, PTL DEF Spec

=============================================================================
