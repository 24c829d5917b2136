------------------------ MODULE SessionAuthentication ------------------------
(***************************************************************************)
(* SessionAuthentication.cpp: who has to authenticate to whom, the         *)
(* credentials that are sent and checked, and what a challenge changes.    *)
(* An object of the class is a record, named after its members without the *)
(* leading i; a function returns the object as the code leaves it.         *)
(*                                                                         *)
(* Credentials (AuthHelper.cpp) are compared and never taken apart, so     *)
(* they are the record of what goes into them: no digest is computed.  A   *)
(* nonce is a number, and what NonceStorage.cpp keeps is one nonce for a   *)
(* pair of devices, or none.                                               *)
(***************************************************************************)
EXTENDS Integers

AuthTypes == {"NONE", "BASIC", "MD5"}

NoNonce == 0
NoCred  == [type |-> "NONE", password |-> "", nonce |-> NoNonce]
NoChal  == [type |-> "NONE", nonce |-> NoNonce]

(***************************************************************************)
(* The credentials of a user (encodeBasicB64Auth, encodeMD5Auth).          *)
(***************************************************************************)
Encoded(type, password, nonce) ==
    [type |-> type, password |-> password, nonce |-> IF type = "MD5" THEN nonce ELSE NoNonce]

(***************************************************************************)
(* setSessionParams: a device without local credentials does not ask the   *)
(* other one to authenticate.                                              *)
(***************************************************************************)
SetSessionParams(type, remotePassword, remoteNonce, localPassword, localNonce) ==
    [authType          |-> type,
     remotePassword    |-> remotePassword, remoteNonce |-> remoteNonce,
     localPassword     |-> localPassword,  localNonce  |-> localNonce,
     authedToRemote    |-> type = "NONE",
     remoteAuthPending |-> FALSE,
     remoteAuthed      |-> type = "NONE" \/ localPassword = "",
     localAuthPending  |-> FALSE]

-----------------------------------------------------------------------------
(***************************************************************************)
(* composeAuthentication: the credentials for the other device.  Without a *)
(* nonce they are a guess, and the flag stays as it is.                    *)
(***************************************************************************)
NonceToSend(a, nonce) == IF a.remoteNonce # NoNonce THEN a.remoteNonce ELSE nonce

ComposedCred(a, nonce) ==
    IF a.authType = "NONE" THEN <<>>
    ELSE <<Encoded(a.authType, a.remotePassword, NonceToSend(a, nonce))>>

ComposeAuthentication(a, nonce) ==
    [a EXCEPT !.remoteAuthPending = \/ @
                                    \/ a.authType = "BASIC"
                                    \/ a.authType = "MD5" /\ NonceToSend(a, nonce) # NoNonce]

(***************************************************************************)
(* handleChallenge: MD5 is never given up for basic, and credentials that  *)
(* were rejected are not sent a second time.  The stored nonce is the one  *)
(* the challenge brought.                                                  *)
(***************************************************************************)
\* Mutant: a device that takes any challenge it has not answered
MayAnswerAnyScheme(a, chal, nonce) ==
    CASE chal.type = "MD5" /\ a.authType = "MD5" -> ~a.remoteAuthPending /\ nonce # NoNonce
      [] chal.type = "MD5" /\ a.authType # "MD5" -> nonce # NoNonce
      [] chal.type = "BASIC"                     -> ~a.remoteAuthPending \/ a.authType = "MD5"
      [] OTHER                                   -> FALSE

MayAnswer(a, chal, nonce) ==
    CASE chal.type = "MD5" /\ a.authType = "MD5" -> ~a.remoteAuthPending /\ nonce # NoNonce
      [] chal.type = "MD5" /\ a.authType # "MD5" -> nonce # NoNonce
      [] chal.type = "BASIC"                     -> ~a.remoteAuthPending /\ a.authType = "BASIC"
      [] OTHER                                   -> FALSE

HandleChallenge(a, chal, nonce) ==
    IF MayAnswer(a, chal, nonce)
    THEN [auth |-> [a EXCEPT !.authType = chal.type], outcome |-> "RESEND"]
    ELSE [auth |-> a, outcome |-> "ABORT"]

(***************************************************************************)
(* analyzeHeaderStatus: what the other device says of our header.  A nonce *)
(* it sends along is the one for the next credentials, and with any        *)
(* verdict on them the old one is forgotten.                               *)
(***************************************************************************)
Rejections == {"INVALID_CRED", "MISSING_CRED"}

\* Mutant: a device that keeps the nonce of a challenge only
NextNonceOfRejection(status, nonce) ==
    IF status.data \in Rejections THEN status.chal.nonce ELSE nonce

NextNonce(status, nonce) ==
    IF status.data \in Rejections \cup {"AUTH_ACCEPTED"} THEN status.chal.nonce ELSE nonce

AnalyzeHeaderStatus(a, status, nonce) ==
    CASE status.data \in {"SUCCESS", "AUTH_ACCEPTED"} ->
           [auth    |-> [a EXCEPT !.authedToRemote = TRUE, !.remoteAuthPending = FALSE],
            outcome |-> "OK"]
      [] status.data \in Rejections ->
           LET rejected == [a EXCEPT !.authedToRemote = FALSE]
           IN IF a.authType = "NONE" \/ status.chal = NoChal
              THEN [auth |-> rejected, outcome |-> "ABORT"]
              ELSE HandleChallenge(rejected, status.chal, nonce)
      [] OTHER -> [auth |-> a, outcome |-> "NOT_HANDLED"]

-----------------------------------------------------------------------------
(***************************************************************************)
(* The other half: credentials that arrive (handleAuthentication).  fresh  *)
(* is the time, which generateNonce takes for a nonce.  The result has the *)
(* status that is sent, the nonce that is stored and what becomes of the   *)
(* session.                                                                *)
(***************************************************************************)
LocalNonce(a, nonce) == IF a.localNonce # NoNonce THEN a.localNonce ELSE nonce

Answer(a, data, chal, nonce, outcome) ==
    [auth |-> a, status |-> [data |-> data, chal |-> chal], nonce |-> nonce, outcome |-> outcome]

Accept(a) == [a EXCEPT !.localAuthPending = FALSE, !.remoteAuthed = TRUE]
Refuse(a) == [a EXCEPT !.localAuthPending = FALSE, !.remoteAuthed = FALSE]
Demand(a) == [a EXCEPT !.localAuthPending = TRUE,  !.remoteAuthed = FALSE]

BasicChallenge  == [type |-> "BASIC", nonce |-> NoNonce]
MD5Challenge(n) == [type |-> "MD5", nonce |-> n]

\* An MD5 digest raises what is demanded from now on to MD5.  The configured
\* nonce is good for one comparison.
HandleMD5(a, cred, nonce, fresh) ==
    LET raised == [a EXCEPT !.authType = "MD5", !.localNonce = NoNonce]
        right  == cred = Encoded("MD5", a.localPassword, LocalNonce(a, nonce))
    IN CASE right ->
              Answer(Accept(raised), "AUTH_ACCEPTED", MD5Challenge(fresh), fresh, "OK")
         [] ~right /\ a.localAuthPending ->
              Answer(Refuse(raised), "INVALID_CRED", NoChal, nonce, "ABORT")
         [] OTHER ->
              Answer(Demand(raised), "INVALID_CRED", MD5Challenge(fresh), fresh, "OK")

\* Who demands MD5 and is sent a password challenges for a password again: the
\* challenge is made without looking at what is demanded, and the assertion in
\* generateChallenge() is left out of a release build
HandleBasic(a, cred, nonce) ==
    LET right == a.authType # "MD5" /\ cred = Encoded("BASIC", a.localPassword, NoNonce)
    IN CASE right -> Answer(Accept(a), "AUTH_ACCEPTED", NoChal, nonce, "OK")
         [] ~right /\ a.localAuthPending ->
              Answer(Refuse(a), "INVALID_CRED", NoChal, nonce, "ABORT")
         [] OTHER -> Answer(Demand(a), "INVALID_CRED", BasicChallenge, nonce, "OK")

HandleAuthentication(a, cred, nonce, fresh) ==
    IF cred.type = "MD5" THEN HandleMD5(a, cred, nonce, fresh) ELSE HandleBasic(a, cred, nonce)

(***************************************************************************)
(* analyzeHeader: credentials are taken from a device that is not          *)
(* authenticated yet, and from no other one.                               *)
(***************************************************************************)
AnalyzeHeader(a, cred, nonce, fresh) ==
    CASE cred = NoCred -> Answer(a, "SUCCESS", NoChal, nonce, "NOT_HANDLED")
      [] cred # NoCred /\ a.remoteAuthed -> Answer(a, "NONE", NoChal, nonce, "ABORT")
      [] OTHER -> HandleAuthentication(a, cred, nonce, fresh)

=============================================================================
