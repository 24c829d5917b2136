---------------------------- MODULE HTTPTransport ----------------------------
(***************************************************************************)
(* HTTPTransport.cpp: messages are POST requests, and what comes back is   *)
(* handled when the event loop gets to it.  The first message of a session *)
(* is sent again when it times out or is answered with nothing.            *)
(*                                                                         *)
(* A transport is a record, named after its members; a function returns    *)
(* what it makes of it, what it posts, what it hands to the parser and     *)
(* what it reports to the session.                                         *)
(***************************************************************************)
EXTENDS Integers, Sequences

\* How a request ends (QNetworkReply): with an answer, nothing, or an error
Answered(reply) == [error |-> "none", data |-> <<reply>>]
Nothing         == [error |-> "none", data |-> <<>>]
TimedOut        == [error |-> "timeout", data |-> <<>>]
Broken          == [error |-> "other", data |-> <<>>]

Result(h, posted, read, event) ==
    [http |-> h, posted |-> posted, read |-> read, event |-> event]

(***************************************************************************)
(* A transport as it is constructed and configured (setProperty), and      *)
(* init(), which connects its slots to the network once more each time it  *)
(* is called.                                                              *)
(***************************************************************************)
NewTransport(maxAttempts) ==
    [connections |-> 0, maxNumberOfResendAttempts |-> maxAttempts,
     numberOfResendAttempts |-> 0, firstMessageSent |-> FALSE, firstMessage |-> <<>>,
     handleIncomingData |-> FALSE, incomingData |-> <<>>]

InitTransport(h) == [h EXCEPT !.connections = @ + 1, !.firstMessageSent = FALSE]

(***************************************************************************)
(* sendSyncML() and doSend(): until something came back the message is     *)
(* kept, to be sent again.                                                 *)
(***************************************************************************)
DoSend(h, message) ==
    IF h.firstMessageSent THEN h
    ELSE [h EXCEPT !.numberOfResendAttempts = 0, !.firstMessage = <<message>>]

(***************************************************************************)
(* BaseTransport::receive(): what arrived before is handed over at once.   *)
(***************************************************************************)
ReceiveNext(h) ==
    IF h.incomingData # <<>>
    THEN Result([h EXCEPT !.incomingData = <<>>], <<>>, h.incomingData, "NONE")
    ELSE Result([h EXCEPT !.handleIncomingData = TRUE], <<>>, <<>>, "NONE")

(***************************************************************************)
(* BaseTransport::receive( data ): one message, read when it is waited for.*)
(***************************************************************************)
ReceiveData(h, data) ==
    CASE data = <<>> ->
           Result(h, <<>>, <<>>, "TRANSPORT_DATA_INVALID_CONTENT")
      [] data # <<>> /\ h.handleIncomingData ->
           Result([h EXCEPT !.handleIncomingData = FALSE], <<>>, data, "NONE")
      [] OTHER ->
           Result([h EXCEPT !.incomingData = data], <<>>, <<>>, "NONE")

(***************************************************************************)
(* shouldResend() and resend()                                             *)
(***************************************************************************)
ShouldResend(h) ==
    ~h.firstMessageSent /\ h.numberOfResendAttempts < h.maxNumberOfResendAttempts

Resend(h) ==
    Result([h EXCEPT !.numberOfResendAttempts = @ + 1], h.firstMessage, <<>>, "NONE")

(***************************************************************************)
(* httpRequestFinished: one request has ended.                             *)
(***************************************************************************)
\* Mutant: a time out that is not reported when the attempts are used up
FinishedUnreported(h, r) ==
    CASE r.error = "timeout" -> IF ShouldResend(h) THEN Resend(h)
                                ELSE Result(h, <<>>, <<>>, "NONE")
      [] r.error = "other"   -> Result(h, <<>>, <<>>, "TRANSPORT_CONNECTION_FAILED")
      [] OTHER               -> IF r.data = <<>> /\ ShouldResend(h) THEN Resend(h)
                                ELSE ReceiveData([h EXCEPT !.firstMessageSent = TRUE], r.data)

HttpRequestFinished(h, r) ==
    CASE r.error = "timeout" ->
           IF ShouldResend(h) THEN Resend(h)
           ELSE Result(h, <<>>, <<>>, "TRANSPORT_CONNECTION_TIMEOUT")
      [] r.error = "other" ->
           Result(h, <<>>, <<>>, "TRANSPORT_CONNECTION_FAILED")
      [] r.error = "none" /\ r.data = <<>> /\ ShouldResend(h) ->
           Resend(h)
      [] OTHER ->
           ReceiveData([h EXCEPT !.firstMessageSent = TRUE, !.firstMessage = <<>>], r.data)

(***************************************************************************)
(* What the end of a request puts into the event loop: one call for each   *)
(* time the slot is connected.  The first one reads the answer, and leaves *)
(* nothing of it to the others.                                            *)
(***************************************************************************)
Finished(h, r) ==
    [i \in 1 .. h.connections |->
        [slot |-> "httpRequestFinished",
         what |-> IF i = 1 THEN r ELSE [r EXCEPT !.data = <<>>]]]

=============================================================================
