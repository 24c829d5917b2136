------------------------- MODULE SessionOpeningProps -------------------------
(***************************************************************************)
(* What makes the opening of a session correct: credentials are given to   *)
(* no one for less than was agreed, a session opens if and only if it may, *)
(* and sending a message again does no harm.                               *)
(***************************************************************************)
EXTENDS SessionOpening

(***************************************************************************)
(* The password of a user who asked for MD5 is never sent as it is, and    *)
(* neither is one in a session that has come to MD5, whatever the server   *)
(* asks for.                                                               *)
(***************************************************************************)
NoDowngrade ==
    \A i \in DOMAIN sent :
        sent[i].cred.type = "BASIC" =>
            cfg.type = "BASIC" /\ \A j \in 1 .. i : sent[j].cred.type # "MD5"

(***************************************************************************)
(* A client gets behind its initialization only in a session in which the  *)
(* server has accepted it, even if the server answers as if it had; and a  *)
(* client that sends an initialization does not compose its items, nor     *)
(* send any, before.  A sync without an initialization phase (noInit)      *)
(* sends items with its credentials, in the first message, so nothing can  *)
(* keep those back (composeClientInitializationPackage); it is only held   *)
(* to the first half.                                                      *)
(***************************************************************************)
OpensAccepted ==
    /\ client.state = "OPEN" => Session \in accepted
    /\ \A k \in DOMAIN results : results[k] = "OPEN" => k \in accepted

ItemsOut ==
    \/ \E p \in Range(client.queue) : p.kind = "Changes"
    \/ \E message \in Range(sent) : "Changes" \in Range(message.parts)

AcceptedFirst ==
    OpensAccepted /\ (~cfg.noInit /\ ItemsOut => Session \in accepted)

(***************************************************************************)
(* Who has the right password gets in, in any session that nothing         *)
(* disturbs and that does not follow a disturbed one: after an answer that *)
(* was lost the two sides may hold different nonces, and it takes one      *)
(* session that fails to agree on one again.  This is so wherever the      *)
(* server takes what the client was told to use, with a first package in   *)
(* one message, and no nonce of the user's own.                            *)
(***************************************************************************)
Welcome ==
    /\ cfg.server # "refusing" /\ cfg.password = "right" /\ cfg.nonce = NoNonce
    /\ ~cfg.noInit /\ cfg.room > 3
    /\ \/ cfg.type = cfg.demands
       \/ cfg.server = "strict" /\ cfg.type = "BASIC"
       \/ cfg.server = "class" /\ cfg.type = "MD5" /\ cfg.demands = "BASIC"

RightPasswordOpens ==
    Welcome => \A k \in DOMAIN results :
                   {k, k - 1} \cap Range(hurt) = {} => results[k] = "OPEN"

(***************************************************************************)
(* When a session opens, the server has the initialization of the client   *)
(* whole and once, however often it asked for it, with two exceptions: a   *)
(* request that was given up came in after its repetition; or the first    *)
(* message, too small for the package, was refused.  resendPackage then    *)
(* composes the package behind what is left of the first, the credentials  *)
(* go out with the old Final element, and the session opens on that.       *)
(***************************************************************************)
Initialization ==
    <<"DevInf", "Alert">> \o (IF cfg.noInit THEN <<"Changes">> ELSE <<>>) \o <<"Final">>

\* A package was composed again while some of it was waiting
ComposedBehind ==
    /\ sent # <<>> /\ ~Contains(sent[1].parts, "Final")
    /\ \E i \in DOMAIN sent : sent[i].id > 1 /\ sent[i].cred # NoCred

InitializedOnce ==
    client.state = "OPEN" /\ ~(\E i \in DOMAIN posts : posts[i].abandoned) /\ ~ComposedBehind
        => SelectSeq(server.taken, LAMBDA kind : kind # "Cred") = Initialization

-----------------------------------------------------------------------------
(***************************************************************************)
(* Every session the client starts opens or fails: challenges come to an   *)
(* end, and so do repetitions.                                             *)
(***************************************************************************)
EveryOpeningEnds == <>(Len(results) = cfg.sessions)

=============================================================================
