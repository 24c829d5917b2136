--------------------------- MODULE SessionOpeningMC ---------------------------
(***************************************************************************)
(* Instances of SessionOpening.                                            *)
(***************************************************************************)
EXTENDS SessionOpeningProps

Plain == [type |-> "BASIC", password |-> "right", nonce |-> NoNonce, noInit |-> FALSE,
          room |-> 9, attempts |-> 0, prepared |-> FALSE,
          server |-> "strict", demands |-> "BASIC", repeats |-> FALSE,
          faults |-> 0, sessions |-> 1]

\* Every client against every server, three times, with a failure
Clients ==
    {[Plain EXCEPT !.type = type, !.server = kind, !.demands = demands, !.sessions = 3,
                   !.faults = 1, !.attempts = attempts, !.repeats = repeats] :
        type \in AuthTypes, kind \in {"class", "strict"}, demands \in AuthTypes,
        attempts \in 0 .. 1, repeats \in BOOLEAN}

\* Who gets no further: a wrong password, a server that wants something else
Refused ==
    {[Plain EXCEPT !.type = type, !.server = kind, !.password = "wrong", !.demands = demands,
                   !.sessions = 2] :
        type \in {"BASIC", "MD5"}, kind \in {"class", "strict", "refusing"},
        demands \in {"BASIC", "MD5"}}

\* Nonces of the user's own, messages that are too small
Odd ==
    {[Plain EXCEPT !.type = "MD5", !.demands = "MD5", !.nonce = 1, !.sessions = 2],
     [Plain EXCEPT !.room = 2], [Plain EXCEPT !.noInit = TRUE],
     [Plain EXCEPT !.room = 3, !.demands = "MD5"],
     [Plain EXCEPT !.room = 4, !.type = "MD5", !.demands = "MD5"],
     [Plain EXCEPT !.attempts = 2, !.faults = 2, !.type = "MD5", !.demands = "MD5"],
     [Plain EXCEPT !.attempts = 1, !.faults = 2, !.room = 2, !.sessions = 2]}

OpeningConfigs == Clients \cup Refused \cup Odd

\* The example of SyncAgent.h
Example == {[Plain EXCEPT !.prepared = TRUE]}

=============================================================================
