------------------------ MODULE SessionNotificationMC ------------------------
(***************************************************************************)
(* Instances of SessionNotification.                                       *)
(***************************************************************************)
EXTENDS SessionNotificationProps

Text(letter, n) == [i \in 1 .. n |-> letter]
Db(mime, uri) == [mime |-> mime, uri |-> uri]

\* MIME types without a number of their own are 100 and more
Contacts == Db(7, Text(67, 3))
Calendar == Db(6, UriPrefix \o Text(68, 2))
Tasks    == Db(101, Text(84, 2))
Mails    == Db(102, Text(77, 2))

Plain == [name |-> Text(83, 2), dbs |-> <<Contacts>>, code |-> 206, missing |-> FALSE,
          uiMode |-> 1, initiator |-> 1, version |-> "SYNCML_1_2",
          plugins |-> {7, 6, 101}, anchors |-> {7, 101}, slow |-> FALSE, noInit |-> FALSE,
          mappings |-> <<[part |-> Text(84, 2), mime |-> 101], [part |-> Text(84, 1), mime |-> 6]>>,
          signed |-> TRUE, faulty |-> FALSE]

Builds(configs) == {[c EXCEPT !.signed = signed] : c \in configs, signed \in BOOLEAN}

\* Every mode, with the databases in every order, and with those a client lacks
Modes ==
    {[Plain EXCEPT !.code = code, !.dbs = dbs, !.slow = slow, !.noInit = noInit] :
        code \in SyncCodes, slow \in BOOLEAN, noInit \in BOOLEAN,
        dbs \in {<<Contacts>>, <<Contacts, Calendar, Tasks>>, <<Tasks, Contacts>>}}
Lacking ==
    {[Plain EXCEPT !.dbs = dbs, !.plugins = plugins] :
        dbs \in {<<Contacts, Calendar>>, <<Calendar, Mails>>, <<Mails>>,
                 <<Tasks, Tasks>>, <<Contacts, Tasks, Contacts>>},
        plugins \in {{7}, {7, 6}, {7, 6, 101}}}

\* What there is room for: many databases, long names, long URIs
Many(n) == [i \in 1 .. n |-> Db(100 + i, <<64 + i>>)]
Limits ==
    {[Plain EXCEPT !.dbs = Many(n), !.plugins = 101 .. 120,
                   !.mappings = [i \in 1 .. 20 |-> [part |-> <<64 + i>>, mime |-> 100 + i]]] :
        n \in {1, 7, 8, 15, 16, 17}}
    \cup {[Plain EXCEPT !.name = Text(83, n)] : n \in {0, 127, 128, 255, 256}}
    \cup {[Plain EXCEPT !.dbs = <<Db(7, Text(67, n)), Calendar>>] : n \in {0, 127, 128, 255}}

\* Other servers, with headers of their own
Headers ==
    {[Plain EXCEPT !.uiMode = mode, !.initiator = initiator, !.version = version] :
        mode \in 0 .. 3, initiator \in 0 .. 1, version \in DOMAIN SYNCMLVERSION}

Faulty ==
    {[Plain EXCEPT !.faulty = TRUE, !.dbs = dbs, !.name = name] :
        dbs \in {<<Contacts>>, <<Contacts, Calendar, Tasks>>}, name \in {<<>>, Text(83, 3)}}

NotificationConfigs ==
    Builds(Modes \cup Lacking \cup Limits \cup Headers \cup Faulty)
        \cup {[Plain EXCEPT !.missing = TRUE]}

=============================================================================
