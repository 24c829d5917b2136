---------------------------- MODULE SyncSessionMC ----------------------------
(***************************************************************************)
(* Instances of SyncSession for TLC: the databases, their items and the    *)
(* configurations of the two sides.                                        *)
(***************************************************************************)
EXTENDS SyncSessionProps

\* In each database a party changed one item and has two more
MCDb    == {"contacts", "calendar"}
MCItem  == {"c1", "c2", "c3", "s1", "s2", "s3"}
MCFresh == [p \in Party |-> [d \in MCDb |-> IF p = Client THEN <<"c1">> ELSE <<"s1">>]]
MCWhole == [p \in Party |-> [d \in MCDb |->
               IF p = Client THEN <<"c1", "c2", "c3">> ELSE <<"s1", "s2", "s3">>]]

Mode(dir, init) == [dir |-> dir, init |-> init, type |-> "FAST"]

\* A configuration of two databases: everything else as it is by default, and
\* messages that are large enough for everything
Default(mode) ==
    [noInit |-> FALSE, mode |-> mode, dbs |-> <<"contacts", "calendar">>,
     served |-> MCDb, first |-> FALSE, mismatch |-> {}, fastMaps |-> FALSE,
     omit |-> FALSE, room |-> 20, fillers |-> {}, maxChanges |-> 3]

\* Messages with room for next to nothing, that may be cut anywhere but in the
\* first package
Small(config) ==
    [config EXCEPT !.room = 3, !.fillers = {"Sync", "Map"}, !.maxChanges = 2]

\* One database, in every direction, started by either side, its anchors
\* matching or not, synced before or not, slow by configuration or not
OneDb ==
    {[Default([Mode(dir, init) EXCEPT !.type = type])
        EXCEPT !.dbs = <<"contacts">>, !.first = first, !.mismatch = mismatch,
               !.fastMaps = fastMaps] :
        dir \in Directions, init \in Party, type \in {"FAST", "SLOW"},
        first \in BOOLEAN, mismatch \in {{}, MCDb}, fastMaps \in BOOLEAN}

\* Two databases, of which the server has some and knows the anchors of some
TwoDbs ==
    {[Default(Mode("TWO_WAY", init)) EXCEPT !.served = served, !.mismatch = mismatch] :
        init \in Party, served \in SUBSET MCDb, mismatch \in SUBSET MCDb}

\* Small messages, in every direction, of one database or of two, with mappings sent
\* fast or in a package of their own.  A NEXT_MESSAGE alert for each database has to fit
SmallMessages ==
    {[Small(Default(Mode(dir, init))) EXCEPT !.dbs = dbs, !.room = 2 + Len(dbs),
                                             !.first = first, !.fastMaps = fastMaps] :
        dir \in Directions, init \in Party,
        dbs \in {<<"contacts">>, <<"contacts", "calendar">>},
        first \in BOOLEAN, fastMaps \in BOOLEAN}

\* Synchronization without a separate initialization phase
WithoutInit ==
    {[Default(Mode(dir, init)) EXCEPT !.noInit = TRUE, !.first = first,
                                      !.fastMaps = fastMaps] :
        dir \in {"TWO_WAY", "FROM_SERVER"}, init \in Party, first \in BOOLEAN,
        fastMaps \in BOOLEAN}

\* All the sessions in which nothing fails
Sessions == OneDb \cup TwoDbs \cup SmallMessages \cup WithoutInit

\* Two databases, and a first package that may be cut between their alerts
Split ==
    {[Default(Mode("TWO_WAY", init)) EXCEPT !.room = 3, !.fillers = {"Alert"}] :
        init \in Party}

\* A client that sends its mappings fast, and then may have nothing left to say
Omitting ==
    {[Default(Mode("TWO_WAY", Client)) EXCEPT !.dbs = <<"contacts">>,
                                              !.fastMaps = TRUE, !.omit = TRUE,
                                              !.fillers = {"Sync"}]}

\* What faults are let loose on
Faulty ==
    {[Small(Default(Mode(dir, init))) EXCEPT !.room = 4, !.dbs = <<"contacts">>,
                                             !.mismatch = mismatch] :
        dir \in Directions, init \in Party, mismatch \in {{}, MCDb}}

\* The changes go with the alerts, in one message or in several: the anchors
\* match, or what was sent of them is reverted
Together ==
    {[Small(Default(Mode("TWO_WAY", Client))) EXCEPT !.dbs = <<"contacts">>, !.noInit = TRUE,
                                                     !.fillers = fillers, !.mismatch = mismatch] :
        fillers \in {{}, {"Sync"}}, mismatch \in {{}, MCDb}}

Unlucky == Faulty \cup Split \cup Omitting \cup Together

-----------------------------------------------------------------------------
(***************************************************************************)
(* The instances that show where a comment and the code disagree.          *)
(***************************************************************************)
\* The changes are sent with the alerts, and the anchors do not match
RevertedWithoutInit ==
    {[Default(Mode("TWO_WAY", Client)) EXCEPT
        !.dbs = <<"contacts">>, !.noInit = TRUE, !.mismatch = MCDb]}

=============================================================================
