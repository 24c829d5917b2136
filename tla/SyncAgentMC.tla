---------------------------- MODULE SyncAgentMC ----------------------------
(***************************************************************************)
(* Instances of SyncAgent for TLC.                                         *)
(***************************************************************************)
EXTENDS SyncAgentProps

\* One session of four messages, started by a client, where nothing fails
Calm == [first |-> "request", length |-> 4, unprepared |-> {}, garbled |-> FALSE,
         starts |-> 1, listens |-> 1, aborts |-> 0, breaks |-> 0, timeouts |-> FALSE,
         early |-> FALSE, deletes |-> TRUE]

\* Started by a server with an alert
Notified == [Calm EXCEPT !.first = "alert", !.length = 3]

\* Workers give up waiting at any time, and the applications try again
Twice == [Calm EXCEPT !.timeouts = TRUE, !.length = 2, !.starts = 2, !.listens = 2]

\* No application aborts what it has just started (early)
DevicesConfigs ==
    {Calm, Notified,
     [Notified EXCEPT !.timeouts = TRUE, !.aborts = 1],
     [Twice EXCEPT !.listens = 1, !.aborts = 1],
     [Twice EXCEPT !.starts = 1, !.breaks = 1],
     [Twice EXCEPT !.garbled = TRUE],
     [Twice EXCEPT !.unprepared = {"client"}],
     [Twice EXCEPT !.unprepared = {"server"}],
     [Twice EXCEPT !.first = "san", !.starts = 1]}
=============================================================================
