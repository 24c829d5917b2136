---------------------------- MODULE SessionSaving ----------------------------
(***************************************************************************)
(* What two devices remember of their sessions: the anchors that are       *)
(* compared when a session begins, and the saving of it at its end, one    *)
(* statement of SQL after the other.  A device may stop between any two of *)
(* them, and any of them may fail.                                         *)
(*                                                                         *)
(* What happens between is SyncSession: a client that ends a session well  *)
(* has an answer of the server, who ended it before; the last message is   *)
(* sent before the server saves.  The clock is the same for both devices,  *)
(* which only ever compare an anchor with what they were told it was.      *)
(***************************************************************************)
EXTENDS ChangeLog, FiniteSets

CONSTANT Configs

Devices == {"client", "server"}
Other(d) == IF d = "client" THEN "server" ELSE "client"

(***************************************************************************)
(* cfg bounds a behaviour: the databases and the directions of sessions,   *)
(* their number, and what goes wrong (faults).  brisk is whether two may   *)
(* begin in the same second, transacts whether transactions can be had.    *)
(***************************************************************************)
Cfg == [dbs : SUBSET Db, dirs : SUBSET Directions, sessions : Nat, faults : Nat,
        brisk : BOOLEAN, transacts : BOOLEAN]

ASSUME ConfigsAssumption == Configs \subseteq Cfg

VARIABLES
    cfg,
    clock,      \* in seconds
    number,     \* of the session
    session,    \* [state, dir, anchor, mode, read]
    disk,       \* what a device has stored for good
    open,       \* the tables as its statements see them
    save,       \* [at, db, left, rows, transaction]: how far its saving is
    faults,     \* history: what went wrong
    hurt        \* history: the last session that something went wrong with

vars == <<cfg, clock, number, session, disk, open, save, faults, hurt>>

Idle == [at |-> "idle", db |-> "none", left |-> {}, rows |-> 0, transaction |-> FALSE]
NoSession == [state |-> "none", dir |-> "TWO_WAY", anchor |-> 0,
              mode |-> [db \in Db |-> "SLOW"], read |-> [d \in Devices |-> "all"]]

-----------------------------------------------------------------------------
(***************************************************************************)
(* The beginning (prepareSync, setupSyncTargets, setupTargetByClient): the *)
(* next anchor is the time.  A client without anchors asks for a slow      *)
(* sync, and a server whose anchors are not the ones it is told too.       *)
(***************************************************************************)
\* Mutant: the client's word is taken for it
ModeUnchecked(k, read) ==
    IF LoadAnchors(disk["client"], k, read["client"]).remote = 0 THEN "SLOW" ELSE "FAST"

Mode(k, read) ==
    LET client == LoadAnchors(disk["client"], k, read["client"])
        server == LoadAnchors(disk["server"], k, read["server"])
    IN IF client.remote # 0 /\ client.local # 0 /\ server.remote = client.local
       THEN "FAST" ELSE "SLOW"

Resting == session.state = "none" /\ \A d \in Devices : save[d].at = "idle"

StartSync ==
    /\ Resting /\ number < cfg.sessions /\ number' = number + 1
    /\ \E second \in IF cfg.brisk THEN {0, 1} ELSE {1} : clock' = clock + second
    /\ \E dir \in cfg.dirs, read \in [Devices -> Reads] :
           /\ session' = [state |-> "open", dir |-> dir, anchor |-> clock', read |-> read,
                          mode |-> [db \in Db |-> Mode(<<db, dir>>, read)]]
           /\ IF \A d \in Devices : read[d] = "all" THEN UNCHANGED <<faults, hurt>>
              ELSE /\ faults < cfg.faults /\ faults' = faults + 1
                   /\ hurt' = number'
    /\ UNCHANGED <<cfg, disk, open, save>>

(***************************************************************************)
(* The end, exitSync(), of a session that went well: a log for each        *)
(* database, one after the other.                                          *)
(***************************************************************************)
Saving(first, db, left) ==
    [at |-> first, db |-> db, left |-> left, rows |-> 0, transaction |-> FALSE]
BeginAt(d, first) ==
    \E db \in cfg.dbs : save' = [save EXCEPT ![d] = Saving(first, db, cfg.dbs \ {db})]

Finish(d) ==
    /\ session.state = (IF d = "server" THEN "open" ELSE "served")
    /\ session' = [session EXCEPT !.state = IF d = "server" THEN "served" ELSE "none"]
    /\ save[d].at = "idle" /\ BeginAt(d, "tables")
    /\ UNCHANGED <<cfg, clock, number, disk, open, faults, hurt>>

\* The session fails, for both or for the client
Abandon ==
    /\ session.state # "none" /\ session' = [session EXCEPT !.state = "none"]
    /\ faults < cfg.faults /\ faults' = faults + 1 /\ hurt' = number
    /\ UNCHANGED <<cfg, clock, number, disk, open, save>>

-----------------------------------------------------------------------------
(***************************************************************************)
(* ChangeLog::save(), statement by statement                               *)
(***************************************************************************)
SaveKey(d) == <<save[d].db, session.dir>>
NewRow     == Row(number, session.anchor, session.anchor)

\* A statement writes to the file unless a transaction is open
Write(d, tables) ==
    /\ open' = [open EXCEPT ![d] = tables]
    /\ disk' = IF save[d].transaction THEN disk ELSE [disk EXCEPT ![d] = tables]

GoTo(d, at) == save' = [save EXCEPT ![d].at = at]

\* saveSession() goes on to the next database, whatever became of this one
NextDb(d, first) ==
    \/ save[d].left = {} /\ save' = [save EXCEPT ![d] = Idle]
    \/ \E db \in save[d].left :
           save' = [save EXCEPT ![d] = Saving(first, db, save[d].left \ {db})]

EnsureTables(d) ==
    /\ save[d].at = "tables" /\ GoTo(d, "begin")
    /\ UNCHANGED <<disk, open>>

\* Mutant: the logs are saved without a transaction
BeginNothing(d) ==
    /\ save[d].at = "begin" /\ GoTo(d, "deleteAnchors")
    /\ UNCHANGED <<disk, open>>

\* What becomes of transaction() is remembered, and the saving goes on
Begin(d) ==
    /\ save[d].at = "begin"
    /\ save' = [save EXCEPT ![d].at = "deleteAnchors", ![d].transaction = cfg.transacts]
    /\ UNCHANGED <<disk, open>>

SaveAnchors(d) ==
    \/ /\ save[d].at = "deleteAnchors" /\ GoTo(d, "insertAnchors")
       /\ Write(d, RemoveAnchors(open[d], SaveKey(d)))
    \/ /\ save[d].at = "insertAnchors" /\ GoTo(d, "deleteMaps")
       /\ Write(d, InsertAnchors(open[d], SaveKey(d), NewRow))

SaveMaps(d) ==
    \/ /\ save[d].at = "deleteMaps" /\ GoTo(d, "insertMaps")
       /\ Write(d, RemoveMaps(open[d], SaveKey(d)))
    \/ /\ save[d].at = "insertMaps" /\ save[d].rows < Maps
       /\ save' = [save EXCEPT ![d].rows = @ + 1]
       /\ Write(d, InsertMap(open[d], SaveKey(d), <<number, save[d].rows + 1>>))
    \/ /\ save[d].at = "insertMaps" /\ save[d].rows = Maps /\ GoTo(d, "commit")
       /\ UNCHANGED <<disk, open>>

\* Mutant: only the first of the logs is saved
CommitLast(d) ==
    /\ save[d].at = "commit" /\ save' = [save EXCEPT ![d] = Idle]
    /\ disk' = [disk EXCEPT ![d] = open[d]] /\ UNCHANGED open

Commit(d) ==
    /\ save[d].at = "commit" /\ NextDb(d, "tables")
    /\ disk' = [disk EXCEPT ![d] = open[d]] /\ UNCHANGED open

(***************************************************************************)
(* SyncAgent::cleanUp() forgets the logs of a direction, between sessions; *)
(* ChangeLog::remove() has no transaction.                                 *)
(***************************************************************************)
Cleaning(d) == save[d].at \in {"cleanAnchors", "cleanMaps"}

CleanUp(d) ==
    /\ Resting /\ number < cfg.sessions /\ faults < cfg.faults /\ faults' = faults + 1
    /\ hurt' = number
    /\ \E dir \in cfg.dirs : session' = [session EXCEPT !.dir = dir]
    /\ BeginAt(d, "cleanAnchors")
    /\ UNCHANGED <<cfg, clock, number, disk, open>>

\* Mutant: the mappings are removed first
RemoveBackwards(d) ==
    \/ /\ save[d].at = "cleanAnchors" /\ GoTo(d, "cleanMaps")
       /\ Write(d, RemoveMaps(open[d], SaveKey(d)))
    \/ /\ save[d].at = "cleanMaps" /\ NextDb(d, "cleanAnchors")
       /\ Write(d, RemoveAnchors(open[d], SaveKey(d)))

Remove(d) ==
    \/ /\ save[d].at = "cleanAnchors" /\ GoTo(d, "cleanMaps")
       /\ Write(d, RemoveAnchors(open[d], SaveKey(d)))
    \/ /\ save[d].at = "cleanMaps" /\ NextDb(d, "cleanAnchors")
       /\ Write(d, RemoveMaps(open[d], SaveKey(d)))

Statement(d) ==
    /\ EnsureTables(d) \/ Begin(d) \/ SaveAnchors(d) \/ SaveMaps(d) \/ Commit(d) \/ Remove(d)
    /\ UNCHANGED <<cfg, clock, number, session, faults, hurt>>

(***************************************************************************)
(* A statement fails: what its transaction did is undone, if there is one, *)
(* and the log of the next database is next.                               *)
(***************************************************************************)
Fail(d) ==
    /\ save[d].at \notin {"idle", "begin"}
    /\ NextDb(d, IF Cleaning(d) THEN "cleanAnchors" ELSE "tables")
    /\ open' = [open EXCEPT ![d] = disk[d]]
    /\ faults < cfg.faults /\ faults' = faults + 1 /\ hurt' = number
    /\ UNCHANGED <<cfg, clock, number, session, disk>>

(***************************************************************************)
(* A device stops.  A client may still end a session well whose server     *)
(* stopped before it saved.                                                *)
(***************************************************************************)
Crash(d) ==
    /\ session.state # "none" \/ save[d].at # "idle"
    /\ save' = [save EXCEPT ![d] = Idle] /\ open' = [open EXCEPT ![d] = disk[d]]
    /\ session' = IF d = "server" /\ session.state = "served" THEN session
                  ELSE [session EXCEPT !.state = "none"]
    /\ faults < cfg.faults /\ faults' = faults + 1 /\ hurt' = number
    /\ UNCHANGED <<cfg, clock, number, disk>>

-----------------------------------------------------------------------------
Init ==
    /\ cfg \in Configs /\ clock = 1 /\ number = 0 /\ session = NoSession
    /\ disk = [d \in Devices |-> NoTables] /\ open = [d \in Devices |-> NoTables]
    /\ save = [d \in Devices |-> Idle] /\ faults = 0 /\ hurt = 0

Device(d) == Finish(d) \/ Statement(d) \/ Fail(d) \/ Crash(d) \/ CleanUp(d)

Next == StartSync \/ Abandon \/ \E d \in Devices : Device(d)

Spec == Init /\ [][Next]_vars

=============================================================================
