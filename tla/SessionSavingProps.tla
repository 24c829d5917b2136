-------------------------- MODULE SessionSavingProps --------------------------
(***************************************************************************)
(* What the saving of a session must guarantee.                            *)
(***************************************************************************)
EXTENDS SessionSaving

Stages == {"idle", "tables", "begin", "deleteAnchors", "insertAnchors",
           "deleteMaps", "insertMaps", "commit", "cleanAnchors", "cleanMaps"}

(* Every variable has its type.                                            *)
TypeOK ==
    /\ cfg \in Configs /\ clock \in Nat /\ number \in Nat
    /\ session \in [state : {"none", "open", "served"}, dir : Directions, anchor : Nat,
                    mode : [Db -> {"SLOW", "FAST"}], read : [Devices -> Reads]]
    /\ disk \in [Devices -> Tables] /\ open \in [Devices -> Tables]
    /\ save \in [Devices -> [at : Stages, db : Db \cup {"none"}, left : SUBSET Db,
                             rows : 0 .. Maps, transaction : BOOLEAN]]
    /\ \A d \in Devices : save[d].at # "idle" => save[d].db \in Db
    /\ faults \in Nat /\ hurt \in Nat

WholeAt(t, k) ==
    t.anchors[k].session # 0 => t.maps[k] = MapsOf(t.anchors[k].session, Maps)

(***************************************************************************)
(* The anchors and the mappings a device has stored are of one session,    *)
(* and all of its mappings are there, whatever statement failed and        *)
(* wherever the device stopped: there are two tables, and a log with the   *)
(* anchors of a session but not its mappings would be taken for agreed     *)
(* (ChangeLog::save, remove).                                              *)
(***************************************************************************)
Whole == cfg.transacts => \A d \in Devices, k \in Key : WholeAt(disk[d], k)

(***************************************************************************)
(* If a session is a fast sync, which sends changes only, both devices     *)
(* have stored the same earlier session, and the server has the mappings   *)
(* of that one, if it could read them.  The one of them that stopped       *)
(* before it saved and the one that could not save are found out           *)
(* (anchorMismatch), unless two sessions begin in the same second.         *)
(***************************************************************************)
FastMeansAgreed ==
    session.state = "open" /\ ~cfg.brisk /\ cfg.transacts =>
        \A db \in Db : session.mode[db] = "FAST" =>
            LET k == <<db, session.dir>>
                last == disk["server"].anchors[k].session
            IN /\ last # 0 /\ disk["client"].anchors[k].session = last
               /\ session.read["server"] = "all" =>
                      LoadMaps(disk["server"], k, "all") = MapsOf(last, Maps)

(***************************************************************************)
(* If nothing went wrong with the last session, every log of it is stored  *)
(* by both devices, and the next session will be a fast sync.              *)
(***************************************************************************)
SavedIfCalm ==
    Resting /\ number > 0 /\ hurt # number =>
        \A db \in cfg.dbs :
            /\ \A d \in Devices : disk[d].anchors[<<db, session.dir>>].session = number
            /\ Mode(<<db, session.dir>>, [d \in Devices |-> "all"]) = "FAST"

Log(d) == [k \in Key |->
    IF disk[d].anchors[k].session = 0 THEN [session |-> 0, maps |-> {}]
    ELSE [session |-> disk[d].anchors[k].session, maps |-> disk[d].maps[k]]]

ToForget(d) ==
    IF Cleaning(d) THEN {<<db, session.dir>> : db \in save[d].left \cup {save[d].db}} ELSE {}

Promise == INSTANCE LogPromise WITH
    log <- [d \in Devices |-> Log(d)], asked <- [d \in Devices |-> ToForget(d)],
    atomic <- cfg.transacts

(***************************************************************************)
(* What is stored is what LogPromise promises: each log changes in one     *)
(* step, from one session to a later one, and is lost only to cleanUp().   *)
(***************************************************************************)
KeepsLog == Promise!Spec

=============================================================================
