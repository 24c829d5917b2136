------------------------------ MODULE ChangeLog ------------------------------
(***************************************************************************)
(* ChangeLog.cpp: what a device remembers of the sessions with another     *)
(* one, in two tables of an SQLite file.  The key of a change log is a     *)
(* database and a direction; the remote device is always the same here.    *)
(*                                                                         *)
(* A row of anchors has the anchors of both sides and, which the code does *)
(* not know, the number of the session that wrote it; the mappings of a    *)
(* session are numbered rows.  There is no row if the session is 0, and no *)
(* anchor is 0 either.                                                     *)
(***************************************************************************)
EXTENDS Integers, SyncModes

CONSTANTS Db, Maps      \* the databases, and how many mappings a session leaves

ASSUME MapsAssumption == Maps \in Nat

Key == Db \X Directions

Row(n, local, remote) == [session |-> n, local |-> local, remote |-> remote]
NoRow == Row(0, 0, 0)

MapsOf(n, count) == {n} \X (1 .. count)

\* The tables, change_logs and id_maps
Tables == [anchors : [Key -> [session : Nat, local : Nat, remote : Nat]],
           maps    : [Key -> SUBSET (Nat \X Nat)]]
NoTables == [anchors |-> [k \in Key |-> NoRow], maps |-> [k \in Key |-> {}]]

RemoveAnchors(t, k)    == [t EXCEPT !.anchors[k] = NoRow]
InsertAnchors(t, k, r) == [t EXCEPT !.anchors[k] = r]
RemoveMaps(t, k)       == [t EXCEPT !.maps[k] = {}]
InsertMap(t, k, m)     == [t EXCEPT !.maps[k] = @ \cup {m}]

(***************************************************************************)
(* load(): the mappings are not looked at if there are no anchors.  What   *)
(* cannot be read is taken for nothing, and the session goes on.           *)
(***************************************************************************)
Reads == {"all", "anchors", "nothing"}
LoadAnchors(t, k, read) == IF read = "nothing" THEN NoRow ELSE t.anchors[k]
LoadMaps(t, k, read) ==
    IF read = "all" /\ t.anchors[k].session # 0 THEN t.maps[k] ELSE {}

=============================================================================
