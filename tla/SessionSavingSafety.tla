------------------------- MODULE SessionSavingSafety -------------------------
(***************************************************************************)
(* What two devices store of their sessions is whole, is what LogPromise   *)
(* promises, and agrees: a fast sync has a session that both saved behind  *)
(* it, and a session nothing went wrong with is saved.  For any databases, *)
(* number of mappings and sessions, with statements that fail and devices  *)
(* that stop wherever.                                                     *)
(***************************************************************************)
EXTENDS SessionSavingProps, TLAPS

Records == [at : Stages, db : Db \cup {"none"}, left : SUBSET Db,
            rows : 0 .. Maps, transaction : BOOLEAN]
Anchors == [session : Nat, local : Nat, remote : Nat]
Sessions == [state : {"none", "open", "served"}, dir : Directions, anchor : Nat,
             mode : [Db -> {"SLOW", "FAST"}], read : [Devices -> Reads]]

LEMMA CfgType ==
    ASSUME TypeOK
    PROVE  /\ cfg.dbs \subseteq Db /\ cfg.dirs \subseteq Directions
           /\ cfg.sessions \in Nat /\ cfg.faults \in Nat
           /\ cfg.brisk \in BOOLEAN /\ cfg.transacts \in BOOLEAN
  BY ConfigsAssumption DEF TypeOK, Cfg

LEMMA TransactionBegun ==
    ASSUME NEW r \in Records, NEW b \in BOOLEAN
    PROVE  [r EXCEPT !.at = "deleteAnchors", !.transaction = b] \in Records
  BY DEF Records, Stages

LEMMA IdleType == Idle \in Records
  BY MapsAssumption DEF Idle, Records, Stages

LEMMA SavingType ==
    ASSUME NEW first \in Stages, NEW db \in Db, NEW left \in SUBSET Db
    PROVE  Saving(first, db, left) \in Records
  BY MapsAssumption DEF Saving, Records

-----------------------------------------------------------------------------
(***************************************************************************)
(* What the statements make of the tables                                  *)
(***************************************************************************)
LEMMA AnchorsRemoved ==
    ASSUME NEW t \in Tables, NEW k \in Key
    PROVE  /\ RemoveAnchors(t, k) \in Tables
           /\ RemoveAnchors(t, k).maps = t.maps
           /\ RemoveAnchors(t, k).anchors = [t.anchors EXCEPT ![k] = NoRow]
  BY DEF Tables, RemoveAnchors, NoRow, Row

LEMMA MapsRemoved ==
    ASSUME NEW t \in Tables, NEW k \in Key
    PROVE  /\ RemoveMaps(t, k) \in Tables
           /\ RemoveMaps(t, k).anchors = t.anchors
           /\ RemoveMaps(t, k).maps = [t.maps EXCEPT ![k] = {}]
  BY DEF Tables, RemoveMaps

LEMMA AnchorsInserted ==
    ASSUME NEW t \in Tables, NEW k \in Key, NEW r \in Anchors
    PROVE  /\ InsertAnchors(t, k, r) \in Tables
           /\ InsertAnchors(t, k, r).maps = t.maps
           /\ InsertAnchors(t, k, r).anchors = [t.anchors EXCEPT ![k] = r]
  BY DEF Tables, InsertAnchors, Anchors

LEMMA MapInserted ==
    ASSUME NEW t \in Tables, NEW k \in Key, NEW m \in Nat \X Nat
    PROVE  /\ InsertMap(t, k, m) \in Tables
           /\ InsertMap(t, k, m).anchors = t.anchors
           /\ InsertMap(t, k, m).maps = [t.maps EXCEPT ![k] = @ \cup {m}]
  BY DEF Tables, InsertMap

LEMMA KeyType ==
    ASSUME TypeOK, NEW d \in Devices, save[d].at # "idle"
    PROVE  SaveKey(d) \in Key
  BY DEF TypeOK, SaveKey, Key

LEMMA NewRowType ==
    ASSUME TypeOK
    PROVE  NewRow \in Anchors /\ NewRow.session = number
  BY DEF TypeOK, NewRow, Row, Anchors

LEMMA WriteType ==
    ASSUME TypeOK, NEW d \in Devices, NEW t \in Tables, Write(d, t)
    PROVE  disk' \in [Devices -> Tables] /\ open' \in [Devices -> Tables]
  BY DEF TypeOK, Write

LEMMA NextDbType ==
    ASSUME TypeOK, NEW d \in Devices, NEW first \in Stages, NextDb(d, first)
    PROVE  /\ save' \in [Devices -> Records]
           /\ \A e \in Devices : save'[e].at # "idle" => save'[e].db \in Db
<1>1. CASE save' = [save EXCEPT ![d] = Idle]
  BY <1>1, IdleType DEF TypeOK, Records, Idle
<1>2. CASE \E db \in save[d].left :
               save' = [save EXCEPT ![d] = Saving(first, db, save[d].left \ {db})]
  <2>1. PICK db \in save[d].left :
            save' = [save EXCEPT ![d] = Saving(first, db, save[d].left \ {db})]
    BY <1>2
  <2>2. db \in Db /\ save[d].left \ {db} \in SUBSET Db
    BY DEF TypeOK
  <2>3. Saving(first, db, save[d].left \ {db}) \in Records
    BY <2>2, SavingType
  <2> QED
    BY <2>1, <2>2, <2>3 DEF TypeOK, Records, Saving
<1> QED
  BY <1>1, <1>2 DEF NextDb

LEMMA GoToType ==
    ASSUME TypeOK, NEW d \in Devices, NEW at \in Stages, save[d].at # "idle", GoTo(d, at)
    PROVE  /\ save' \in [Devices -> Records]
           /\ \A e \in Devices : save'[e].at # "idle" => save'[e].db \in Db
  BY DEF TypeOK, GoTo, Records

LEMMA BeginAtType ==
    ASSUME TypeOK, NEW d \in Devices, NEW first \in Stages, BeginAt(d, first)
    PROVE  /\ save' \in [Devices -> Records]
           /\ \A e \in Devices : save'[e].at # "idle" => save'[e].db \in Db
<1>1. PICK db \in cfg.dbs : save' = [save EXCEPT ![d] = Saving(first, db, cfg.dbs \ {db})]
  BY DEF BeginAt
<1>2. db \in Db /\ Saving(first, db, cfg.dbs \ {db}) \in Records
  BY CfgType, SavingType
<1> QED
  BY <1>1, <1>2 DEF TypeOK, Records, Saving

-----------------------------------------------------------------------------
(***************************************************************************)
(* Types                                                                   *)
(***************************************************************************)
LEMMA StatementType ==
    ASSUME TypeOK, NEW d \in Devices, Statement(d)
    PROVE  TypeOK'
<1> DEFINE Good ==
        /\ save' \in [Devices -> Records]
        /\ \A e \in Devices : save'[e].at # "idle" => save'[e].db \in Db
        /\ disk' \in [Devices -> Tables] /\ open' \in [Devices -> Tables]
<1> SUFFICES Good
  BY DEF Statement, TypeOK, Records
<1>0. disk \in [Devices -> Tables] /\ open \in [Devices -> Tables] /\ open[d] \in Tables
  BY DEF TypeOK
<1>1. CASE EnsureTables(d)
  BY <1>0, <1>1, GoToType DEF EnsureTables, Stages
<1>2. CASE Begin(d)
  <2>1. [save[d] EXCEPT !.at = "deleteAnchors", !.transaction = cfg.transacts] \in Records
    <3>1. save[d] \in Records
      BY DEF TypeOK, Records
    <3> QED
      BY <3>1, CfgType, TransactionBegun
  <2>2. save' = [save EXCEPT ![d] = [save[d] EXCEPT !.at = "deleteAnchors",
                                                    !.transaction = cfg.transacts]]
    BY <1>2 DEF Begin, TypeOK
  <2>3. save[d].db \in Db
    BY <1>2 DEF Begin, TypeOK
  <2>4. \A e \in Devices : save'[e].at # "idle" => save'[e].db \in Db
    BY <2>1, <2>2, <2>3 DEF TypeOK, Records
  <2>5. UNCHANGED <<disk, open>>
    BY <1>2 DEF Begin
  <2> QED
    BY <1>0, <2>1, <2>2, <2>4, <2>5 DEF TypeOK, Records
<1>3. CASE SaveAnchors(d)
  <2>1. SaveKey(d) \in Key
    BY <1>3, KeyType DEF SaveAnchors
  <2>2. /\ RemoveAnchors(open[d], SaveKey(d)) \in Tables
        /\ InsertAnchors(open[d], SaveKey(d), NewRow) \in Tables
    BY <1>0, <2>1, AnchorsRemoved, AnchorsInserted, NewRowType
  <2> QED
    BY <1>3, <2>2, GoToType, WriteType DEF SaveAnchors, Stages
<1>4. CASE SaveMaps(d)
  <2>1. SaveKey(d) \in Key
    BY <1>4, KeyType DEF SaveMaps
  <2>2. <<number, save[d].rows + 1>> \in Nat \X Nat
    BY MapsAssumption DEF TypeOK
  <2>3. /\ RemoveMaps(open[d], SaveKey(d)) \in Tables
        /\ InsertMap(open[d], SaveKey(d), <<number, save[d].rows + 1>>) \in Tables
    BY <1>0, <2>1, <2>2, MapsRemoved, MapInserted
  <2>4. CASE save[d].at = "deleteMaps" /\ GoTo(d, "insertMaps")
             /\ Write(d, RemoveMaps(open[d], SaveKey(d)))
    BY <2>4, <2>3, GoToType, WriteType DEF Stages
  <2>5. CASE /\ save[d].at = "insertMaps" /\ save[d].rows < Maps
             /\ save' = [save EXCEPT ![d].rows = @ + 1]
             /\ Write(d, InsertMap(open[d], SaveKey(d), <<number, save[d].rows + 1>>))
    <3>1. save[d] \in Records /\ save[d].db \in Db /\ save[d].rows \in Nat
      BY <2>5, MapsAssumption DEF TypeOK, Records
    <3>2. [save[d] EXCEPT !.rows = @ + 1] \in Records
      BY <2>5, <3>1, MapsAssumption DEF Records
    <3>3. save' = [save EXCEPT ![d] = [save[d] EXCEPT !.rows = @ + 1]]
      BY <2>5 DEF TypeOK
    <3> QED
      BY <2>5, <2>3, <3>1, <3>2, <3>3, WriteType DEF TypeOK, Records
  <2>6. CASE save[d].at = "insertMaps" /\ GoTo(d, "commit") /\ UNCHANGED <<disk, open>>
    BY <1>0, <2>6, GoToType DEF Stages
  <2> QED
    BY <1>4, <2>4, <2>5, <2>6 DEF SaveMaps
<1>5. CASE Commit(d)
  BY <1>0, <1>5, NextDbType DEF Commit, Stages
<1>6. CASE Remove(d)
  <2>1. SaveKey(d) \in Key
    BY <1>6, KeyType DEF Remove
  <2>2. /\ RemoveAnchors(open[d], SaveKey(d)) \in Tables
        /\ RemoveMaps(open[d], SaveKey(d)) \in Tables
    BY <1>0, <2>1, AnchorsRemoved, MapsRemoved
  <2> QED
    BY <1>6, <2>2, GoToType, NextDbType, WriteType DEF Remove, Stages
<1> QED
  BY <1>1, <1>2, <1>3, <1>4, <1>5, <1>6 DEF Statement

LEMMA ModeType == \A k, read : Mode(k, read) \in {"SLOW", "FAST"}
  BY DEF Mode

LEMMA StartSyncType ==
    ASSUME TypeOK, StartSync
    PROVE  TypeOK'
<1>1. clock' \in Nat /\ number' \in Nat
  BY DEF StartSync, TypeOK
<1>2. session' \in [state : {"none", "open", "served"}, dir : Directions, anchor : Nat,
                    mode : [Db -> {"SLOW", "FAST"}], read : [Devices -> Reads]]
  <2>1. PICK dir \in cfg.dirs, read \in [Devices -> Reads] :
            session' = [state |-> "open", dir |-> dir, anchor |-> clock', read |-> read,
                        mode |-> [db \in Db |-> Mode(<<db, dir>>, read)]]
    BY DEF StartSync
  <2>2. dir \in Directions
    BY CfgType
  <2>3. [db \in Db |-> Mode(<<db, dir>>, read)] \in [Db -> {"SLOW", "FAST"}]
    BY ModeType
  <2> QED
    BY <1>1, <2>1, <2>2, <2>3
<1>3. faults' \in Nat /\ hurt' \in Nat
  BY <1>1 DEF StartSync, TypeOK
<1> QED
  BY <1>1, <1>2, <1>3 DEF StartSync, TypeOK

LEMMA EndType ==
    ASSUME TypeOK, NEW d \in Devices, Finish(d) \/ CleanUp(d)
    PROVE  TypeOK'
<1>1. CASE Finish(d)
  <2>1. /\ save' \in [Devices -> Records]
        /\ \A e \in Devices : save'[e].at # "idle" => save'[e].db \in Db
    BY <1>1, BeginAtType DEF Finish, Stages
  <2>2. session' \in Sessions
    BY <1>1 DEF Finish, TypeOK, Sessions
  <2>3. UNCHANGED <<cfg, clock, number, disk, open, faults, hurt>>
    BY <1>1 DEF Finish
  <2> QED
    BY <2>1, <2>2, <2>3 DEF TypeOK, Records, Sessions
<1>2. CASE CleanUp(d)
  <2>1. /\ save' \in [Devices -> Records]
        /\ \A e \in Devices : save'[e].at # "idle" => save'[e].db \in Db
    BY <1>2, BeginAtType DEF CleanUp, Stages
  <2>2. PICK dir \in Directions : session' = [session EXCEPT !.dir = dir]
    BY <1>2, CfgType DEF CleanUp
  <2>3. session' \in Sessions
    BY <2>2 DEF TypeOK, Sessions
  <2>4. faults' \in Nat /\ hurt' \in Nat /\ UNCHANGED <<cfg, clock, number, disk, open>>
    BY <1>2 DEF CleanUp, TypeOK
  <2> QED
    BY <2>1, <2>3, <2>4 DEF TypeOK, Records, Sessions
<1> QED
  BY <1>1, <1>2

LEMMA FaultType ==
    ASSUME TypeOK, NEW d \in Devices, Abandon \/ Fail(d) \/ Crash(d)
    PROVE  TypeOK'
<1>1. CASE Abandon
  <2>1. session' \in Sessions /\ faults' \in Nat /\ hurt' \in Nat
    BY <1>1 DEF Abandon, TypeOK, Sessions
  <2> QED
    BY <1>1, <2>1 DEF Abandon, TypeOK, Sessions
<1>2. CASE Fail(d)
  <2>1. PICK first \in Stages : NextDb(d, first)
    BY <1>2 DEF Fail, Stages
  <2>2. /\ save' \in [Devices -> Records]
        /\ \A e \in Devices : save'[e].at # "idle" => save'[e].db \in Db
    BY <2>1, NextDbType
  <2>3. open' \in [Devices -> Tables] /\ faults' \in Nat /\ hurt' \in Nat
    BY <1>2 DEF Fail, TypeOK
  <2>4. UNCHANGED <<cfg, clock, number, session, disk>>
    BY <1>2 DEF Fail
  <2> QED
    BY <2>2, <2>3, <2>4 DEF TypeOK, Records
<1>3. CASE Crash(d)
  <2>1. /\ save' \in [Devices -> Records]
        /\ \A e \in Devices : save'[e].at # "idle" => save'[e].db \in Db
    BY <1>3, IdleType DEF Crash, TypeOK, Records, Idle
  <2>2. session' \in Sessions
    BY <1>3 DEF Crash, TypeOK, Sessions
  <2>3. open' \in [Devices -> Tables] /\ faults' \in Nat /\ hurt' \in Nat
    BY <1>3 DEF Crash, TypeOK
  <2>4. UNCHANGED <<cfg, clock, number, disk>>
    BY <1>3 DEF Crash
  <2> QED
    BY <2>1, <2>2, <2>3, <2>4 DEF TypeOK, Records, Sessions
<1> QED
  BY <1>1, <1>2, <1>3

LEMMA InitType == Init => TypeOK
<1> SUFFICES ASSUME Init PROVE TypeOK
  OBVIOUS
<1>1. NoTables \in Tables
  BY DEF NoTables, Tables, NoRow, Row
<1>2. NoSession \in [state : {"none", "open", "served"}, dir : Directions, anchor : Nat,
                     mode : [Db -> {"SLOW", "FAST"}], read : [Devices -> Reads]]
  BY DEF NoSession, Directions, Reads
<1> QED
  BY <1>1, <1>2, IdleType DEF Init, TypeOK, Records, Idle

(***************************************************************************)
(* Whatever fails and wherever a device stops, its tables hold rows of     *)
(* sessions, and a device that saves is at a statement of some database.   *)
(***************************************************************************)
THEOREM LogTypes == Spec => []TypeOK
<1>1. TypeOK /\ [Next]_vars => TypeOK'
  <2> SUFFICES ASSUME TypeOK, [Next]_vars PROVE TypeOK'
    OBVIOUS
  <2>1. CASE StartSync
    BY <2>1, StartSyncType
  <2>2. CASE Abandon
    BY <2>2, FaultType DEF Devices
  <2>3. ASSUME NEW d \in Devices, Device(d) PROVE TypeOK'
    BY <2>3, EndType, StatementType, FaultType DEF Device
  <2>4. CASE UNCHANGED vars
    BY <2>4 DEF vars, TypeOK
  <2> QED
    BY <2>1, <2>2, <2>3, <2>4 DEF Next
<1> QED
  BY <1>1, InitType, PTL DEF Spec

-----------------------------------------------------------------------------
(***************************************************************************)
(* Where transactions can be had: what a device has stored is whole and of *)
(* this session at most, and what its statements see differs from it in    *)
(* the log that is being saved only.                                       *)
(***************************************************************************)
InTransaction(d) ==
    save[d].at \in {"deleteAnchors", "insertAnchors", "deleteMaps", "insertMaps", "commit"}

Stored(d) ==
    \A k \in Key : WholeAt(disk[d], k) /\ disk[d].anchors[k].session <= number

\* The statements of a log that is saved, each with what it has made of the log
Written(d) ==
    LET k == SaveKey(d)
    IN /\ save[d].at \in {"deleteMaps", "insertMaps", "commit"} =>
              open[d].anchors[k].session = number
       /\ save[d].at = "insertMaps" => open[d].maps[k] = MapsOf(number, save[d].rows)
       /\ save[d].at = "commit" => open[d].maps[k] = MapsOf(number, Maps)

Seen(d) ==
    /\ save[d].transaction <=> InTransaction(d)
    /\ ~InTransaction(d) => open[d] = disk[d]
    /\ InTransaction(d) =>
           /\ \A k \in Key \ {SaveKey(d)} :
                  /\ open[d].anchors[k] = disk[d].anchors[k]
                  /\ open[d].maps[k] = disk[d].maps[k]
           /\ Written(d)

\* The logs that are still to be saved are older, as all are before the saving
Waits(d) == session.state = "open" \/ (session.state = "served" /\ d = "client")

Due(d) ==
    /\ Waits(d) => save[d].at = "idle" /\ \A k \in Key : disk[d].anchors[k].session < number
    /\ save[d].at # "idle" /\ ~Cleaning(d) =>
           /\ save[d].db \notin save[d].left
           /\ \A db \in save[d].left \cup {save[d].db} :
                  disk[d].anchors[<<db, session.dir>>].session < number
    /\ save[d].at = "cleanMaps" => disk[d].anchors[SaveKey(d)].session = 0
    /\ save[d].at \notin {"insertMaps", "commit"} => save[d].rows = 0

Careful(d) == Stored(d) /\ Seen(d) /\ Due(d)

SavingInv == cfg.transacts => \A d \in Devices : Careful(d)

-----------------------------------------------------------------------------
(***************************************************************************)
(* A device that takes no part in a step, begins to save, or is done       *)
(***************************************************************************)
LEMMA CarefulKept ==
    ASSUME NEW e \in Devices, Careful(e),
           save'[e] = save[e], disk'[e] = disk[e], open'[e] = open[e],
           number' = number, session'.dir = session.dir, Waits(e)' => Waits(e)
    PROVE  Careful(e)'
<1>1. Stored(e)'
  BY DEF Careful, Stored, WholeAt
<1>2. InTransaction(e)' = InTransaction(e) /\ SaveKey(e)' = SaveKey(e)
  BY DEF InTransaction, SaveKey
<1>3. Seen(e)'
  BY <1>2 DEF Careful, Seen, Written
<1>4. Due(e)'
  BY <1>2 DEF Careful, Due, Cleaning
<1> QED
  BY <1>1, <1>3, <1>4 DEF Careful

LEMMA CarefulIdle ==
    ASSUME NEW e \in Devices, save'[e].at = "idle", ~save'[e].transaction, save'[e].rows = 0,
           Stored(e)', open'[e] = disk'[e],
           Waits(e)' => \A k \in Key : disk'[e].anchors[k].session < number'
    PROVE  Careful(e)'
<1>2. ~InTransaction(e)'
  BY DEF InTransaction
<1>3. Seen(e)'
  BY <1>2 DEF Seen
<1>4. Due(e)'
  BY DEF Due
<1> QED
  BY <1>3, <1>4 DEF Careful

LEMMA CarefulBeginning ==
    ASSUME NEW d \in Devices, NEW first \in {"tables", "cleanAnchors"},
           NEW db, NEW left, save'[d] = Saving(first, db, left), db \notin left,
           Stored(d)', open'[d] = disk'[d], ~Waits(d)',
           first = "tables" => \A x \in left \cup {db} :
               disk'[d].anchors[<<x, session'.dir>>].session < number'
    PROVE  Careful(d)'
<1>1. /\ save'[d].at = first /\ save'[d].transaction = FALSE
      /\ save'[d].db = db /\ save'[d].left = left /\ save'[d].rows = 0
  BY DEF Saving
<1>2. ~InTransaction(d)'
  BY <1>1 DEF InTransaction
<1>3. Seen(d)'
  BY <1>1, <1>2 DEF Seen
<1>4. Due(d)'
  BY <1>1 DEF Due, Cleaning
<1> QED
  BY <1>3, <1>4 DEF Careful

LEMMA CarefulNext ==
    ASSUME TypeOK, NEW d \in Devices, NEW first \in {"tables", "cleanAnchors"},
           NextDb(d, first), Stored(d)', open'[d] = disk'[d], ~Waits(d)',
           first = "tables" => \A x \in save[d].left :
               disk'[d].anchors[<<x, session'.dir>>].session < number'
    PROVE  Careful(d)'
<1>1. CASE save' = [save EXCEPT ![d] = Idle]
  <2>1. save'[d].at = "idle" /\ ~save'[d].transaction /\ save'[d].rows = 0
    BY <1>1 DEF TypeOK, Idle
  <2> QED
    BY <2>1, CarefulIdle
<1>2. CASE \E db \in save[d].left :
               save' = [save EXCEPT ![d] = Saving(first, db, save[d].left \ {db})]
  <2>1. PICK db \in save[d].left :
            save' = [save EXCEPT ![d] = Saving(first, db, save[d].left \ {db})]
    BY <1>2
  <2>2. save'[d] = Saving(first, db, save[d].left \ {db})
    BY <2>1 DEF TypeOK
  <2>3. (save[d].left \ {db}) \cup {db} = save[d].left
    OBVIOUS
  <2> DEFINE left == save[d].left \ {db}
  <2>4. db \notin left
    OBVIOUS
  <2>5. first = "tables" => \A x \in left \cup {db} :
            disk'[d].anchors[<<x, session'.dir>>].session < number'
    BY <2>3
  <2>6. save'[d] = Saving(first, db, left)
    BY <2>2
  <2> HIDE DEF left
  <2> QED
    BY <2>4, <2>5, <2>6, CarefulBeginning
<1> QED
  BY <1>1, <1>2 DEF NextDb

LEMMA CarefulBeginAt ==
    ASSUME TypeOK, NEW d \in Devices, NEW first \in {"tables", "cleanAnchors"},
           BeginAt(d, first), Stored(d)', open'[d] = disk'[d], ~Waits(d)',
           first = "tables" => \A k \in Key : disk'[d].anchors[k].session < number',
           session'.dir \in Directions
    PROVE  Careful(d)'
<1>1. PICK db \in cfg.dbs : save' = [save EXCEPT ![d] = Saving(first, db, cfg.dbs \ {db})]
  BY DEF BeginAt
<1> DEFINE left == cfg.dbs \ {db}
<1>2. save'[d] = Saving(first, db, left) /\ db \notin left
  BY <1>1 DEF TypeOK
<1>3. \A x \in left \cup {db} : <<x, session'.dir>> \in Key
  BY CfgType DEF Key
<1>4. first = "tables" => \A x \in left \cup {db} :
          disk'[d].anchors[<<x, session'.dir>>].session < number'
  BY <1>3
<1> HIDE DEF left
<1> QED
  BY <1>2, <1>4, CarefulBeginning


-----------------------------------------------------------------------------
(***************************************************************************)
(* Statements of a saving, in a transaction                                *)
(***************************************************************************)
LEMMA CarefulStatement ==
    ASSUME TypeOK, NEW d \in Devices, Careful(d), InTransaction(d), InTransaction(d)',
           disk'[d] = disk[d], number' = number, session' = session,
           save'[d].db = save[d].db, save'[d].left = save[d].left,
           save'[d].transaction = save[d].transaction,
           \A k \in Key \ {SaveKey(d)} : /\ open'[d].anchors[k] = open[d].anchors[k]
                                        /\ open'[d].maps[k] = open[d].maps[k],
           Written(d)', save'[d].at \notin {"insertMaps", "commit"} => save'[d].rows = 0
    PROVE  Careful(d)'
<1>1. Stored(d)'
  BY DEF Careful, Stored, WholeAt
<1>2. SaveKey(d)' = SaveKey(d)
  BY DEF SaveKey
<1>3. Seen(d)'
  BY <1>2 DEF Careful, Seen
<1>4. /\ save[d].at # "idle" /\ ~Cleaning(d)
      /\ save'[d].at # "idle" /\ ~Cleaning(d)' /\ save'[d].at # "cleanMaps"
  BY DEF InTransaction, Cleaning
<1>5. ~Waits(d) /\ Waits(d)' = Waits(d)
  BY <1>4 DEF Careful, Due, Waits
<1>6. Due(d)'
  BY <1>4, <1>5 DEF Careful, Due
<1> QED
  BY <1>1, <1>3, <1>6 DEF Careful

LEMMA WriteInTransaction ==
    ASSUME TypeOK, NEW d \in Devices, Careful(d), InTransaction(d), NEW t, Write(d, t)
    PROVE  disk' = disk /\ open'[d] = t
  BY DEF TypeOK, Careful, Seen, Write

LEMMA GoToRecord ==
    ASSUME TypeOK, NEW d \in Devices, NEW at, GoTo(d, at)
    PROVE  /\ save'[d].at = at /\ save'[d].db = save[d].db /\ save'[d].left = save[d].left
           /\ save'[d].rows = save[d].rows /\ save'[d].transaction = save[d].transaction
  BY DEF TypeOK, GoTo

LEMMA SaveAnchorsCareful ==
    ASSUME TypeOK, NEW d \in Devices, Careful(d), SaveAnchors(d),
           number' = number, session' = session
    PROVE  Careful(d)'
<1> DEFINE k == SaveKey(d)
<1>1. InTransaction(d) /\ k \in Key /\ open[d] \in Tables /\ save[d].rows = 0
  BY KeyType DEF SaveAnchors, InTransaction, TypeOK, Careful, Due
<1>2. CASE /\ save[d].at = "deleteAnchors" /\ GoTo(d, "insertAnchors")
           /\ Write(d, RemoveAnchors(open[d], k))
  <2>1. disk' = disk /\ open'[d] = RemoveAnchors(open[d], k)
    BY <1>1, <1>2, WriteInTransaction
  <2>2. open'[d].maps = open[d].maps /\ open'[d].anchors = [open[d].anchors EXCEPT ![k] = NoRow]
    BY <1>1, <2>1, AnchorsRemoved
  <2>3. \A j \in Key \ {k} : /\ open'[d].anchors[j] = open[d].anchors[j]
                              /\ open'[d].maps[j] = open[d].maps[j]
    BY <1>1, <2>2 DEF Tables
  <2>4. Written(d)' /\ InTransaction(d)'
    BY <1>2, GoToRecord DEF Written, InTransaction
  <2> QED
    BY <1>1, <1>2, <2>1, <2>3, <2>4, GoToRecord, CarefulStatement
<1>3. CASE /\ save[d].at = "insertAnchors" /\ GoTo(d, "deleteMaps")
           /\ Write(d, InsertAnchors(open[d], k, NewRow))
  <2>1. disk' = disk /\ open'[d] = InsertAnchors(open[d], k, NewRow)
    BY <1>1, <1>3, WriteInTransaction
  <2>2. /\ open'[d].maps = open[d].maps
        /\ open'[d].anchors = [open[d].anchors EXCEPT ![k] = NewRow]
    BY <1>1, <2>1, NewRowType, AnchorsInserted
  <2>3. \A j \in Key \ {k} : /\ open'[d].anchors[j] = open[d].anchors[j]
                              /\ open'[d].maps[j] = open[d].maps[j]
    BY <1>1, <2>2 DEF Tables
  <2>4. open'[d].anchors[k].session = number
    BY <1>1, <2>2, NewRowType DEF Tables
  <2>5. save'[d].at = "deleteMaps" /\ SaveKey(d)' = k
    BY <1>3, GoToRecord DEF SaveKey
  <2>6. Written(d)' /\ InTransaction(d)'
    BY <2>4, <2>5 DEF Written, InTransaction
  <2> QED
    BY <1>1, <1>3, <2>1, <2>3, <2>6, GoToRecord, CarefulStatement
<1> QED
  BY <1>2, <1>3 DEF SaveAnchors

LEMMA MapsOfNone == \A n : MapsOf(n, 0) = {}
  BY DEF MapsOf

LEMMA MapsOfNext ==
    ASSUME NEW n, NEW count \in Nat
    PROVE  MapsOf(n, count) \cup {<<n, count + 1>>} = MapsOf(n, count + 1)
  BY DEF MapsOf

LEMMA SaveMapsCareful ==
    ASSUME TypeOK, NEW d \in Devices, Careful(d), SaveMaps(d),
           number' = number, session' = session
    PROVE  Careful(d)'
<1> DEFINE k == SaveKey(d)
<1>1. InTransaction(d) /\ k \in Key /\ open[d] \in Tables
  BY KeyType DEF SaveMaps, InTransaction, TypeOK
<1>2. open[d].anchors[k].session = number
  BY <1>1 DEF SaveMaps, Careful, Seen, Written
<1>3. CASE /\ save[d].at = "deleteMaps" /\ GoTo(d, "insertMaps")
           /\ Write(d, RemoveMaps(open[d], k))
  <2>1. disk' = disk /\ open'[d] = RemoveMaps(open[d], k)
    BY <1>1, <1>3, WriteInTransaction
  <2>2. /\ open'[d].anchors = open[d].anchors
        /\ open'[d].maps = [open[d].maps EXCEPT ![k] = {}]
    BY <1>1, <2>1, MapsRemoved
  <2>3. \A j \in Key \ {k} : /\ open'[d].anchors[j] = open[d].anchors[j]
                              /\ open'[d].maps[j] = open[d].maps[j]
    BY <1>1, <2>2 DEF Tables
  <2>4. open'[d].maps[k] = {}
    BY <1>1, <2>2 DEF Tables
  <2>5. save'[d].at = "insertMaps" /\ SaveKey(d)' = k /\ save'[d].rows = 0
    BY <1>3, GoToRecord DEF SaveKey, Careful, Due
  <2>6. Written(d)' /\ InTransaction(d)'
    BY <1>2, <2>2, <2>4, <2>5, MapsOfNone DEF Written, InTransaction
  <2> QED
    BY <1>1, <1>3, <2>1, <2>3, <2>5, <2>6, GoToRecord, CarefulStatement
<1>4. CASE /\ save[d].at = "insertMaps" /\ save[d].rows < Maps
           /\ save' = [save EXCEPT ![d].rows = @ + 1]
           /\ Write(d, InsertMap(open[d], k, <<number, save[d].rows + 1>>))
  <2> DEFINE m == <<number, save[d].rows + 1>>
  <2>0. save[d].rows \in Nat /\ m \in Nat \X Nat
    BY MapsAssumption DEF TypeOK
  <2>1. disk' = disk /\ open'[d] = InsertMap(open[d], k, m)
    BY <1>1, <1>4, WriteInTransaction
  <2>2. /\ open'[d].anchors = open[d].anchors
        /\ open'[d].maps = [open[d].maps EXCEPT ![k] = @ \cup {m}]
    BY <1>1, <2>0, <2>1, MapInserted
  <2>3. \A j \in Key \ {k} : /\ open'[d].anchors[j] = open[d].anchors[j]
                              /\ open'[d].maps[j] = open[d].maps[j]
    BY <1>1, <2>2 DEF Tables
  <2>4. /\ save'[d].at = "insertMaps" /\ save'[d].rows = save[d].rows + 1
        /\ save'[d].db = save[d].db /\ save'[d].left = save[d].left
        /\ save'[d].transaction = save[d].transaction
    BY <1>4 DEF TypeOK
  <2>5. open'[d].maps[k] = open[d].maps[k] \cup {m}
    BY <1>1, <2>2 DEF Tables
  <2>6. open[d].maps[k] = MapsOf(number, save[d].rows)
    BY <1>1, <1>4 DEF Careful, Seen, Written
  <2>7. open'[d].maps[k] = MapsOf(number, save'[d].rows)
    BY <2>0, <2>4, <2>5, <2>6, MapsOfNext
  <2>8. SaveKey(d)' = k
    BY <2>4 DEF SaveKey
  <2>9. Written(d)' /\ InTransaction(d)'
    BY <1>2, <2>2, <2>4, <2>7, <2>8 DEF Written, InTransaction
  <2> QED
    BY <1>1, <1>4, <2>1, <2>3, <2>4, <2>9, CarefulStatement
<1>5. CASE /\ save[d].at = "insertMaps" /\ save[d].rows = Maps /\ GoTo(d, "commit")
           /\ UNCHANGED <<disk, open>>
  <2>1. open[d].maps[k] = MapsOf(number, Maps)
    BY <1>1, <1>5 DEF Careful, Seen, Written
  <2>2. save'[d].at = "commit" /\ SaveKey(d)' = k
    BY <1>5, GoToRecord DEF SaveKey
  <2>3. Written(d)' /\ InTransaction(d)'
    BY <1>2, <1>5, <2>1, <2>2 DEF Written, InTransaction
  <2> QED
    BY <1>1, <1>5, <2>2, <2>3, GoToRecord, CarefulStatement
<1> QED
  BY <1>3, <1>4, <1>5 DEF SaveMaps

LEMMA CommitCareful ==
    ASSUME TypeOK, NEW d \in Devices, Careful(d), Commit(d),
           number' = number, session' = session
    PROVE  Careful(d)'
<1> DEFINE k == SaveKey(d)
<1>1. /\ InTransaction(d) /\ ~Cleaning(d) /\ save[d].at # "idle" /\ k \in Key
      /\ open[d] \in Tables
  BY KeyType DEF Commit, InTransaction, Cleaning, TypeOK
<1>2. disk'[d] = open[d] /\ open'[d] = open[d]
  BY DEF Commit, TypeOK
<1>3. open[d].anchors[k].session = number /\ open[d].maps[k] = MapsOf(number, Maps)
  BY <1>1 DEF Commit, Careful, Seen, Written
<1>4. \A j \in Key \ {k} : /\ open[d].anchors[j] = disk[d].anchors[j]
                            /\ open[d].maps[j] = disk[d].maps[j]
  BY <1>1 DEF Careful, Seen
<1>5. Stored(d)'
  <2> SUFFICES ASSUME NEW j \in Key
               PROVE  WholeAt(open[d], j) /\ open[d].anchors[j].session <= number
    BY <1>2 DEF Stored, WholeAt
  <2>1. CASE j = k
    BY <1>3, <2>1 DEF WholeAt, TypeOK
  <2>2. CASE j # k
    BY <1>4, <2>2 DEF WholeAt, Careful, Stored
  <2> QED
    BY <2>1, <2>2
<1>6. ~Waits(d) /\ Waits(d)' = Waits(d)
  BY <1>1 DEF Careful, Due, Waits
<1>7. \A x \in save[d].left : disk'[d].anchors[<<x, session'.dir>>].session < number'
  <2> TAKE x \in save[d].left
  <2>1. disk[d].anchors[<<x, session.dir>>].session < number /\ save[d].db # x
    BY <1>1 DEF Careful, Due
  <2>2. <<x, session.dir>> \in Key \ {k}
    BY <2>1 DEF TypeOK, Key, SaveKey
  <2> QED
    BY <1>2, <1>4, <2>1, <2>2
<1>8. NextDb(d, "tables")
  BY DEF Commit
<1> QED
  BY <1>2, <1>5, <1>6, <1>7, <1>8, CarefulNext

LEMMA BeginCareful ==
    ASSUME TypeOK, NEW d \in Devices, Careful(d), cfg.transacts, EnsureTables(d) \/ Begin(d),
           number' = number, session' = session
    PROVE  Careful(d)'
<1>1. disk' = disk /\ open' = open /\ save[d].at \in {"tables", "begin"}
  BY DEF EnsureTables, Begin
<1>2. /\ open[d] = disk[d] /\ save[d].at # "idle" /\ ~Cleaning(d) /\ ~InTransaction(d)
      /\ ~Waits(d) /\ Waits(d)' = Waits(d)
  BY <1>1 DEF Careful, Seen, Due, InTransaction, Cleaning, Waits
<1>3. save'[d].db = save[d].db /\ save'[d].left = save[d].left /\ save'[d].rows = save[d].rows
  BY GoToRecord DEF EnsureTables, Begin, TypeOK
<1>4. Stored(d)'
  BY <1>1 DEF Careful, Stored, WholeAt
<1>5. save'[d].at \in {"begin", "deleteAnchors"}
  BY GoToRecord DEF EnsureTables, Begin, TypeOK
<1>6. Due(d)'
  BY <1>1, <1>2, <1>3, <1>5 DEF Careful, Due, Cleaning
<1>7. save'[d].transaction <=> InTransaction(d)'
  <2>1. CASE EnsureTables(d)
    BY <1>2, <2>1, GoToRecord DEF EnsureTables, InTransaction, Careful, Seen
  <2>2. CASE Begin(d)
    <3>1. save'[d] = [save[d] EXCEPT !.at = "deleteAnchors", !.transaction = cfg.transacts]
      BY <2>2 DEF Begin, TypeOK
    <3>2. save'[d].transaction = cfg.transacts /\ save'[d].at = "deleteAnchors"
      BY <3>1 DEF TypeOK
    <3> QED
      BY <3>2 DEF InTransaction
  <2> QED
    BY <2>1, <2>2
<1>8. Seen(d)'
  BY <1>1, <1>2, <1>5, <1>7 DEF Seen, Written
<1> QED
  BY <1>4, <1>6, <1>8 DEF Careful

-----------------------------------------------------------------------------
(***************************************************************************)
(* Forgetting, failing and stopping                                        *)
(***************************************************************************)
LEMMA RemoveCareful ==
    ASSUME TypeOK, NEW d \in Devices, Careful(d), Remove(d),
           number' = number, session' = session
    PROVE  Careful(d)'
<1> DEFINE k == SaveKey(d)
<1>1. /\ Cleaning(d) /\ ~InTransaction(d) /\ save[d].at # "idle" /\ save[d].rows = 0
      /\ k \in Key /\ open[d] \in Tables
  BY KeyType DEF Remove, InTransaction, Cleaning, TypeOK, Careful, Due
<1>2. open[d] = disk[d] /\ ~save[d].transaction
  BY <1>1 DEF Careful, Seen
<1>3. ~Waits(d) /\ Waits(d)' = Waits(d)
  BY <1>1 DEF Careful, Due, Waits
<1>4. CASE /\ save[d].at = "cleanAnchors" /\ GoTo(d, "cleanMaps")
           /\ Write(d, RemoveAnchors(open[d], k))
  <2> DEFINE t == RemoveAnchors(open[d], k)
  <2>1. disk'[d] = t /\ open'[d] = t
    BY <1>2, <1>4 DEF Write, TypeOK
  <2>2. t.maps = open[d].maps /\ t.anchors = [open[d].anchors EXCEPT ![k] = NoRow]
    BY <1>1, AnchorsRemoved
  <2>3. t.anchors[k].session = 0
    BY <1>1, <2>2 DEF Tables, NoRow, Row
  <2>4. \A j \in Key \ {k} : t.anchors[j] = disk[d].anchors[j] /\ t.maps[j] = disk[d].maps[j]
    BY <1>1, <1>2, <2>2 DEF Tables
  <2> HIDE DEF t
  <2>5. Stored(d)'
    BY <2>1, <2>3, <2>4 DEF Stored, WholeAt, Careful, TypeOK
  <2>6. /\ save'[d].at = "cleanMaps" /\ SaveKey(d)' = k /\ save'[d].rows = 0
        /\ ~save'[d].transaction
    BY <1>1, <1>2, <1>4, GoToRecord DEF SaveKey
  <2>7. Seen(d)'
    BY <2>1, <2>6 DEF Seen, InTransaction
  <2>8. Due(d)'
    BY <1>3, <2>1, <2>3, <2>6 DEF Due, Cleaning
  <2> QED
    BY <2>5, <2>7, <2>8 DEF Careful
<1>5. CASE /\ save[d].at = "cleanMaps" /\ NextDb(d, "cleanAnchors")
           /\ Write(d, RemoveMaps(open[d], k))
  <2> DEFINE t == RemoveMaps(open[d], k)
  <2>1. disk'[d] = t /\ open'[d] = t
    BY <1>2, <1>5 DEF Write, TypeOK
  <2>2. t.anchors = open[d].anchors /\ t.maps = [open[d].maps EXCEPT ![k] = {}]
    BY <1>1, MapsRemoved
  <2>3. t.anchors[k].session = 0
    BY <1>2, <1>5, <2>2 DEF Careful, Due
  <2>4. \A j \in Key \ {k} : t.anchors[j] = disk[d].anchors[j] /\ t.maps[j] = disk[d].maps[j]
    BY <1>1, <1>2, <2>2 DEF Tables
  <2> HIDE DEF t
  <2>5. Stored(d)'
    BY <2>1, <2>3, <2>4 DEF Stored, WholeAt, Careful, TypeOK
  <2> QED
    BY <1>3, <1>5, <2>1, <2>5, CarefulNext
<1> QED
  BY <1>4, <1>5 DEF Remove

LEMMA FailCareful ==
    ASSUME TypeOK, NEW d \in Devices, Careful(d), Fail(d)
    PROVE  Careful(d)'
<1>1. save[d].at # "idle" /\ UNCHANGED <<number, session, disk>> /\ open'[d] = disk'[d]
  BY DEF Fail, TypeOK
<1>2. ~Waits(d)' /\ Stored(d)'
  BY <1>1 DEF Careful, Due, Waits, Stored, WholeAt
<1>3. CASE Cleaning(d)
  BY <1>1, <1>2, <1>3, CarefulNext DEF Fail
<1>4. CASE ~Cleaning(d)
  <2>1. \A x \in save[d].left : disk'[d].anchors[<<x, session'.dir>>].session < number'
    BY <1>1, <1>4 DEF Careful, Due
  <2> QED
    BY <1>1, <1>2, <1>4, <2>1, CarefulNext DEF Fail
<1> QED
  BY <1>3, <1>4

LEMMA CrashCareful ==
    ASSUME TypeOK, NEW d \in Devices, Careful(d), Crash(d)
    PROVE  Careful(d)'
<1>1. save'[d].at = "idle" /\ ~save'[d].transaction /\ save'[d].rows = 0
  BY DEF Crash, TypeOK, Idle
<1>2. UNCHANGED <<number, disk>> /\ open'[d] = disk'[d]
  BY DEF Crash, TypeOK
<1>3. Stored(d)'
  BY <1>2 DEF Careful, Stored, WholeAt
<1>4. ~Waits(d)'
  BY DEF Crash, Waits, TypeOK, Devices
<1> QED
  BY <1>1, <1>2, <1>3, <1>4, CarefulIdle

-----------------------------------------------------------------------------
(***************************************************************************)
(* The beginning and the end of a session                                  *)
(***************************************************************************)
LEMMA FinishCareful ==
    ASSUME TypeOK, NEW d \in Devices, Careful(d), Finish(d)
    PROVE  Careful(d)'
<1>1. UNCHANGED <<number, disk, open>> /\ save[d].at = "idle" /\ BeginAt(d, "tables")
  BY DEF Finish
<1>2. session'.dir \in Directions /\ ~Waits(d)' /\ Waits(d)
  BY DEF Finish, Waits, TypeOK, Devices
<1>3. Stored(d)' /\ open'[d] = disk'[d]
  BY <1>1 DEF Careful, Stored, WholeAt, Seen, InTransaction
<1>4. \A k \in Key : disk'[d].anchors[k].session < number'
  BY <1>1, <1>2 DEF Careful, Due
<1> QED
  BY <1>1, <1>2, <1>3, <1>4, CarefulBeginAt

LEMMA CleanUpCareful ==
    ASSUME TypeOK, NEW d \in Devices, Careful(d), CleanUp(d)
    PROVE  Careful(d)'
<1>1. /\ UNCHANGED <<number, disk, open>> /\ save[d].at = "idle" /\ BeginAt(d, "cleanAnchors")
      /\ session.state = "none"
  BY DEF CleanUp, Resting
<1>2. PICK dir \in Directions : session' = [session EXCEPT !.dir = dir]
  BY CfgType DEF CleanUp
<1>3. session'.dir \in Directions /\ session'.state = "none"
  BY <1>1, <1>2 DEF TypeOK
<1>4. ~Waits(d)'
  BY <1>3 DEF Waits
<1>5. Stored(d)' /\ open'[d] = disk'[d]
  BY <1>1 DEF Careful, Stored, WholeAt, Seen, InTransaction
<1> QED
  BY <1>1, <1>3, <1>4, <1>5, CarefulBeginAt

LEMMA StartSyncCareful ==
    ASSUME TypeOK, NEW e \in Devices, Careful(e), StartSync
    PROVE  Careful(e)'
<1>1. UNCHANGED <<disk, open, save>> /\ save[e].at = "idle" /\ number' = number + 1
  BY DEF StartSync, Resting
<1>2. /\ ~save'[e].transaction /\ save'[e].rows = 0 /\ save'[e].at = "idle"
      /\ open'[e] = disk'[e]
  BY <1>1 DEF Careful, Seen, Due, InTransaction
<1>3. \A k \in Key : disk[e].anchors[k].session \in Nat
  BY DEF TypeOK, Tables
<1>4. Stored(e)' /\ \A k \in Key : disk'[e].anchors[k].session < number'
  BY <1>1, <1>3 DEF Careful, Stored, WholeAt, TypeOK
<1> QED
  BY <1>2, <1>4, CarefulIdle

-----------------------------------------------------------------------------
(***************************************************************************)
(* The device that does not take the step                                  *)
(***************************************************************************)
LEMMA StatementLocal ==
    ASSUME TypeOK, NEW d \in Devices, NEW e \in Devices \ {d}, Statement(d)
    PROVE  save'[e] = save[e] /\ disk'[e] = disk[e] /\ open'[e] = open[e]
<1>1. \A t : Write(d, t) => disk'[e] = disk[e] /\ open'[e] = open[e]
  BY DEF Write, TypeOK
<1>2. \A at : GoTo(d, at) => save'[e] = save[e]
  BY DEF GoTo, TypeOK
<1>3. \A first : NextDb(d, first) => save'[e] = save[e]
  BY DEF NextDb, TypeOK
<1>4. CASE EnsureTables(d) \/ Begin(d)
  BY <1>2, <1>4 DEF EnsureTables, Begin, TypeOK
<1>5. CASE SaveAnchors(d)
  BY <1>1, <1>2, <1>5 DEF SaveAnchors
<1>6. CASE SaveMaps(d)
  BY <1>1, <1>2, <1>6 DEF SaveMaps, TypeOK
<1>7. CASE Commit(d)
  BY <1>3, <1>7 DEF Commit, TypeOK
<1>8. CASE Remove(d)
  BY <1>1, <1>2, <1>3, <1>8 DEF Remove
<1> QED
  BY <1>4, <1>5, <1>6, <1>7, <1>8 DEF Statement

LEMMA OtherCareful ==
    ASSUME TypeOK, NEW d \in Devices, NEW e \in Devices \ {d}, Careful(e), Device(d)
    PROVE  Careful(e)'
<1>1. CASE Finish(d)
  <2>1. session'.dir = session.dir /\ (Waits(e)' => Waits(e))
    BY <1>1 DEF Finish, Waits, TypeOK, Devices
  <2>2. save'[e] = save[e] /\ UNCHANGED <<number, disk, open>>
    BY <1>1 DEF Finish, BeginAt, TypeOK
  <2> QED
    BY <2>1, <2>2, CarefulKept
<1>2. CASE Statement(d)
  BY <1>2, StatementLocal, CarefulKept DEF Statement, Waits
<1>3. CASE Fail(d)
  <2>1. save'[e] = save[e] /\ open'[e] = open[e] /\ UNCHANGED <<number, session, disk>>
    BY <1>3 DEF Fail, NextDb, TypeOK
  <2> QED
    BY <2>1, CarefulKept DEF Waits
<1>4. CASE Crash(d)
  <2>1. session'.dir = session.dir /\ (Waits(e)' => Waits(e))
    BY <1>4 DEF Crash, Waits, TypeOK
  <2>2. save'[e] = save[e] /\ open'[e] = open[e] /\ UNCHANGED <<number, disk>>
    BY <1>4 DEF Crash, TypeOK
  <2> QED
    BY <2>1, <2>2, CarefulKept
<1>5. CASE CleanUp(d)
  <2>1. session.state = "none" /\ save[e].at = "idle" /\ UNCHANGED <<number, disk, open>>
    BY <1>5 DEF CleanUp, Resting
  <2>2. save'[e] = save[e]
    BY <1>5 DEF CleanUp, BeginAt, TypeOK
  <2>3. session'.state = "none"
    BY <1>5, <2>1 DEF CleanUp, TypeOK
  <2>4. ~Waits(e)'
    BY <2>3 DEF Waits
  <2>5. /\ ~save'[e].transaction /\ save'[e].rows = 0 /\ save'[e].at = "idle"
        /\ open'[e] = disk'[e] /\ Stored(e)'
    BY <2>1, <2>2 DEF Careful, Seen, Due, InTransaction, Stored, WholeAt
  <2> QED
    BY <2>4, <2>5, CarefulIdle
<1> QED
  BY <1>1, <1>2, <1>3, <1>4, <1>5 DEF Device

LEMMA DeviceCareful ==
    ASSUME TypeOK, NEW d \in Devices, Careful(d), cfg.transacts, Device(d)
    PROVE  Careful(d)'
<1>1. CASE Statement(d)
  <2>1. number' = number /\ session' = session
    BY <1>1 DEF Statement
  <2> QED
    BY <1>1, <2>1, BeginCareful, SaveAnchorsCareful, SaveMapsCareful, CommitCareful,
       RemoveCareful DEF Statement
<1> QED
  BY <1>1, FinishCareful, FailCareful, CrashCareful, CleanUpCareful DEF Device

LEMMA InitCareful == Init => SavingInv
<1> SUFFICES ASSUME Init, NEW d \in Devices PROVE Careful(d)
  BY DEF SavingInv
<1>1. /\ save[d].at = "idle" /\ ~save[d].transaction /\ save[d].rows = 0
      /\ open[d] = disk[d] /\ disk[d] = NoTables /\ session.state = "none" /\ number = 0
  BY DEF Init, Idle, NoSession
<1>2. Stored(d)
  BY <1>1 DEF Stored, WholeAt, NoTables, NoRow, Row
<1>3. Seen(d) /\ Due(d)
  BY <1>1 DEF Seen, Due, InTransaction, Waits
<1> QED
  BY <1>2, <1>3 DEF Careful

(***************************************************************************)
(* Whatever fails and wherever a device stops, what it has stored is what  *)
(* its sessions made of it, and what its statements see differs from it    *)
(* in the log that is being saved only.                                    *)
(***************************************************************************)
THEOREM SavingCareful == Spec => [](TypeOK /\ SavingInv)
<1>1. TypeOK /\ SavingInv /\ [Next]_vars => SavingInv'
  <2> SUFFICES ASSUME TypeOK, SavingInv, [Next]_vars PROVE SavingInv'
    OBVIOUS
  <2>0. cfg' = cfg
    BY DEF Next, vars, StartSync, Abandon, Device, Finish, Statement, Fail, Crash, CleanUp
  <2> SUFFICES ASSUME cfg.transacts, NEW e \in Devices PROVE Careful(e)'
    BY <2>0 DEF SavingInv
  <2>1. \A d \in Devices : Careful(d)
    BY DEF SavingInv
  <2>2. CASE StartSync
    BY <2>1, <2>2, StartSyncCareful
  <2>3. CASE Abandon
    <3>1. session'.dir = session.dir /\ ~Waits(e)'
      BY <2>3 DEF Abandon, Waits, TypeOK
    <3> QED
      BY <2>1, <2>3, <3>1, CarefulKept DEF Abandon
  <2>4. ASSUME NEW d \in Devices, Device(d) PROVE Careful(e)'
    BY <2>1, <2>4, DeviceCareful, OtherCareful
  <2>5. CASE UNCHANGED vars
    <3>1. Waits(e)' = Waits(e)
      BY <2>5 DEF Waits, vars
    <3> QED
      BY <2>1, <2>5, <3>1, CarefulKept DEF vars
  <2> QED
    BY <2>2, <2>3, <2>4, <2>5 DEF Next
<1> QED
  BY <1>1, InitCareful, LogTypes, PTL DEF Spec

(***************************************************************************)
(* The anchors and the mappings that a device has stored are always of one *)
(* session, and complete.                                                  *)
(***************************************************************************)
THEOREM LogsWhole == Spec => []Whole
<1>1. SavingInv => Whole
  BY DEF SavingInv, Careful, Stored, Whole
<1> QED
  BY <1>1, SavingCareful, PTL

-----------------------------------------------------------------------------
(***************************************************************************)
(* The steps of LogPromise                                                 *)
(***************************************************************************)
LEMMA SameKeys == Promise!Key = Key /\ \A n : Promise!MapsOf(n, Maps) = MapsOf(n, Maps)
  BY DEF Promise!Key, Key, Promise!Directions, Directions, Promise!MapsOf, MapsOf

LEMMA LogKept ==
    ASSUME NEW e \in Devices, disk'[e] = disk[e]
    PROVE  Log(e)' = Log(e)
  BY DEF Log

LEMMA AskStep ==
    ASSUME NEW d \in Devices, cfg' = cfg, \A e \in Devices : Log(e)' = Log(e),
           \A e \in Devices \ {d} : ToForget(e)' = ToForget(e)
    PROVE  Promise!Ask(d)
  BY DEF Promise!Ask

LEMMA NoStep ==
    ASSUME cfg' = cfg, \A e \in Devices : Log(e)' = Log(e) /\ ToForget(e)' = ToForget(e)
    PROVE  UNCHANGED Promise!vars
  BY DEF Promise!vars

LEMMA SaveStep ==
    ASSUME NEW d \in Devices, NEW k \in Key, NEW n, cfg' = cfg,
           \A e \in Devices : ToForget(e)' = ToForget(e),
           \A e \in Devices \ {d} : Log(e)' = Log(e),
           Log(d)' = [Log(d) EXCEPT ![k] = [session |-> n, maps |-> MapsOf(n, Maps)]],
           n > Log(d)[k].session
    PROVE  Promise!Save(d, k)
<1> DEFINE new == [session |-> n, maps |-> MapsOf(n, Maps)]
           log == [e \in Devices |-> Log(e)]
<1>1. Log(d)'[k].session = n
  BY DEF Log
<1>2. Promise!Whole(n) = new
  BY SameKeys DEF Promise!Whole
<1>3. log' = [log EXCEPT ![d] = [@ EXCEPT ![k] = new]]
  OBVIOUS
<1>4. log' = [log EXCEPT ![d][k] = Promise!Whole(n)]
  BY <1>2, <1>3
<1>5. UNCHANGED <<[e \in Devices |-> ToForget(e)], cfg.transacts>>
  OBVIOUS
<1>6. n > log[d][k].session /\ log'[d][k].session = n
  BY <1>1
<1> HIDE DEF log
<1>7. \E i \in {log'[d][k].session} :
          /\ i > log[d][k].session /\ log' = [log EXCEPT ![d][k] = Promise!Whole(i)]
          /\ UNCHANGED <<[e \in Devices |-> ToForget(e)], cfg.transacts>>
  BY <1>4, <1>5, <1>6
<1> QED
  BY <1>7 DEF Promise!Save, log

LEMMA ForgetStep ==
    ASSUME NEW d \in Devices, NEW k \in ToForget(d), cfg' = cfg,
           \A e \in Devices : ToForget(e)' = ToForget(e),
           \A e \in Devices \ {d} : Log(e)' = Log(e),
           Log(d)' = [Log(d) EXCEPT ![k] = [session |-> 0, maps |-> {}]]
    PROVE  Promise!Forget(d, k)
  BY DEF Promise!Forget, Promise!Nothing

-----------------------------------------------------------------------------
LEMMA CommitPromise ==
    ASSUME TypeOK, NEW d \in Devices, Careful(d), Commit(d), cfg' = cfg,
           session' = session, \A e \in Devices \ {d} : save'[e] = save[e] /\ disk'[e] = disk[e]
    PROVE  Promise!Save(d, SaveKey(d))
<1> DEFINE k == SaveKey(d)
<1>1. InTransaction(d) /\ ~Cleaning(d) /\ save[d].at # "idle" /\ k \in Key
  BY KeyType DEF Commit, InTransaction, Cleaning
<1>2. disk'[d] = open[d]
  BY DEF Commit, TypeOK
<1>3. open[d].anchors[k].session = number /\ open[d].maps[k] = MapsOf(number, Maps)
  BY <1>1 DEF Commit, Careful, Seen, Written
<1>4. \A j \in Key \ {k} : /\ open[d].anchors[j] = disk[d].anchors[j]
                            /\ open[d].maps[j] = disk[d].maps[j]
  BY <1>1 DEF Careful, Seen
<1>5. disk[d].anchors[k].session < number
  BY <1>1 DEF Careful, Due, SaveKey
<1>6. number # 0 /\ number \in Nat /\ disk[d].anchors[k].session \in Nat
  BY <1>1, <1>5 DEF TypeOK, Tables
<1>7. Log(d)' = [Log(d) EXCEPT ![k] = [session |-> number, maps |-> MapsOf(number, Maps)]]
  <2> DEFINE new == [session |-> number, maps |-> MapsOf(number, Maps)]
  <2>1. \A j \in Key : Log(d)'[j] = IF j = k THEN new ELSE Log(d)[j]
    BY <1>1, <1>2, <1>3, <1>4, <1>6 DEF Log
  <2>2. Log(d)' = [j \in Key |-> Log(d)'[j]] /\ Log(d) = [j \in Key |-> Log(d)[j]]
    BY DEF Log
  <2> HIDE DEF new, k
  <2>3. Log(d)' = [Log(d) EXCEPT ![k] = new]
    BY <1>1, <2>1, <2>2
  <2> QED
    BY <2>3 DEF new, k
<1>8. number > Log(d)[k].session
  BY <1>1, <1>5, <1>6 DEF Log
<1>9. \A e \in Devices : ToForget(e)' = ToForget(e)
  <2>1. ~Cleaning(d)'
    BY DEF Commit, NextDb, Saving, Idle, Cleaning, TypeOK
  <2> QED
    BY <1>1, <2>1 DEF ToForget, Cleaning
<1> QED
  BY <1>1, <1>7, <1>8, <1>9, LogKept, SaveStep

LEMMA RemovePromise ==
    ASSUME TypeOK, NEW d \in Devices, Careful(d), Remove(d), cfg' = cfg,
           session' = session, \A e \in Devices \ {d} : save'[e] = save[e] /\ disk'[e] = disk[e]
    PROVE  Promise!Ask(d) \/ Promise!Forget(d, SaveKey(d))
<1> DEFINE k == SaveKey(d)
<1>1. Cleaning(d) /\ ~InTransaction(d) /\ k \in Key /\ open[d] \in Tables
  BY KeyType DEF Remove, InTransaction, Cleaning, TypeOK
<1>2. open[d] = disk[d] /\ ~save[d].transaction
  BY <1>1 DEF Careful, Seen
<1>3. \A e \in Devices \ {d} : ToForget(e)' = ToForget(e)
  BY DEF ToForget, Cleaning
<1>4. CASE /\ save[d].at = "cleanAnchors" /\ GoTo(d, "cleanMaps")
           /\ Write(d, RemoveAnchors(open[d], k))
  <2> DEFINE t == RemoveAnchors(open[d], k)
  <2>1. disk'[d] = t
    BY <1>2, <1>4 DEF Write, TypeOK
  <2>2. t.maps = open[d].maps /\ t.anchors = [open[d].anchors EXCEPT ![k] = NoRow]
    BY <1>1, AnchorsRemoved
  <2>3. t.anchors[k].session = 0
    BY <1>1, <2>2 DEF Tables, NoRow, Row
  <2>4. \A j \in Key \ {k} : t.anchors[j] = disk[d].anchors[j] /\ t.maps[j] = disk[d].maps[j]
    BY <1>1, <1>2, <2>2 DEF Tables
  <2> HIDE DEF t
  <2>5. Log(d)' = [Log(d) EXCEPT ![k] = [session |-> 0, maps |-> {}]]
    BY <1>1, <2>1, <2>3, <2>4 DEF Log
  <2>6. ToForget(d)' = ToForget(d)
    BY <1>1, <1>4, GoToRecord DEF ToForget, Cleaning
  <2>7. k \in ToForget(d)
    BY <1>1 DEF ToForget, SaveKey
  <2> QED
    BY <1>3, <2>5, <2>6, <2>7, LogKept, ForgetStep
<1>5. CASE /\ save[d].at = "cleanMaps" /\ NextDb(d, "cleanAnchors")
           /\ Write(d, RemoveMaps(open[d], k))
  <2> DEFINE t == RemoveMaps(open[d], k)
  <2>1. disk'[d] = t
    BY <1>2, <1>5 DEF Write, TypeOK
  <2>2. t.anchors = open[d].anchors /\ t.maps = [open[d].maps EXCEPT ![k] = {}]
    BY <1>1, MapsRemoved
  <2>3. t.anchors[k].session = 0
    BY <1>2, <1>5, <2>2 DEF Careful, Due
  <2>4. \A j \in Key \ {k} : t.maps[j] = disk[d].maps[j]
    BY <1>1, <1>2, <2>2 DEF Tables
  <2>5. t.anchors = disk[d].anchors
    BY <1>2, <2>2
  <2> HIDE DEF t
  <2>6. Log(d)' = Log(d)
    BY <1>1, <2>1, <2>3, <2>4, <2>5 DEF Log
  <2> QED
    BY <1>3, <2>6, LogKept, AskStep
<1> QED
  BY <1>4, <1>5 DEF Remove

LEMMA StatementPromise ==
    ASSUME TypeOK, NEW d \in Devices, Careful(d), Statement(d)
    PROVE  [Promise!Next]_(Promise!vars)
<1>1. /\ cfg' = cfg /\ session' = session
      /\ \A e \in Devices \ {d} : save'[e] = save[e] /\ disk'[e] = disk[e]
  BY StatementLocal DEF Statement
<1>2. CASE Commit(d)
  <2>1. Promise!Save(d, SaveKey(d)) /\ SaveKey(d) \in Key
    BY <1>1, <1>2, CommitPromise, KeyType DEF Commit
  <2> QED
    BY <2>1, SameKeys DEF Promise!Next
<1>3. CASE Remove(d)
  <2>1. /\ Promise!Ask(d) \/ Promise!Forget(d, SaveKey(d))
        /\ SaveKey(d) \in Key
    BY <1>1, <1>3, RemovePromise, KeyType DEF Remove
  <2> QED
    BY <2>1, SameKeys DEF Promise!Next
<1>4. CASE EnsureTables(d) \/ Begin(d) \/ SaveAnchors(d) \/ SaveMaps(d)
  <2>1. ~Cleaning(d) /\ ~Cleaning(d)'
    BY <1>4, GoToRecord
    DEF EnsureTables, Begin, SaveAnchors, SaveMaps, Cleaning, TypeOK
  <2>2. disk' = disk
    BY <1>4, WriteInTransaction
    DEF EnsureTables, Begin, SaveAnchors, SaveMaps, InTransaction
  <2>3. \A e \in Devices : Log(e)' = Log(e) /\ ToForget(e)' = ToForget(e)
    BY <1>1, <2>1, <2>2, LogKept DEF ToForget, Cleaning
  <2> QED
    BY <1>1, <2>3, NoStep
<1> QED
  BY <1>2, <1>3, <1>4 DEF Statement

LEMMA RestingPromise ==
    ASSUME TypeOK, SavingInv, StartSync \/ Abandon
    PROVE  UNCHANGED Promise!vars
<1>1. cfg' = cfg /\ disk' = disk /\ save' = save
  BY DEF StartSync, Abandon
<1>2. CASE StartSync
  <2>1. \A e \in Devices : ~Cleaning(e)
    BY <1>2 DEF StartSync, Resting, Cleaning
  <2> QED
    BY <1>1, <2>1, LogKept, NoStep DEF ToForget, Cleaning
<1>3. CASE Abandon
  <2>1. session'.dir = session.dir
    BY <1>3 DEF Abandon, TypeOK
  <2> QED
    BY <1>1, <2>1, LogKept, NoStep DEF ToForget, Cleaning
<1> QED
  BY <1>2, <1>3

LEMMA DevicePromise ==
    ASSUME TypeOK, NEW d \in Devices, Finish(d) \/ Fail(d) \/ Crash(d) \/ CleanUp(d)
    PROVE  Promise!Ask(d)
<1>1. cfg' = cfg /\ disk' = disk
  BY DEF Finish, Fail, Crash, CleanUp
<1>2. \A e \in Devices \ {d} : save'[e] = save[e]
  BY DEF Finish, Fail, Crash, CleanUp, BeginAt, NextDb, TypeOK
<1>3. CASE Finish(d) \/ Fail(d) \/ Crash(d)
  <2>1. session'.dir = session.dir
    BY <1>3 DEF Finish, Fail, Crash, TypeOK
  <2> QED
    BY <1>1, <1>2, <2>1, LogKept, AskStep DEF ToForget, Cleaning
<1>4. CASE CleanUp(d)
  <2>1. \A e \in Devices \ {d} : ~Cleaning(e)
    BY <1>4 DEF CleanUp, Resting, Cleaning
  <2> QED
    BY <1>1, <1>2, <2>1, LogKept, AskStep DEF ToForget, Cleaning
<1> QED
  BY <1>3, <1>4

(***************************************************************************)
(* What is stored is what LogPromise promises: a log changes in one step,  *)
(* all of it, to one of a later session, and is lost only to cleanUp().    *)
(***************************************************************************)
THEOREM LogsPromised == Spec => KeepsLog
<1>1. Init => Promise!Init
  <2> SUFFICES ASSUME Init PROVE Promise!Init
    OBVIOUS
  <2>1. cfg.transacts \in BOOLEAN
    BY InitType, CfgType
  <2>2. \A d \in Devices : ToForget(d) = {}
    BY DEF Init, ToForget, Cleaning, Idle
  <2>3. \A d \in Devices : Log(d) = [k \in Key |-> [session |-> 0, maps |-> {}]]
    BY DEF Init, Log, NoTables, NoRow, Row
  <2> QED
    BY <2>1, <2>2, <2>3, SameKeys DEF Promise!Init, Promise!Nothing
<1>2. TypeOK /\ SavingInv /\ [Next]_vars => [Promise!Next]_(Promise!vars)
  <2> SUFFICES ASSUME TypeOK, SavingInv, [Next]_vars PROVE [Promise!Next]_(Promise!vars)
    OBVIOUS
  <2>1. CASE UNCHANGED vars
    <3>1. \A e \in Devices : Log(e)' = Log(e) /\ ToForget(e)' = ToForget(e)
      BY <2>1 DEF vars, Log, ToForget, Cleaning
    <3> QED
      BY <2>1, <3>1, NoStep DEF vars
  <2>2. CASE ~cfg.transacts /\ Next
    <3>1. cfg' = cfg
      BY <2>2 DEF Next, StartSync, Abandon, Device, Finish, Statement, Fail, Crash, CleanUp
    <3> QED
      BY <2>2, <3>1 DEF Promise!Next
  <2>3. CASE cfg.transacts /\ Next
    <3>1. \A d \in Devices : Careful(d)
      BY <2>3 DEF SavingInv
    <3>2. CASE StartSync \/ Abandon
      BY <3>2, RestingPromise
    <3>3. ASSUME NEW d \in Devices, Device(d) PROVE [Promise!Next]_(Promise!vars)
      <4>1. CASE Statement(d)
        BY <3>1, <4>1, StatementPromise
      <4>2. CASE Finish(d) \/ Fail(d) \/ Crash(d) \/ CleanUp(d)
        <5>1. Promise!Ask(d)
          BY <4>2, DevicePromise
        <5> QED
          BY <5>1 DEF Promise!Next
      <4> QED
        BY <3>3, <4>1, <4>2 DEF Device
    <3> QED
      BY <2>3, <3>2, <3>3 DEF Next
  <2> QED
    BY <2>1, <2>2, <2>3
<1> QED
  BY <1>1, <1>2, SavingCareful, PTL DEF Spec, KeepsLog, Promise!Spec

-----------------------------------------------------------------------------
(***************************************************************************)
(* Anchors are times.  If no two sessions begin in the same second they    *)
(* tell the session that wrote them, and each row is one.                  *)
(***************************************************************************)
Timed ==
    /\ clock > 0 /\ (number > 0 => session.anchor > 0)
    /\ ~cfg.brisk => clock = number + 1 /\ (number > 0 => session.anchor = clock)

Dated(r) == r = NoRow \/ (r.session # 0 /\ r = Row(r.session, r.session + 1, r.session + 1))
DatedTables(t) == \A k \in Key : Dated(t.anchors[k])

Begun ==
    /\ session.state # "none" => number > 0
    /\ \A d \in Devices : save[d].at = "idle" \/ Cleaning(d) \/ number > 0

AnchorsInv ==
    /\ Timed /\ Begun
    /\ ~cfg.brisk => \A d \in Devices : DatedTables(disk[d]) /\ DatedTables(open[d])

\* A session that is open began as a comparison of what is still stored
ModesInv ==
    session.state = "open" =>
        /\ \A d \in Devices : save[d].at = "idle"
        /\ \A db \in Db : session.mode[db] = Mode(<<db, session.dir>>, session.read)

-----------------------------------------------------------------------------
(***************************************************************************)
(* How far a device is with the logs of a session that nothing went wrong  *)
(* with, whether or not it has transactions.                               *)
(***************************************************************************)
Unsaved(d) == IF save[d].at = "idle" THEN {} ELSE save[d].left \cup {save[d].db}

HasRow(t, db) == t.anchors[<<db, session.dir>>] = NewRow

Logged(d) ==
    /\ ~Cleaning(d)
    /\ save[d].at # "idle" =>
           save[d].left \subseteq cfg.dbs /\ save[d].db \in cfg.dbs \ save[d].left
    /\ Waits(d) => save[d].at = "idle"
    /\ ~Waits(d) => \A db \in cfg.dbs \ Unsaved(d) : HasRow(disk[d], db) /\ HasRow(open[d], db)
    /\ save[d].at \in {"deleteMaps", "insertMaps", "commit"} => HasRow(open[d], save[d].db)

CalmInv == number > 0 /\ hurt # number => \A d \in Devices : Logged(d)

-----------------------------------------------------------------------------
(***************************************************************************)
(* What a statement makes of a device's tables                             *)
(***************************************************************************)
Statements(d) ==
    {RemoveAnchors(open[d], SaveKey(d)), RemoveMaps(open[d], SaveKey(d)),
     InsertMap(open[d], SaveKey(d), <<number, save[d].rows + 1>>)}
    \cup IF save[d].at = "insertAnchors"
         THEN {InsertAnchors(open[d], SaveKey(d), NewRow)} ELSE {}

LEMMA StatementTables ==
    ASSUME TypeOK, NEW d \in Devices, save[d].at # "idle", NEW t \in Statements(d)
    PROVE  /\ t \in Tables
           /\ \/ t.anchors = open[d].anchors
              \/ t.anchors = [open[d].anchors EXCEPT ![SaveKey(d)] = NoRow]
              \/ /\ save[d].at = "insertAnchors"
                 /\ t.anchors = [open[d].anchors EXCEPT ![SaveKey(d)] = NewRow]
<1>1. open[d] \in Tables /\ SaveKey(d) \in Key /\ NewRow \in Anchors
  BY KeyType, NewRowType DEF TypeOK
<1>2. <<number, save[d].rows + 1>> \in Nat \X Nat
  BY MapsAssumption DEF TypeOK
<1>3. CASE t = RemoveAnchors(open[d], SaveKey(d))
  BY <1>1, <1>3, AnchorsRemoved
<1>4. CASE t = RemoveMaps(open[d], SaveKey(d))
  BY <1>1, <1>4, MapsRemoved
<1>5. CASE save[d].at = "insertAnchors" /\ t = InsertAnchors(open[d], SaveKey(d), NewRow)
  BY <1>1, <1>5, AnchorsInserted
<1>6. CASE t = InsertMap(open[d], SaveKey(d), <<number, save[d].rows + 1>>)
  <2>1. t \in Tables
    BY <1>1, <1>2, <1>6, MapInserted
  <2>2. t.anchors = open[d].anchors
    BY <1>1, <1>6 DEF Tables, InsertMap
  <2> QED
    BY <2>1, <2>2
<1> QED
  BY <1>3, <1>4, <1>5, <1>6 DEF Statements

LEMMA StatementWrites ==
    ASSUME NEW d \in Devices, Statement(d)
    PROVE  /\ save[d].at # "idle" /\ UNCHANGED <<cfg, clock, number, session, faults, hurt>>
           /\ \/ UNCHANGED <<disk, open>>
              \/ \E t \in Statements(d) : Write(d, t)
              \/ Commit(d)
  BY DEF Statement, Statements, EnsureTables, Begin, SaveAnchors, SaveMaps, Commit, Remove

-----------------------------------------------------------------------------
LEMMA DatedKept ==
    ASSUME NEW t, NEW u, NEW k \in Key, NEW r, Dated(r), DatedTables(t),
           t.anchors \in [Key -> Anchors],
           u.anchors = t.anchors \/ u.anchors = [t.anchors EXCEPT ![k] = r]
    PROVE  DatedTables(u)
  BY DEF DatedTables

LEMMA StatementDated ==
    ASSUME TypeOK, AnchorsInv, ~cfg.brisk, NEW d \in Devices, save[d].at # "idle",
           NEW t \in Statements(d)
    PROVE  DatedTables(t)
<1>1. SaveKey(d) \in Key /\ open[d].anchors \in [Key -> Anchors] /\ DatedTables(open[d])
  BY KeyType DEF TypeOK, Tables, Anchors, AnchorsInv
<1>2. Dated(NoRow)
  BY DEF Dated
<1>3. CASE /\ save[d].at = "insertAnchors"
           /\ t.anchors = [open[d].anchors EXCEPT ![SaveKey(d)] = NewRow]
  <2>1. number > 0 /\ session.anchor = number + 1 /\ number \in Nat
    BY <1>3 DEF AnchorsInv, Timed, Begun, Cleaning, TypeOK
  <2>2. Dated(NewRow)
    BY <2>1 DEF Dated, NewRow, Row
  <2> QED
    BY <1>1, <1>3, <2>2, DatedKept
<1> QED
  BY <1>1, <1>2, <1>3, StatementTables, DatedKept

LEMMA AnchorsStatement ==
    ASSUME TypeOK, AnchorsInv, NEW d \in Devices, Statement(d)
    PROVE  AnchorsInv'
<1>1. save[d].at # "idle" /\ UNCHANGED <<cfg, clock, number, session, faults, hurt>>
  BY StatementWrites
<1>2. \A e \in Devices \ {d} : save'[e] = save[e] /\ disk'[e] = disk[e] /\ open'[e] = open[e]
  BY StatementLocal
<1>3. Begun'
  <2>1. CASE Remove(d)
    <3>1. save'[d].at = "idle" \/ Cleaning(d)'
      BY <2>1 DEF Remove, GoTo, NextDb, Saving, Idle, Cleaning, TypeOK
    <3> QED
      BY <1>1, <1>2, <3>1 DEF AnchorsInv, Begun, Cleaning
  <2>2. CASE ~Remove(d)
    <3>1. ~Cleaning(d)
      BY <2>2 DEF Statement, EnsureTables, Begin, SaveAnchors, SaveMaps, Commit, Cleaning
    <3>2. number > 0
      BY <1>1, <3>1 DEF AnchorsInv, Begun
    <3> QED
      BY <1>1, <3>2 DEF AnchorsInv, Begun
  <2> QED
    BY <2>1, <2>2
<1>4. Timed'
  BY <1>1 DEF AnchorsInv, Timed
<1>5. ASSUME ~cfg.brisk
      PROVE  DatedTables(disk'[d]) /\ DatedTables(open'[d])
  <2>1. DatedTables(disk[d]) /\ DatedTables(open[d])
    BY <1>5 DEF AnchorsInv
  <2>2. CASE UNCHANGED <<disk, open>>
    BY <2>1, <2>2
  <2>3. CASE \E t \in Statements(d) : Write(d, t)
    <3>1. PICK t \in Statements(d) : Write(d, t)
      BY <2>3
    <3>2. DatedTables(t)
      BY <1>1, <1>5, StatementDated
    <3>3. open'[d] = t /\ (disk'[d] = t \/ disk'[d] = disk[d])
      BY <3>1 DEF Write, TypeOK
    <3> QED
      BY <2>1, <3>2, <3>3
  <2>4. CASE Commit(d)
    <3>1. open'[d] = open[d] /\ disk'[d] = open[d]
      BY <2>4 DEF Commit, TypeOK
    <3> QED
      BY <2>1, <3>1
  <2> QED
    BY <2>2, <2>3, <2>4, StatementWrites
<1>6. DatedTables(disk[d])' = DatedTables(disk'[d]) /\ DatedTables(open[d])' = DatedTables(open'[d])
  BY DEF DatedTables, Dated
<1>7. \A e \in Devices \ {d} : /\ DatedTables(disk[e])' = DatedTables(disk[e])
                                /\ DatedTables(open[e])' = DatedTables(open[e])
  BY <1>2 DEF DatedTables, Dated
<1>8. ~cfg.brisk => \A e \in Devices : DatedTables(disk[e])' /\ DatedTables(open[e])'
  BY <1>5, <1>6, <1>7 DEF AnchorsInv
<1> QED
  BY <1>1, <1>3, <1>4, <1>8 DEF AnchorsInv

LEMMA AnchorsKept ==
    ASSUME AnchorsInv, Timed', Begun', cfg' = cfg, disk' = disk,
           \A d \in Devices : open'[d] \in {open[d], disk[d]}
    PROVE  AnchorsInv'
  BY DEF AnchorsInv, DatedTables, Dated

LEMMA AnchorsDevice ==
    ASSUME TypeOK, AnchorsInv, NEW d \in Devices, Device(d)
    PROVE  AnchorsInv'
<1>1. CASE Statement(d)
  BY <1>1, AnchorsStatement
<1>2. CASE Finish(d)
  <2>1. Timed' /\ Begun'
    BY <1>2 DEF Finish, BeginAt, Saving, AnchorsInv, Timed, Begun, TypeOK
  <2> QED
    BY <1>2, <2>1, AnchorsKept DEF Finish
<1>3. CASE Fail(d)
  <2>1. Timed'
    BY <1>3 DEF Fail, AnchorsInv, Timed
  <2>2. \A e \in Devices \ {d} : save'[e] = save[e]
    BY <1>3 DEF Fail, NextDb, TypeOK
  <2>3. save'[d].at = "idle" \/ Cleaning(d)' \/ number > 0
    BY <1>3 DEF Fail, NextDb, Saving, Idle, Cleaning, AnchorsInv, Begun, TypeOK
  <2>4. Begun'
    BY <1>3, <2>2, <2>3 DEF Fail, Cleaning, AnchorsInv, Begun
  <2>5. \A e \in Devices : open'[e] \in {open[e], disk[e]}
    BY <1>3 DEF Fail, TypeOK
  <2> QED
    BY <1>3, <2>1, <2>4, <2>5, AnchorsKept DEF Fail
<1>4. CASE Crash(d)
  <2>1. session'.state \in {session.state, "none"} /\ session'.anchor = session.anchor
    BY <1>4 DEF Crash, TypeOK
  <2>2. Timed' /\ Begun'
    BY <1>4, <2>1 DEF Crash, Idle, Cleaning, AnchorsInv, Timed, Begun, TypeOK
  <2>3. \A e \in Devices : open'[e] \in {open[e], disk[e]}
    BY <1>4 DEF Crash, TypeOK
  <2> QED
    BY <1>4, <2>2, <2>3, AnchorsKept DEF Crash
<1>5. CASE CleanUp(d)
  <2>1. session'.state = session.state /\ session'.anchor = session.anchor
    BY <1>5 DEF CleanUp, TypeOK
  <2>2. Timed' /\ Begun'
    BY <1>5, <2>1 DEF CleanUp, BeginAt, Saving, Cleaning, AnchorsInv, Timed, Begun, TypeOK
  <2> QED
    BY <1>5, <2>2, AnchorsKept DEF CleanUp
<1> QED
  BY <1>1, <1>2, <1>3, <1>4, <1>5 DEF Device

LEMMA AnchorsStart ==
    ASSUME TypeOK, AnchorsInv, StartSync
    PROVE  AnchorsInv'
<1>1. number' = number + 1 /\ number' > 0 /\ session'.anchor = clock'
  BY DEF StartSync, TypeOK
<1>2. clock' >= clock /\ clock' > 0 /\ (~cfg.brisk => clock' = clock + 1)
  BY DEF StartSync, AnchorsInv, Timed, TypeOK
<1>3. Timed' /\ Begun'
  BY <1>1, <1>2 DEF StartSync, Resting, AnchorsInv, Timed, Begun, TypeOK
<1> QED
  BY <1>3, AnchorsKept DEF StartSync

LEMMA InitAnchors == Init => AnchorsInv
<1>1. DatedTables(NoTables)
  BY DEF DatedTables, Dated, NoTables
<1> QED
  BY <1>1 DEF Init, AnchorsInv, Timed, Begun, NoSession, Idle

-----------------------------------------------------------------------------
(***************************************************************************)
(* The modes of an open session                                            *)
(***************************************************************************)
LEMMA ModesKept ==
    ASSUME TypeOK, ModesInv, [Next]_vars
    PROVE  ModesInv'
<1>1. CASE StartSync
  <2>1. \A d \in Devices : save'[d].at = "idle"
    BY <1>1 DEF StartSync, Resting
  <2>2. PICK dir \in cfg.dirs, read \in [Devices -> Reads] :
            session' = [state |-> "open", dir |-> dir, anchor |-> clock', read |-> read,
                        mode |-> [db \in Db |-> Mode(<<db, dir>>, read)]]
    BY <1>1 DEF StartSync
  <2>3. \A k : Mode(k, read)' = Mode(k, read)
    BY <1>1 DEF StartSync, Mode
  <2>4. \A db \in Db : session'.mode[db] = Mode(<<db, session.dir>>, session.read)'
    BY <2>2, <2>3
  <2> QED
    BY <2>1, <2>4 DEF ModesInv
<1>2. CASE session'.state # "open"
  BY <1>2 DEF ModesInv
<1>3. CASE UNCHANGED <<session, disk, save>>
  BY <1>3 DEF ModesInv, Mode
<1>4. ASSUME NEW d \in Devices, Device(d), session'.state = "open"
      PROVE  FALSE
  <2>1. ~Finish(d) /\ ~Crash(d) /\ ~CleanUp(d)
    BY <1>4 DEF Finish, Crash, CleanUp, Resting, TypeOK
  <2>2. session' = session /\ save[d].at # "idle"
    BY <1>4, <2>1, StatementWrites DEF Device, Fail
  <2> QED
    BY <1>4, <2>2 DEF ModesInv
<1>5. CASE Abandon
  BY <1>5, <1>2 DEF Abandon, TypeOK
<1> QED
  BY <1>1, <1>2, <1>3, <1>4, <1>5 DEF Next, vars

(***************************************************************************)
(* Anchors tell the sessions that wrote them, and the modes of an open     *)
(* session are what they tell.                                             *)
(***************************************************************************)
THEOREM AnchorsTell == Spec => [](AnchorsInv /\ ModesInv)
<1>1. TypeOK /\ AnchorsInv /\ ModesInv /\ [Next]_vars => AnchorsInv' /\ ModesInv'
  <2> SUFFICES ASSUME TypeOK, AnchorsInv, ModesInv, [Next]_vars
               PROVE  AnchorsInv'
    BY ModesKept
  <2>1. CASE Abandon
    <3>1. Timed' /\ Begun'
      BY <2>1 DEF Abandon, AnchorsInv, Timed, Begun, Cleaning, TypeOK
    <3> QED
      BY <2>1, <3>1, AnchorsKept DEF Abandon
  <2>2. CASE UNCHANGED vars
    <3>1. Timed' /\ Begun'
      BY <2>2 DEF vars, AnchorsInv, Timed, Begun, Cleaning
    <3> QED
      BY <2>2, <3>1, AnchorsKept DEF vars
  <2> QED
    BY <2>1, <2>2, AnchorsStart, AnchorsDevice DEF Next
<1>2. Init => ModesInv
  BY DEF Init, NoSession, ModesInv
<1> QED
  BY <1>1, <1>2, InitAnchors, LogTypes, PTL DEF Spec

LEMMA Agreed ==
    ASSUME TypeOK, SavingInv, AnchorsInv, ModesInv
    PROVE  FastMeansAgreed
<1> SUFFICES ASSUME session.state = "open", ~cfg.brisk, cfg.transacts,
                    NEW db \in Db, session.mode[db] = "FAST"
             PROVE  LET k == <<db, session.dir>>
                        last == disk["server"].anchors[k].session
                    IN /\ last # 0 /\ disk["client"].anchors[k].session = last
                       /\ session.read["server"] = "all" =>
                              LoadMaps(disk["server"], k, "all") = MapsOf(last, Maps)
  BY DEF FastMeansAgreed
<1> DEFINE k == <<db, session.dir>>
           told == disk["client"].anchors[k]
           kept == disk["server"].anchors[k]
<1>1. k \in Key /\ {"client", "server"} = Devices
  BY DEF TypeOK, Key, Devices
<1>2. Dated(told) /\ Dated(kept) /\ told \in Anchors /\ kept \in Anchors
  BY <1>1 DEF AnchorsInv, DatedTables, TypeOK, Tables, Anchors
<1>3. Mode(k, session.read) = "FAST"
  BY DEF ModesInv
<1>4. told.local # 0 /\ kept.remote = told.local
  BY <1>3 DEF Mode, LoadAnchors, NoRow, Row
<1>5. kept.session # 0 /\ told.session = kept.session
  BY <1>2, <1>4 DEF Dated, NoRow, Row, Anchors
<1>6. WholeAt(disk["server"], k)
  BY <1>1 DEF SavingInv, Careful, Stored
<1> QED
  BY <1>5, <1>6 DEF WholeAt, LoadMaps

(***************************************************************************)
(* A fast sync has an earlier session behind it that both devices have     *)
(* stored, the server with all its mappings: what one of them could not    *)
(* save, or stopped before it saved, is found out by their anchors.        *)
(***************************************************************************)
THEOREM FastAgreed == Spec => []FastMeansAgreed
  BY Agreed, LogTypes, SavingCareful, AnchorsTell, PTL

-----------------------------------------------------------------------------
(***************************************************************************)
(* A session that nothing goes wrong with                                  *)
(***************************************************************************)
LEMMA LoggedKept ==
    ASSUME NEW e \in Devices, Logged(e), save'[e] = save[e], disk'[e] = disk[e],
           open'[e] = open[e], cfg' = cfg, number' = number, session'.dir = session.dir,
           session'.anchor = session.anchor, Waits(e)' = Waits(e)
    PROVE  Logged(e)'
  BY DEF Logged, Unsaved, Cleaning, HasRow, NewRow

LEMMA NextDbRecord ==
    ASSUME TypeOK, NEW d \in Devices, NEW first \in Stages \ {"idle"}, NextDb(d, first)
    PROVE  /\ Unsaved(d)' = save[d].left /\ save'[d].left \subseteq save[d].left
           /\ save'[d].at # "idle" => /\ save'[d].at = first
                                      /\ save'[d].db \in save[d].left \ save'[d].left
<1>1. CASE save[d].left = {} /\ save' = [save EXCEPT ![d] = Idle]
  BY <1>1 DEF TypeOK, Idle, Unsaved
<1>2. CASE \E db \in save[d].left :
               save' = [save EXCEPT ![d] = Saving(first, db, save[d].left \ {db})]
  <2>1. PICK db \in save[d].left :
            save' = [save EXCEPT ![d] = Saving(first, db, save[d].left \ {db})]
    BY <1>2
  <2>2. save'[d].at = first /\ save'[d].db = db /\ save'[d].left = save[d].left \ {db}
    BY <2>1 DEF TypeOK, Saving
  <2> QED
    BY <2>2 DEF Unsaved
<1> QED
  BY <1>1, <1>2 DEF NextDb

LEMMA LoggedCommit ==
    ASSUME TypeOK, NEW d \in Devices, Logged(d), Commit(d), ~Waits(d),
           UNCHANGED <<cfg, clock, number, session>>
    PROVE  Logged(d)'
<1>1. save[d].at = "commit" /\ NextDb(d, "tables") /\ disk'[d] = open[d] /\ open'[d] = open[d]
  BY DEF Commit, TypeOK
<1>2. /\ Unsaved(d)' = save[d].left /\ save'[d].left \subseteq save[d].left
      /\ save'[d].at # "idle" => /\ save'[d].at = "tables"
                                 /\ save'[d].db \in save[d].left \ save'[d].left
  BY <1>1, NextDbRecord DEF Stages
<1>3. \A db \in cfg.dbs \ save[d].left : HasRow(open[d], db)
  BY <1>1 DEF Logged, Unsaved
<1>4. \A db \in cfg.dbs \ Unsaved(d)' : HasRow(disk[d], db)' /\ HasRow(open[d], db)'
  BY <1>1, <1>2, <1>3 DEF HasRow, NewRow
<1>5. ~Waits(d)' /\ ~Cleaning(d)'
  BY <1>2 DEF Waits, Cleaning
<1>6. save[d].left \subseteq cfg'.dbs
  BY <1>1 DEF Logged
<1> QED
  BY <1>2, <1>4, <1>5, <1>6 DEF Logged

LEMMA LoggedWritten ==
    ASSUME TypeOK, NEW d \in Devices, Logged(d), ~Waits(d), save[d].at # "idle",
           UNCHANGED <<cfg, clock, number, session>>,
           save'[d].at \in Stages \ {"idle", "cleanAnchors", "cleanMaps"},
           save'[d].db = save[d].db, save'[d].left = save[d].left,
           save'[d].at \in {"deleteMaps", "insertMaps", "commit"} =>
               HasRow(open'[d], save[d].db),
           \A db \in cfg.dbs \ Unsaved(d) : HasRow(open'[d], db) /\ HasRow(disk'[d], db)
    PROVE  Logged(d)'
<1>1. Unsaved(d)' = Unsaved(d) /\ ~Cleaning(d)' /\ ~Waits(d)'
  BY DEF Unsaved, Cleaning, Waits
<1>2. \A db : /\ HasRow(open[d], db)' <=> HasRow(open'[d], db)
              /\ HasRow(disk[d], db)' <=> HasRow(disk'[d], db)
  BY DEF HasRow, NewRow
<1> QED
  BY <1>1, <1>2 DEF Logged

\* Writing to the log that is being saved disturbs no other one
LEMMA LoggedWrite ==
    ASSUME TypeOK, NEW d \in Devices, Logged(d), ~Waits(d), save[d].at # "idle",
           NEW t \in Statements(d), Write(d, t), NEW db \in cfg.dbs \ Unsaved(d)
    PROVE  HasRow(open'[d], db) /\ HasRow(disk'[d], db)
<1> DEFINE k == <<db, session.dir>>
<1>1. k \in Key /\ SaveKey(d) \in Key /\ k # SaveKey(d)
  BY CfgType, KeyType DEF TypeOK, Key, Unsaved, SaveKey
<1>2. open[d].anchors \in [Key -> Anchors]
  BY DEF TypeOK, Tables, Anchors
<1>3. HasRow(open[d], db) /\ HasRow(disk[d], db)
  BY DEF Logged
<1>4. t.anchors[k] = open[d].anchors[k]
  <2>1. \/ t.anchors = open[d].anchors
        \/ \E r : t.anchors = [open[d].anchors EXCEPT ![SaveKey(d)] = r]
    BY StatementTables
  <2> QED
    BY <1>1, <1>2, <2>1
<1>5. HasRow(t, db)
  BY <1>3, <1>4 DEF HasRow
<1>6. open'[d] = t /\ disk'[d] \in {disk[d], t}
  BY DEF Write, TypeOK
<1> QED
  BY <1>3, <1>5, <1>6

LEMMA LoggedStatement ==
    ASSUME TypeOK, NEW d \in Devices, Logged(d), Statement(d)
    PROVE  Logged(d)'
<1>1. save[d].at # "idle" /\ UNCHANGED <<cfg, clock, number, session>>
  BY StatementWrites
<1>2. ~Waits(d) /\ ~Remove(d) /\ save[d].db \in cfg.dbs
  BY <1>1 DEF Logged, Remove, Cleaning
<1>3. \A db \in cfg.dbs \ Unsaved(d) : HasRow(open[d], db) /\ HasRow(disk[d], db)
  BY <1>2 DEF Logged
<1>4. CASE EnsureTables(d) \/ Begin(d)
  <2>1. /\ save'[d].at \in {"begin", "deleteAnchors"}
        /\ save'[d].db = save[d].db /\ save'[d].left = save[d].left
    BY <1>4 DEF EnsureTables, Begin, GoTo, TypeOK
  <2>2. UNCHANGED <<disk, open>>
    BY <1>4 DEF EnsureTables, Begin
  <2> QED
    BY <1>1, <1>2, <1>3, <2>1, <2>2, LoggedWritten DEF Stages
<1>5. CASE SaveAnchors(d)
  <2>1. PICK t \in Statements(d) :
            /\ Write(d, t)
            /\ \/ save[d].at = "deleteAnchors" /\ GoTo(d, "insertAnchors")
               \/ /\ save[d].at = "insertAnchors" /\ GoTo(d, "deleteMaps")
                  /\ t = InsertAnchors(open[d], SaveKey(d), NewRow)
    BY <1>5 DEF SaveAnchors, Statements
  <2>2. /\ save'[d].at \in {"insertAnchors", "deleteMaps"}
        /\ save'[d].db = save[d].db /\ save'[d].left = save[d].left
    BY <2>1, GoToRecord
  <2>3. save'[d].at = "deleteMaps" => HasRow(open'[d], save[d].db)
    <3> SUFFICES ASSUME save'[d].at = "deleteMaps"
                 PROVE  HasRow(open'[d], save[d].db)
      OBVIOUS
    <3>1. t = InsertAnchors(open[d], SaveKey(d), NewRow)
      BY <2>1, GoToRecord
    <3>2. open[d] \in Tables /\ SaveKey(d) \in Key /\ NewRow \in Anchors
      BY <1>1, KeyType, NewRowType DEF TypeOK
    <3>3. t.anchors[SaveKey(d)] = NewRow
      BY <3>1, <3>2 DEF InsertAnchors, Tables
    <3>4. open'[d] = t
      BY <2>1 DEF Write, TypeOK
    <3> QED
      BY <3>3, <3>4 DEF HasRow, SaveKey
  <2>4. \A db \in cfg.dbs \ Unsaved(d) : HasRow(open'[d], db) /\ HasRow(disk'[d], db)
    BY <1>1, <1>2, <2>1, LoggedWrite
  <2> QED
    BY <1>1, <1>2, <2>2, <2>3, <2>4, LoggedWritten DEF Stages
<1>6. CASE SaveMaps(d)
  <2>1. /\ save'[d].at \in {"insertMaps", "commit"}
        /\ save'[d].db = save[d].db /\ save'[d].left = save[d].left
    BY <1>6 DEF SaveMaps, GoTo, TypeOK
  <2>2. save[d].at \in {"deleteMaps", "insertMaps"}
    BY <1>6 DEF SaveMaps
  <2>3. HasRow(open[d], save[d].db)
    BY <2>2 DEF Logged
  <2>4. CASE UNCHANGED <<disk, open>>
    BY <1>1, <1>2, <1>3, <2>1, <2>3, <2>4, LoggedWritten DEF Stages
  <2>5. CASE \E t \in {RemoveMaps(open[d], SaveKey(d)),
                       InsertMap(open[d], SaveKey(d), <<number, save[d].rows + 1>>)} :
                 Write(d, t)
    <3>1. PICK t \in {RemoveMaps(open[d], SaveKey(d)),
                      InsertMap(open[d], SaveKey(d), <<number, save[d].rows + 1>>)} :
              Write(d, t)
      BY <2>5
    <3>2. t \in Statements(d)
      BY DEF Statements
    <3>3. t.anchors = open[d].anchors
      BY DEF RemoveMaps, InsertMap, TypeOK, Tables
    <3>4. open'[d] = t
      BY <3>1 DEF Write, TypeOK
    <3>5. HasRow(open'[d], save[d].db)
      BY <2>3, <3>3, <3>4 DEF HasRow
    <3>6. \A db \in cfg.dbs \ Unsaved(d) : HasRow(open'[d], db) /\ HasRow(disk'[d], db)
      BY <1>1, <1>2, <3>1, <3>2, LoggedWrite
    <3> QED
      BY <1>1, <1>2, <2>1, <3>5, <3>6, LoggedWritten DEF Stages
  <2> QED
    BY <1>6, <2>4, <2>5 DEF SaveMaps
<1>7. CASE Commit(d)
  BY <1>1, <1>2, <1>7, LoggedCommit
<1> QED
  BY <1>2, <1>4, <1>5, <1>6, <1>7 DEF Statement

LEMMA LoggedFinish ==
    ASSUME TypeOK, NEW d \in Devices, \A e \in Devices : Logged(e), Finish(d), NEW e \in Devices
    PROVE  Logged(e)'
<1>1. UNCHANGED <<cfg, clock, number, disk, open>>
  BY DEF Finish
<1>2. session'.dir = session.dir /\ session'.anchor = session.anchor
  BY DEF Finish, TypeOK
<1>3. CASE e # d
  <2>1. save'[e] = save[e]
    BY <1>3 DEF Finish, BeginAt, TypeOK
  <2>2. Waits(e)' = Waits(e)
    BY <1>3 DEF Finish, Waits, Devices, TypeOK
  <2> QED
    BY <1>1, <1>2, <2>1, <2>2, LoggedKept
<1>4. CASE e = d
  <2>1. PICK db \in cfg.dbs : save' = [save EXCEPT ![d] = Saving("tables", db, cfg.dbs \ {db})]
    BY DEF Finish, BeginAt
  <2>2. save'[d].at = "tables" /\ save'[d].db = db /\ save'[d].left = cfg.dbs \ {db}
    BY <2>1 DEF TypeOK, Saving
  <2>3. Unsaved(d)' = cfg.dbs
    BY <2>2 DEF Unsaved
  <2>4. ~Waits(d)'
    BY DEF Finish, Waits, Devices, TypeOK
  <2> QED
    BY <1>1, <1>4, <2>2, <2>3, <2>4 DEF Logged, Cleaning
<1> QED
  BY <1>3, <1>4

(***************************************************************************)
(* In a session that nothing went wrong with a device has stored the logs  *)
(* of all databases but those that it is still to save.                    *)
(***************************************************************************)
THEOREM CalmLogged == Spec => []CalmInv
<1>1. TypeOK /\ CalmInv /\ [Next]_vars => CalmInv'
  <2> SUFFICES ASSUME TypeOK, CalmInv, [Next]_vars, number' > 0, hurt' # number',
                      NEW e \in Devices
               PROVE  Logged(e)'
    BY DEF CalmInv
  <2>1. CASE StartSync
    <3>1. save'[e].at = "idle" /\ Waits(e)'
      BY <2>1 DEF StartSync, Resting, Waits
    <3> QED
      BY <3>1 DEF Logged, Cleaning
  <2>2. CASE ~StartSync /\ Next
    <3>1. number' = number
      BY <2>2 DEF Next, Abandon, Device, Finish, Statement, Fail, Crash, CleanUp
    <3>2. ~Abandon
      BY <3>1 DEF Abandon
    <3>3. PICK d \in Devices : Device(d)
      BY <2>2, <3>2 DEF Next
    <3>4. Finish(d) \/ Statement(d)
      BY <3>1, <3>3 DEF Device, Fail, Crash, CleanUp
    <3>5. hurt' = hurt
      BY <3>4 DEF Finish, Statement
    <3>6. \A x \in Devices : Logged(x)
      BY <3>1, <3>5 DEF CalmInv
    <3>7. CASE Finish(d)
      BY <3>6, <3>7, LoggedFinish
    <3>8. CASE Statement(d) /\ e = d
      BY <3>6, <3>8, LoggedStatement
    <3>9. CASE Statement(d) /\ e # d
      <4>1. UNCHANGED <<cfg, clock, number, session>>
        BY <3>9, StatementWrites
      <4>2. save'[e] = save[e] /\ disk'[e] = disk[e] /\ open'[e] = open[e]
        BY <3>9, StatementLocal
      <4>3. Waits(e)' = Waits(e)
        BY <4>1 DEF Waits
      <4> QED
        BY <3>6, <4>1, <4>2, <4>3, LoggedKept
    <3> QED
      BY <3>4, <3>7, <3>8, <3>9
  <2>3. CASE UNCHANGED vars
    <3>1. Logged(e) /\ Waits(e)' = Waits(e)
      BY <2>3 DEF vars, CalmInv, Waits
    <3> QED
      BY <2>3, <3>1, LoggedKept DEF vars
  <2> QED
    BY <2>2, <2>1, <2>3
<1>2. Init => CalmInv
  BY DEF Init, CalmInv
<1> QED
  BY <1>1, <1>2, LogTypes, PTL DEF Spec

LEMMA Calm ==
    ASSUME TypeOK, AnchorsInv, CalmInv
    PROVE  SavedIfCalm
<1> SUFFICES ASSUME Resting, number > 0, hurt # number, NEW db \in cfg.dbs
             PROVE  /\ \A d \in Devices : disk[d].anchors[<<db, session.dir>>].session = number
                    /\ Mode(<<db, session.dir>>, [d \in Devices |-> "all"]) = "FAST"
  BY DEF SavedIfCalm
<1>1. \A d \in Devices : disk[d].anchors[<<db, session.dir>>] = NewRow
  BY DEF CalmInv, Logged, HasRow, Resting, Waits, Unsaved
<1>2. session.anchor # 0
  BY DEF AnchorsInv, Timed
<1> QED
  BY <1>1, <1>2 DEF Mode, LoadAnchors, NewRow, Row, Devices

(***************************************************************************)
(* After a session that nothing went wrong with both devices have stored   *)
(* it, every log of it, and will agree on a fast sync.                     *)
(***************************************************************************)
THEOREM CalmSaved == Spec => []SavedIfCalm
  BY Calm, LogTypes, AnchorsTell, CalmLogged, PTL

=============================================================================
