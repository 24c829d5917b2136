----------------------------- MODULE SyncModes -----------------------------
(***************************************************************************)
(* SyncMode (src/src/SyncMode.cpp): what a sync mode is, and how it goes   *)
(* over the wire as the alert code of the SyncML representation protocol.  *)
(* The numbers are those of enum AlertCodes in src/src/datatypes.h.        *)
(***************************************************************************)
EXTENDS Integers

Directions == {"TWO_WAY", "FROM_CLIENT", "FROM_SERVER"}
Initiators == {"CLIENT", "SERVER"}
Types      == {"FAST", "SLOW", "REFRESH"}

SyncMode == [dir : Directions, init : Initiators, type : Types]

\* The modes there is an alert code for: a two-way sync is no refresh
AlertMode == {mode \in SyncMode : mode.dir = "TWO_WAY" => mode.type # "REFRESH"}

SyncCodes    == 200..210        \* TWO_WAY_SYNC .. REFRESH_FROM_SERVER_BY_SERVER
NEXT_MESSAGE == 222
InvalidCode  == -1

(***************************************************************************)
(* SyncMode::SyncMode( qint32 ): the mode a received alert code stands for *)
(***************************************************************************)
ModeOf(code) ==
    [dir  |-> IF code \in {200, 201, 206} THEN "TWO_WAY"
              ELSE IF code \in {202, 203, 207, 208} THEN "FROM_CLIENT"
              ELSE "FROM_SERVER",
     init |-> IF code <= 205 THEN "CLIENT" ELSE "SERVER",
     type |-> IF code = 201 THEN "SLOW"
              ELSE IF code \in {203, 205, 208, 210} THEN "REFRESH"
              ELSE "FAST"]

(***************************************************************************)
(* SyncMode::toSyncMLCode: the code a mode is announced with.  The one-way *)
(* codes come in pairs, the second of which is the refresh; there is no    *)
(* one-way slow code, and no two-way refresh code.                         *)
(***************************************************************************)
OneWayCode(dir, init) ==
    CASE dir = "FROM_CLIENT" /\ init = "CLIENT" -> 202
      [] dir = "FROM_SERVER" /\ init = "CLIENT" -> 204
      [] dir = "FROM_CLIENT" /\ init = "SERVER" -> 207
      [] OTHER                                  -> 209

ToSyncMLCode(mode) ==
    IF mode.dir # "TWO_WAY"
    THEN OneWayCode(mode.dir, mode.init) + (IF mode.type = "REFRESH" THEN 1 ELSE 0)
    ELSE IF mode.init = "SERVER"  THEN 206
    ELSE IF mode.type = "FAST"    THEN 200
    ELSE IF mode.type = "SLOW"    THEN 201
    ELSE InvalidCode

\* Whether a direction has a party send its changes
Sends(party, dir) ==
    dir \in {"TWO_WAY", IF party = "CLIENT" THEN "FROM_CLIENT" ELSE "FROM_SERVER"}

ToSlowSync(mode)        == [mode EXCEPT !.type = "SLOW"]
SetRefresh(mode)        == [mode EXCEPT !.type = "REFRESH"]
ToClientInitiated(mode) == [mode EXCEPT !.init = "CLIENT"]

-----------------------------------------------------------------------------
(***************************************************************************)
(* The modes a remote party reads back as they were meant.                 *)
(***************************************************************************)
Representable(mode) ==
    ToSyncMLCode(mode) \in SyncCodes /\ ModeOf(ToSyncMLCode(mode)) = mode

=============================================================================
