---------------------------- MODULE SyncPromise ----------------------------
(***************************************************************************)
(* What a synchronization promises to the databases of the two parties,    *)
(* without a word of how the parties talk.  Items reach the storages of a  *)
(* party while its session is open.  A session ends once: it is saved, and *)
(* then the next synchronization starts from there, or it fails, and the   *)
(* next one starts where this one did.  What is saved must therefore be    *)
(* complete: a session that is saved too early loses the changes that were *)
(* not exchanged, as neither side would ever send them again.              *)
(***************************************************************************)
EXTENDS SyncModes

CONSTANTS
    Db,         \* the databases
    Item,       \* their items
    Fresh,      \* the items a party changed since the last synchronization
    Whole       \* all the items of a party

Party == {"CLIENT", "SERVER"}

VARIABLES
    stored,     \* the items of the other party that a party stored
    outcome,    \* how the session of a party ended, if it did
    agreed      \* the mode in which a party saved each database, or NoMode

vars == <<stored, outcome, agreed>>

Outcomes == {"open", "saved", "failed"}
NoMode   == [dir |-> "none", init |-> "none", type |-> "none"]
Saved    == [Db -> AlertMode \cup {NoMode}]

\* The items a mode makes a party send: none against the direction, and a
\* refresh from the server is never carried out
Owed(party, db, mode) ==
    IF ~Sends(party, mode.dir)                             THEN {}
    ELSE IF mode.type = "FAST"                             THEN Fresh[party][db]
    ELSE IF mode.type = "REFRESH" /\ party = "SERVER"      THEN {}
    ELSE Whole[party][db]

\* Both parties have what the other one owes them for a database
Exchanged(db, mode) ==
    /\ Owed("CLIENT", db, mode) \subseteq stored["SERVER"][db]
    /\ Owed("SERVER", db, mode) \subseteq stored["CLIENT"][db]

TypeOK ==
    /\ stored \in [Party -> [Db -> SUBSET Item]]
    /\ outcome \in [Party -> Outcomes]
    /\ agreed \in [Party -> Saved]

Init ==
    /\ stored = [p \in Party |-> [d \in Db |-> {}]]
    /\ outcome = [p \in Party |-> "open"]
    /\ agreed = [p \in Party |-> [d \in Db |-> NoMode]]

-----------------------------------------------------------------------------
Store(p, db) ==
    /\ outcome[p] = "open"
    /\ \E items \in SUBSET Item :
          stored' = [stored EXCEPT ![p][db] = @ \cup items]
    /\ UNCHANGED <<outcome, agreed>>

\* The server saves what was exchanged in full
ServerSaves ==
    /\ outcome["SERVER"] = "open"
    /\ outcome' = [outcome EXCEPT !["SERVER"] = "saved"]
    /\ \E saved \in Saved :
          /\ \A d \in Db : saved[d] # NoMode => Exchanged(d, saved[d])
          /\ agreed' = [agreed EXCEPT !["SERVER"] = saved]
    /\ UNCHANGED stored

\* The client saves after the server did, and a database that both save in the
\* mode of the server, where that mode has an alert code to tell it with
ClientSaves ==
    /\ outcome["CLIENT"] = "open"
    /\ outcome["SERVER"] = "saved"
    /\ outcome' = [outcome EXCEPT !["CLIENT"] = "saved"]
    /\ \E saved \in Saved :
          /\ \A d \in Db :
                LET mode == agreed["SERVER"][d] IN
                (NoMode \notin {saved[d], mode} /\ Representable(mode)) => saved[d] = mode
          /\ agreed' = [agreed EXCEPT !["CLIENT"] = saved]
    /\ UNCHANGED stored

Fail(p) ==
    /\ outcome[p] = "open"
    /\ outcome' = [outcome EXCEPT ![p] = "failed"]
    /\ UNCHANGED <<stored, agreed>>

Next ==
    \/ \E p \in Party : Fail(p) \/ \E db \in Db : Store(p, db)
    \/ ServerSaves
    \/ ClientSaves

Spec == Init /\ [][Next]_vars

=============================================================================
