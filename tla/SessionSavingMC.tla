--------------------------- MODULE SessionSavingMC ---------------------------
(***************************************************************************)
(* Two databases, each with two mappings after a session, and the          *)
(* behaviours that the run "Saving" looks at.                              *)
(***************************************************************************)
EXTENDS SessionSavingProps

Behaviour == [dbs |-> {"notes"}, dirs |-> {"TWO_WAY"}, sessions |-> 3, faults |-> 1,
              brisk |-> FALSE, transacts |-> TRUE]

Behaviours ==
    {[Behaviour EXCEPT !.dbs = Db, !.sessions = 2],
     [Behaviour EXCEPT !.faults = 2],
     [Behaviour EXCEPT !.dirs = {"TWO_WAY", "FROM_CLIENT"}],
     [Behaviour EXCEPT !.brisk = TRUE],
     [Behaviour EXCEPT !.transacts = FALSE]}

=============================================================================
