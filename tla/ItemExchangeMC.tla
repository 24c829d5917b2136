--------------------------- MODULE ItemExchangeMC ---------------------------
(***************************************************************************)
(* Configurations of ItemExchange for TLC.                                 *)
(***************************************************************************)
EXTENDS ItemExchangeProps

Plain == [policy |-> "PREFER_LOCAL_CHANGES", maxChanges |-> 2, large |-> {},
          detects |-> FALSE, shared |-> FALSE, fails |-> {}, writes |-> 2, alerted |-> {FALSE},
          quick |-> FALSE, aborts |-> FALSE, clashes |-> FALSE]

Remote == [Plain EXCEPT !.policy = "PREFER_REMOTE_CHANGES"]

\* Aborts; large items that are cut; both policies, elements of one or of two
\* items, plug-ins that fail or detect duplicates, and users whose deletions and
\* modifications meet.  Sessions that end in the second in which they wrote are
\* those of EchoConfigs
ItemConfigs == {[Plain  EXCEPT !.aborts = TRUE, !.large = {2}],
                [Remote EXCEPT !.large = {1, 2}, !.maxChanges = 1, !.writes = 3],
                [Remote EXCEPT !.fails = {"commit"}, !.alerted = BOOLEAN],
                [Plain  EXCEPT !.clashes = TRUE, !.detects = TRUE, !.writes = 3]}

\* For EchoFree, sessions that end in the second in which they wrote
EchoConfigs == {[Plain EXCEPT !.quick = TRUE]}

=============================================================================
