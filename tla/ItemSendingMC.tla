---------------------------- MODULE ItemSendingMC ----------------------------
(***************************************************************************)
(* The changes and the bounds that the run "Sending" looks at.             *)
(***************************************************************************)
EXTENDS ItemSendingProps

C(cmd, key, isLarge) == [cmd |-> cmd, key |-> key, large |-> isLarge]

Behaviour ==
    [items |-> <<C("Add", "a", FALSE), C("Add", "b", TRUE), C("Replace", "c", FALSE),
                 C("Replace", "d", TRUE)>>,
     removed |-> <<C("Delete", "e", FALSE)>>, max |-> 2, role |-> "client", omits |-> FALSE,
     removes |-> 0, dry |-> 1, chunks |-> 2, repeats |-> 0, late |-> 1]

\* Items only, which the prefetcher reads ahead of the messages
Many == [Behaviour EXCEPT !.removed = <<>>, !.items =
            [i \in 1 .. 5 |-> C("Replace", <<"a", "b", "c", "d", "e">>[i], i = 2)]]

Behaviours ==
    {[Behaviour EXCEPT !.repeats = 1],
     [Behaviour EXCEPT !.max = 1],
     [Behaviour EXCEPT !.role = "server", !.removes = 1],
     [Behaviour EXCEPT !.omits = TRUE, !.removes = 1],
     Many, [Many EXCEPT !.max = 3, !.removes = 1]}

=============================================================================
