----------------------------- MODULE LogPromise -----------------------------
(***************************************************************************)
(* What a device promises of its change logs, the parts that ChangeLog     *)
(* saves one after the other left out: a log is replaced by that of a      *)
(* later session in one step, all of it and no other one with it, and is   *)
(* forgotten only if that was asked for.                                   *)
(***************************************************************************)
EXTENDS ChangeLog

CONSTANTS Devices

VARIABLES
    log,        \* of a device, for each key: [session, maps]
    asked,      \* the keys whose logs a device was asked to forget
    atomic      \* whether transactions can be had: nothing is promised without

vars == <<log, asked, atomic>>

Nothing == [session |-> 0, maps |-> {}]
Whole(n) == [session |-> n, maps |-> MapsOf(n, Maps)]

Init == /\ log = [d \in Devices |-> [k \in Key |-> Nothing]]
        /\ asked = [d \in Devices |-> {}] /\ atomic \in BOOLEAN

Save(d, k) ==
    \E n \in {log'[d][k].session} :
        /\ n > log[d][k].session /\ log' = [log EXCEPT ![d][k] = Whole(n)]
        /\ UNCHANGED <<asked, atomic>>

Ask(d) == \E keys \in {asked'[d]} : asked' = [asked EXCEPT ![d] = keys] /\ UNCHANGED <<log, atomic>>

Forget(d, k) ==
    /\ k \in asked[d] /\ log' = [log EXCEPT ![d][k] = Nothing]
    /\ UNCHANGED <<asked, atomic>>

Next == \/ \E d \in Devices : Ask(d) \/ \E k \in Key : Save(d, k) \/ Forget(d, k)
        \/ ~atomic /\ UNCHANGED atomic

Spec == Init /\ [][Next]_vars

=============================================================================
