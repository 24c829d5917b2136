------------------------ MODULE SyncSessionAgreement ------------------------
(***************************************************************************)
(* The two sides save a database in one mode and with the anchors of each  *)
(* other, for any databases, items, configurations, message sizes and      *)
(* faults.                                                                 *)
(*                                                                         *)
(* What the server makes of the alert of a database is settled before it   *)
(* is sent: the code of the alert, the anchors and the configuration say   *)
(* it.  So it can be said of every alert and status, in the queues and on  *)
(* their way, what it tells, and of every target of the client who is      *)
(* about to tell it.                                                       *)
(***************************************************************************)
EXTENDS SyncSessionSavesLast

-----------------------------------------------------------------------------
(***************************************************************************)
(* Messages and queues, by the alerts that are in them.                    *)
(***************************************************************************)
\* Alerts come before all that makes the other side leave the initialization
Speaks(f)      == f.kind \in {"Sync", "Final"}
Speaking(s)    == \E i \in DOMAIN s : Speaks(s[i])
AlertsAhead(s) == \A i, j \in DOMAIN s : (Announces(s[i]) /\ Speaks(s[j])) => i < j

AlertFor(s, db) == \E i \in DOMAIN s : Announces(s[i]) /\ s[i].db = db

LEMMA EmptyAlerts ==
    AlertsAhead(<<>>) /\ ~Speaking(<<>>) /\ NoAlerts(<<>>) /\ \A db : ~AlertFor(<<>>, db)
<1> DEFINE e == <<>>
<1>1. DOMAIN e = {}
  BY EmptySeq, LenProperties
<1> HIDE DEF e
<1>2. AlertsAhead(e) /\ ~Speaking(e) /\ NoAlerts(e) /\ \A db : ~AlertFor(e, db)
  BY <1>1 DEF AlertsAhead, Speaking, NoAlerts, AlertFor
<1> QED
  BY <1>2 DEF e

\* Where there is an alert of a database there is one
LEMMA NoneFor ==
    ASSUME NEW s, NoAlerts(s)
    PROVE  AlertsAhead(s) /\ \A db : ~AlertFor(s, db)
  BY DEF NoAlerts, AlertsAhead, AlertFor

LEMMA TailAlerts ==
    ASSUME NEW S, NEW s \in Seq(S), s # <<>>
    PROVE  /\ AlertsAhead(s) => /\ AlertsAhead(Tail(s))
                                /\ Speaks(Head(s)) => NoAlerts(s)
           /\ Speaking(s) <=> Speaks(Head(s)) \/ Speaking(Tail(s))
           /\ \A db : AlertFor(s, db) =>
                 (Announces(Head(s)) /\ Head(s).db = db) \/ AlertFor(Tail(s), db)
           /\ NoAlerts(s) => ~Announces(Head(s)) /\ NoAlerts(Tail(s))
<1> DEFINE t == Tail(s)
           h == Head(s)
<1>1. /\ s[1] = h /\ 1 \in DOMAIN s
      /\ \A i \in DOMAIN t : i \in Nat /\ i >= 1 /\ i + 1 \in DOMAIN s /\ t[i] = s[i + 1]
      /\ \A i \in DOMAIN s : i = 1 \/ \E j \in DOMAIN t : i = j + 1
  BY TailPlaces
<1> HIDE DEF t, h
<1>2. ASSUME AlertsAhead(s) PROVE AlertsAhead(t)
  <2> SUFFICES ASSUME NEW i \in DOMAIN t, NEW j \in DOMAIN t, Announces(t[i]), Speaks(t[j])
               PROVE  i < j
    BY DEF AlertsAhead
  <2>1. i + 1 < j + 1
    BY <1>1, <1>2 DEF AlertsAhead
  <2> QED
    BY <1>1, <2>1
<1>3. ASSUME AlertsAhead(s), Speaks(h) PROVE NoAlerts(s)
  <2> SUFFICES ASSUME NEW i \in DOMAIN s, Announces(s[i]) PROVE FALSE
    BY DEF NoAlerts
  <2>1. i < 1
    BY <1>1, <1>3 DEF AlertsAhead
  <2> QED
    BY <1>1, <2>1
<1>4. Speaking(s) <=> Speaks(h) \/ Speaking(t)
  <2>1. Speaking(t) => Speaking(s)
    BY <1>1 DEF Speaking
  <2>2. Speaks(h) => Speaking(s)
    BY <1>1 DEF Speaking
  <2>3. Speaking(s) => Speaks(h) \/ Speaking(t)
    BY <1>1 DEF Speaking
  <2> QED
    BY <2>1, <2>2, <2>3
<1>5. ASSUME NEW db, AlertFor(s, db)
      PROVE  (Announces(h) /\ h.db = db) \/ AlertFor(t, db)
  BY <1>1, <1>5 DEF AlertFor
<1>6. NoAlerts(s) => ~Announces(h) /\ NoAlerts(t)
  BY TailShows DEF t, h
<1> QED
  BY <1>2, <1>3, <1>4, <1>5, <1>6 DEF t, h

LEMMA JoinAlerts ==
    ASSUME NEW S, NEW s \in Seq(S), NEW t \in Seq(S)
    PROVE  /\ (AlertsAhead(s) /\ NoAlerts(t)) => AlertsAhead(s \o t)
           /\ (~Speaking(s) /\ AlertsAhead(t)) => AlertsAhead(s \o t)
           /\ (~Speaking(s) /\ ~Speaking(t)) => ~Speaking(s \o t)
           /\ \A db : AlertFor(s, db) \/ AlertFor(t, db) => AlertFor(s \o t, db)
           /\ (NoAlerts(s) /\ NoAlerts(t)) => NoAlerts(s \o t)
<1> DEFINE a == Len(s)
           u == s \o t
<1>1. /\ a \in Nat /\ Len(u) = a + Len(t)
      /\ \A i \in DOMAIN s : i \in 1..a /\ i \in DOMAIN u /\ u[i] = s[i]
      /\ \A j \in DOMAIN t : j \in 1..Len(t) /\ a + j \in DOMAIN u /\ u[a + j] = t[j]
      /\ \A i \in DOMAIN u : i \in DOMAIN s \/ \E j \in DOMAIN t : i = a + j
  BY JoinPlaces
<1>2. Len(t) \in Nat
  BY LenProperties
<1> HIDE DEF a, u
<1>3. \A i \in DOMAIN s, j \in DOMAIN t : i < a + j
  BY <1>1, <1>2
<1>4. ASSUME AlertsAhead(s), NoAlerts(t) PROVE AlertsAhead(u)
  <2> SUFFICES ASSUME NEW i \in DOMAIN u, NEW j \in DOMAIN u, Announces(u[i]), Speaks(u[j])
               PROVE  i < j
    BY DEF AlertsAhead
  <2>1. i \in DOMAIN s
    BY <1>1, <1>4 DEF NoAlerts
  <2> QED
    BY <1>1, <1>3, <1>4, <2>1 DEF AlertsAhead
<1>5. ASSUME ~Speaking(s), AlertsAhead(t) PROVE AlertsAhead(u)
  <2> SUFFICES ASSUME NEW i \in DOMAIN u, NEW j \in DOMAIN u, Announces(u[i]), Speaks(u[j])
               PROVE  i < j
    BY DEF AlertsAhead
  <2>1. PICK k \in DOMAIN t : j = a + k
    BY <1>1, <1>5 DEF Speaking
  <2>2. CASE i \in DOMAIN s
    BY <1>3, <2>1, <2>2
  <2>3. CASE i \notin DOMAIN s
    <3>1. PICK l \in DOMAIN t : i = a + l
      BY <1>1, <2>3
    <3>2. l < k
      BY <1>1, <1>5, <2>1, <3>1 DEF AlertsAhead
    <3> QED
      BY <1>1, <1>2, <2>1, <3>1, <3>2
  <2> QED
    BY <2>2, <2>3
<1>6. (~Speaking(s) /\ ~Speaking(t)) => ~Speaking(u)
  BY <1>1 DEF Speaking
<1>7. ASSUME NEW db, AlertFor(s, db) \/ AlertFor(t, db) PROVE AlertFor(u, db)
  BY <1>1, <1>7 DEF AlertFor
<1>8. (NoAlerts(s) /\ NoAlerts(t)) => NoAlerts(u)
  BY <1>1 DEF NoAlerts
<1> QED
  BY <1>4, <1>5, <1>6, <1>7, <1>8 DEF u

\* A sequence of elements of a set is one over it
LEMMA AllIn ==
    ASSUME NEW S, NEW s \in Seq(S), NEW G, \A i \in DOMAIN s : s[i] \in G
    PROVE  s \in Seq(G)
<1>1. Len(s) \in Nat /\ s \in [1..Len(s) -> S]
  BY LenProperties
<1>2. s \in [1..Len(s) -> G]
  BY <1>1
<1> QED
  BY <1>1, <1>2, ListType

LEMMA InAll ==
    ASSUME NEW G, NEW s \in Seq(G)
    PROVE  \A i \in DOMAIN s : s[i] \in G
  BY LenProperties, ElementOfSeq

\* A cut takes no alert apart
LEMMA CutAlerts ==
    ASSUME NEW pkgs \in Seq(Package), NEW ample, NEW cut \in Cuts(pkgs, ample)
    PROVE  /\ AlertsAhead(pkgs) => /\ AlertsAhead(cut.written) /\ AlertsAhead(cut.left)
                                   /\ NoAlerts(cut.left) \/ ~Speaking(cut.written)
           /\ \A db : AlertFor(pkgs, db) => AlertFor(cut.written, db) \/ AlertFor(cut.left, db)
           /\ \A G : ({f \in Package : f.kind \in {"Sync", "Map"}} \subseteq G /\ pkgs \in Seq(G))
                        => cut.written \in Seq(G) /\ cut.left \in Seq(G)
<1> DEFINE n == Len(pkgs)
           a == cut.written
           b == cut.left
<1>1. a \in Seq(Package) /\ b \in Seq(Package)
  BY CutsType
<1>2. n \in Nat /\ DOMAIN pkgs = 1..n
  BY LenProperties
<1>3. PICK w \in 0..n, o \in Nat : CutIs(pkgs, cut, w, o)
  BY CutPlaces
<1>4. /\ o = w \/ (o + 1 = w /\ pkgs[w].kind \in {"Sync", "Map"})
      /\ Len(a) = w /\ DOMAIN a = 1..w
      /\ Len(b) = n - o /\ DOMAIN b = 1..(n - o)
      /\ \A i \in 1..w : /\ a[i].kind = pkgs[i].kind
                         /\ a[i] = pkgs[i] \/ pkgs[i].kind \in {"Sync", "Map"}
      /\ \A j \in 1..(n - o) : /\ b[j].kind = pkgs[o + j].kind
                               /\ b[j] = pkgs[o + j] \/ pkgs[o + j].kind \in {"Sync", "Map"}
  BY <1>3, Zenon DEF CutIs
<1> HIDE DEF n, a, b
<1>5. \A i \in 1..w : i \in 1..n
  BY <1>2, <1>4
<1>6. \A j \in 1..(n - o) : o + j \in 1..n /\ j >= 1
  BY <1>2, <1>4
<1>7. /\ \A i \in 1..w : (Announces(a[i]) <=> Announces(pkgs[i])) /\ (Speaks(a[i]) <=> Speaks(pkgs[i]))
      /\ \A j \in 1..(n - o) : /\ Announces(b[j]) <=> Announces(pkgs[o + j])
                               /\ Speaks(b[j]) <=> Speaks(pkgs[o + j])
  BY <1>4 DEF Announces, Speaks
<1>8. ASSUME AlertsAhead(pkgs) PROVE AlertsAhead(a)
  BY <1>2, <1>4, <1>5, <1>7, <1>8 DEF AlertsAhead
<1>9. ASSUME AlertsAhead(pkgs) PROVE AlertsAhead(b)
  <2> SUFFICES ASSUME NEW i \in DOMAIN b, NEW j \in DOMAIN b, Announces(b[i]), Speaks(b[j])
               PROVE  i < j
    BY DEF AlertsAhead
  <2>1. o + i < o + j
    BY <1>2, <1>4, <1>6, <1>7, <1>9 DEF AlertsAhead
  <2> QED
    BY <1>2, <1>4, <2>1
<1>10. ASSUME AlertsAhead(pkgs), ~NoAlerts(b) PROVE ~Speaking(a)
  <2>1. PICK j \in 1..(n - o) : Announces(b[j])
    BY <1>4, <1>10 DEF NoAlerts
  <2> SUFFICES ASSUME NEW i \in 1..w, Speaks(a[i]) PROVE FALSE
    BY <1>4 DEF Speaking
  <2>2. o + j < i
    BY <1>2, <1>5, <1>6, <1>7, <1>10, <2>1 DEF AlertsAhead
  <2> QED
    BY <1>2, <1>4, <2>2
<1>11. ASSUME NEW db, AlertFor(pkgs, db) PROVE AlertFor(a, db) \/ AlertFor(b, db)
  <2>1. PICK i \in 1..n : Announces(pkgs[i]) /\ pkgs[i].db = db
    BY <1>2, <1>11 DEF AlertFor
  <2>2. pkgs[i].kind \notin {"Sync", "Map"}
    BY <2>1 DEF Announces
  <2>3. CASE i \in 1..w
    BY <1>4, <2>1, <2>2, <2>3 DEF AlertFor
  <2>4. CASE i \notin 1..w
    <3> DEFINE j == i - o
    <3>1. j \in 1..(n - o) /\ o + j = i
      BY <1>2, <1>4, <2>4
    <3> HIDE DEF j
    <3> QED
      BY <1>4, <2>1, <2>2, <3>1 DEF AlertFor
  <2> QED
    BY <2>3, <2>4
<1>12. ASSUME NEW G, {f \in Package : f.kind \in {"Sync", "Map"}} \subseteq G, pkgs \in Seq(G)
       PROVE  a \in Seq(G) /\ b \in Seq(G)
  <2>1. \A i \in 1..n : pkgs[i] \in G
    BY <1>2, <1>12, InAll
  <2>2. /\ \A i \in 1..w : a[i] \in Package
        /\ \A j \in 1..(n - o) : b[j] \in Package
    BY <1>1, <1>4, InAll
  <2>3. /\ \A i \in DOMAIN a : a[i] \in G
        /\ \A j \in DOMAIN b : b[j] \in G
    BY <1>4, <1>5, <1>6, <1>12, <2>1, <2>2
  <2> QED
    BY <1>1, <2>3, AllIn
<1> QED
  BY <1>8, <1>9, <1>10, <1>11, <1>12 DEF a, b

-----------------------------------------------------------------------------
(***************************************************************************)
(* The targets that a session has or saved, by what the two sides are to   *)
(* agree on.                                                               *)
(***************************************************************************)
Kept(p)  == Range(targets[p]) \cup SavedTargets(p)
Look(t)  == [db |-> t.db, mode |-> t.mode, anchored |-> t.anchored]
Looks(p) == {Look(t) : t \in Kept(p)}

ct == Looks(Client)
st == Looks(Server)
ca == statuses[Client]
sa == statuses[Server]
sw == syncWithoutInit[Server]

Unready == {"NOT_PREPARED", "PREPARED"}

LEMMA LooksType ==
    ASSUME TypeOK, NEW p \in Party
    PROVE  \A x \in Looks(p) : x.db \in Db /\ x.mode \in AlertMode /\ x.anchored \in BOOLEAN
<1>1. \A t \in Range(targets[p]) : t \in Target
  BY ElementType DEF Range
<1>2. \A t \in SavedTargets(p) : t \in Target
  <2> SUFFICES ASSUME NEW t \in SavedTargets(p) PROVE t \in Target
    OBVIOUS
  <2>1. PICK i \in DOMAIN changeLog[p] : t \in Range(changeLog[p][i])
    BY DEF SavedTargets
  <2>2. changeLog[p] \in Seq(Seq(Target))
    BY DEF TypeOK
  <2>3. changeLog[p][i] \in Seq(Target)
    BY <2>1, <2>2, InAll
  <2> QED
    BY <2>1, <2>3, InAll DEF Range
<1> QED
  BY <1>1, <1>2 DEF Looks, Look, Kept, Target

\* Nothing happens to the targets of a session
LEMMA SameLooks ==
    ASSUME NEW p, targets'[p] = targets[p], changeLog'[p] = changeLog[p]
    PROVE  Looks(p)' = Looks(p)
  BY DEF Looks, Kept, SavedTargets

\* Each target gives way to one that looks the same
LEMMA LooksKept ==
    ASSUME NEW p, targets[p] \in Seq(Target), NEW f, targets'[p] = f,
           changeLog'[p] = changeLog[p], DOMAIN f = DOMAIN targets[p],
           \A i \in DOMAIN targets[p] : Look(f[i]) = Look(targets[p][i])
    PROVE  Looks(p)' = Looks(p)
<1>1. \A g : {Look(t) : t \in Range(g)} = {Look(g[i]) : i \in DOMAIN g}
  BY DEF Range
<1>2. {Look(f[i]) : i \in DOMAIN f} = {Look(targets[p][i]) : i \in DOMAIN targets[p]}
  OBVIOUS
<1>3. Looks(p) = {Look(t) : t \in Range(targets[p])} \cup {Look(t) : t \in SavedTargets(p)}
  BY DEF Looks, Kept
<1>4. Looks(p)' = {Look(t) : t \in Range(f)} \cup {Look(t) : t \in SavedTargets(p)}
  BY DEF Looks, Kept, SavedTargets, Look
<1> QED
  BY <1>1, <1>2, <1>3, <1>4

\* Nothing was saved yet, each target gives way to another
LEMMA LooksChange ==
    ASSUME NEW p, NEW f, targets'[p] = f, changeLog'[p] = <<>>,
           DOMAIN f = DOMAIN targets[p]
    PROVE  \A x \in Looks(p)' : \E i \in DOMAIN targets[p] :
              x = Look(f[i]) /\ Look(targets[p][i]) \in Looks(p)
<1>1. SavedTargets(p)' = {}
  BY EmptySeq, LenProperties DEF SavedTargets
<1>2. Looks(p)' = {Look(t) : t \in Range(f)}
  BY <1>1 DEF Looks, Kept, Look
<1>3. \A i \in DOMAIN targets[p] : Look(targets[p][i]) \in Looks(p)
  BY DEF Looks, Kept, Range
<1> QED
  BY <1>2, <1>3 DEF Range

\* One more target
LEMMA LooksGrow ==
    ASSUME NEW p, targets[p] \in Seq(Target), NEW t \in Target,
           targets'[p] = Append(targets[p], t), changeLog'[p] = changeLog[p]
    PROVE  Looks(p)' = Looks(p) \cup {Look(t)}
<1> DEFINE s == targets[p]
           u == Append(s, t)
<1>1. /\ u \in Seq(Target) /\ Len(u) = Len(s) + 1
      /\ \A i \in 1..Len(s) : u[i] = s[i]
      /\ u[Len(s) + 1] = t
  BY AppendProperties
<1>2. DOMAIN s = 1..Len(s) /\ Len(s) \in Nat /\ DOMAIN u = 1..(Len(s) + 1)
  BY <1>1, LenProperties
<1> HIDE DEF u
<1>3. Range(u) = Range(s) \cup {t}
  <2>1. \A i \in 1..(Len(s) + 1) : i \in 1..Len(s) \/ i = Len(s) + 1
    BY <1>2
  <2>2. \A i \in 1..Len(s) : i \in 1..(Len(s) + 1)
    BY <1>2
  <2>3. Len(s) + 1 \in 1..(Len(s) + 1)
    BY <1>2
  <2> QED
    BY <1>1, <1>2, <2>1, <2>2, <2>3 DEF Range
<1>4. Looks(p)' = {Look(x) : x \in Range(u) \cup SavedTargets(p)}
  BY DEF Looks, Kept, SavedTargets, Look, u
<1> QED
  BY <1>3, <1>4 DEF Looks, Kept

\* The first targets
LEMMA LooksSet ==
    ASSUME NEW p, NEW f, targets'[p] = f, changeLog'[p] = <<>>
    PROVE  \A x \in Looks(p)' : \E i \in DOMAIN f : x = Look(f[i])
<1>1. SavedTargets(p)' = {}
  BY EmptySeq, LenProperties DEF SavedTargets
<1> QED
  BY <1>1 DEF Looks, Kept, Look, Range

\* What is left is saved or forgotten
LEMMA LooksLeft ==
    ASSUME TypeOK, NEW p \in Party, ExitSync(p)
    PROVE  /\ Looks(p)' \subseteq Looks(p)
           /\ \A q \in Party \ {p} : Looks(q)' = Looks(q)
           /\ (~sessionClosed[p] /\ syncState'[p] = "SYNC_FINISHED") => Looks(p)' = Looks(p)
           /\ packages'[p] \in {packages[p], <<>>}
           /\ \A q \in Party \ {p} : packages'[q] = packages[q]
           /\ sessionClosed[p] => packages'[p] = packages[p]
<1>1. CASE sessionClosed[p]
  <2>1. UNCHANGED <<sessionClosed, changeLog, packages, targets>>
    BY <1>1 DEF ExitSync
  <2> QED
    BY <1>1, <2>1, SameLooks
<1>2. CASE ~sessionClosed[p]
  <2>1. /\ changeLog' = IF syncState'[p] = "SYNC_FINISHED"
                        THEN [changeLog EXCEPT ![p] = Append(@, targets[p])] ELSE changeLog
        /\ packages' = [packages EXCEPT ![p] = <<>>]
        /\ targets' = [targets EXCEPT ![p] = <<>>]
    BY <1>2 DEF ExitSync
  <2>2. \A q \in Party \ {p} : Looks(q)' = Looks(q) /\ packages'[q] = packages[q]
    BY <2>1, SameLooks DEF TypeOK
  <2>3. packages'[p] = <<>> /\ targets'[p] = <<>>
    BY <2>1 DEF TypeOK
  <2>4. Looks(p)' = {Look(t) : t \in SavedTargets(p)'}
    BY <2>3, RangeOf DEF Looks, Kept, Look
  <2>5. CASE syncState'[p] = "SYNC_FINISHED"
    <3>1. changeLog'[p] = Append(changeLog[p], targets[p])
      BY <2>1, <2>5 DEF TypeOK
    <3> DEFINE s == changeLog[p]
               u == Append(s, targets[p])
               n == Len(s) + 1
    <3>2. s \in Seq(Seq(Target)) /\ targets[p] \in Seq(Target)
      BY DEF TypeOK
    <3>3. /\ u \in Seq(Seq(Target)) /\ Len(u) = n
          /\ \A i \in 1..Len(s) : u[i] = s[i]
          /\ u[n] = targets[p]
      BY <3>2, AppendProperties
    <3>4. DOMAIN s = 1..Len(s) /\ Len(s) \in Nat /\ DOMAIN u = 1..n
      BY <3>2, <3>3, LenProperties
    <3>5. /\ \A i \in 1..n : i \in 1..Len(s) \/ i = n
          /\ \A i \in 1..Len(s) : i \in 1..n
          /\ n \in 1..n
      BY <3>4
    <3>6. SavedTargets(p)' = UNION {Range(u[i]) : i \in DOMAIN u}
      BY <3>1 DEF SavedTargets, Range
    <3>7. SavedTargets(p) = UNION {Range(s[i]) : i \in DOMAIN s}
      BY DEF SavedTargets
    <3> HIDE DEF u, s, n
    <3>8. SavedTargets(p)' = SavedTargets(p) \cup Range(targets[p])
      BY <3>3, <3>4, <3>5, <3>6, <3>7
    <3>9. Looks(p)' = Looks(p)
      BY <2>4, <3>8 DEF Looks, Kept
    <3> QED
      BY <2>2, <2>3, <3>9, <1>2
  <2>6. CASE syncState'[p] # "SYNC_FINISHED"
    <3>1. changeLog' = changeLog
      BY <2>1, <2>6
    <3>2. SavedTargets(p)' = SavedTargets(p)
      BY <3>1 DEF SavedTargets
    <3>3. Looks(p)' \subseteq Looks(p)
      BY <2>4, <3>2 DEF Looks, Kept
    <3> QED
      BY <2>2, <2>3, <2>6, <3>3, <1>2
  <2> QED
    BY <2>5, <2>6
<1> QED
  BY <1>1, <1>2

-----------------------------------------------------------------------------
(***************************************************************************)
(* The modes that are told.                                                *)
(***************************************************************************)
\* The mode of the targets of a client that is about to send its alerts: as it
\* is configured, or as the server told it to begin with
FirstMode ==
    IF cinit THEN (IF cfg.first THEN ToSlowSync(cfg.mode) ELSE cfg.mode)
    ELSE ToClientInitiated(ModeOf(ToSyncMLCode(cfg.mode)))

FirstCode == ToSyncMLCode(FirstMode)

\* What the server makes of the alert of a database
ModeAtServer(db) == TargetByClient(Alert(FirstCode, db)).mode

\* A status that has a client revert a target to slow sync
Refreshes(f) == f.kind = "Status" /\ f.cmd = "Alert" /\ f.code = "REFRESH_REQUIRED"

\* What a client tells the server, what a server tells the client, and what it
\* tells one that it begins with
ForServer ==
    {f \in Fragment : /\ f.kind # "Results" /\ ~Refreshes(f)
                      /\ Announces(f) => f.code = FirstCode}
ForClient ==
    {f \in Fragment : /\ Announces(f) => f.code = ToSyncMLCode(ModeAtServer(f.db))
                      /\ Refreshes(f) => RefreshRequired(Alert(FirstCode, f.db))}
ForNewClient ==
    {f \in Fragment : ~Refreshes(f) /\ (Announces(f) => f.code = ToSyncMLCode(cfg.mode))}

\* All that the mode of a target of the server depends on
SameTold == SameConfig /\ remoteInf'[Server] = remoteInf[Server]

LEMMA ToldKept ==
    ASSUME SameTold
    PROVE  /\ FirstMode' = FirstMode /\ FirstCode' = FirstCode
           /\ \A db : ModeAtServer(db)' = ModeAtServer(db)
           /\ \A db : RefreshRequired(Alert(FirstCode, db))' <=> RefreshRequired(Alert(FirstCode, db))
           /\ ForServer' = ForServer /\ ForClient' = ForClient /\ ForNewClient' = ForNewClient
           /\ cfg' = cfg /\ (cinit' <=> cinit)
<1>1. cfg' = cfg /\ remoteInf'[Server] = remoteInf[Server]
  BY DEF SameTold, SameConfig
<1>2. FirstMode' = FirstMode /\ FirstCode' = FirstCode /\ (cinit' <=> cinit)
  BY <1>1 DEF FirstMode, FirstCode, cinit
<1>3. \A a : RefreshRequired(a)' <=> RefreshRequired(a)
  BY <1>1 DEF RefreshRequired, AnchorMismatch
<1>4. \A a : TargetByClient(a)' = TargetByClient(a)
  BY <1>1, <1>3 DEF TargetByClient
<1>5. /\ \A db : ModeAtServer(db)' = ModeAtServer(db)
      /\ \A db : RefreshRequired(Alert(FirstCode, db))' <=> RefreshRequired(Alert(FirstCode, db))
  BY <1>2, <1>3, <1>4 DEF ModeAtServer
<1>6. ForServer' = ForServer
  BY <1>2 DEF ForServer
<1>7. ForClient' = ForClient
  BY <1>5 DEF ForClient
<1>8. ForNewClient' = ForNewClient
  BY <1>1 DEF ForNewClient
<1> QED
  BY <1>1, <1>2, <1>5, <1>6, <1>7, <1>8

\* The code of the alerts of a client does not depend on what the server knows
LEMMA CodeKept ==
    ASSUME SameConfig
    PROVE  /\ FirstMode' = FirstMode /\ FirstCode' = FirstCode
           /\ \A db : RefreshRequired(Alert(FirstCode, db))' <=> RefreshRequired(Alert(FirstCode, db))
           /\ ForServer' = ForServer /\ ForNewClient' = ForNewClient
           /\ cfg' = cfg /\ (cinit' <=> cinit)
<1>1. cfg' = cfg
  BY DEF SameConfig
<1>2. FirstMode' = FirstMode /\ FirstCode' = FirstCode /\ (cinit' <=> cinit)
  BY <1>1 DEF FirstMode, FirstCode, cinit
<1>3. \A a : RefreshRequired(a)' <=> RefreshRequired(a)
  BY <1>1 DEF RefreshRequired, AnchorMismatch
<1>4. \A db : RefreshRequired(Alert(FirstCode, db))' <=> RefreshRequired(Alert(FirstCode, db))
  BY <1>2, <1>3
<1>5. ForServer' = ForServer /\ ForNewClient' = ForNewClient
  BY <1>1, <1>2 DEF ForServer, ForNewClient
<1> QED
  BY <1>1, <1>2, <1>4, <1>5

LEMMA FirstModeType ==
    ASSUME TypeOK
    PROVE  FirstMode \in AlertMode /\ FirstCode \in SyncCodes
<1>1. /\ cfg.mode \in AlertMode /\ ToSlowSync(cfg.mode) \in AlertMode
  BY ConfigType
<1>2. ModeOf(ToSyncMLCode(cfg.mode)) \in AlertMode
  BY <1>1, ToSyncMLCodeType, ModeOfType
<1>3. \A mode \in AlertMode : ToClientInitiated(mode) \in AlertMode
  BY DEF ToClientInitiated, AlertMode, SyncMode, Initiators
<1>4. FirstMode \in AlertMode
  BY <1>1, <1>2, <1>3 DEF FirstMode
<1> QED
  BY <1>4, ToSyncMLCodeType DEF FirstCode

\* A target of the server, by the alert it is made of
LEMMA TargetShows ==
    ASSUME NEW db \in Db, NEW code \in SyncCodes,
           NEW a, a = Alert(code, db), NEW t, t = TargetByClient(a)
    PROVE  /\ t \in Target /\ t.db = db /\ t.anchored
           /\ RefreshRequired(a) => t.mode.type # "FAST"
           /\ t.mode.dir = ModeOf(code).dir
<1> DEFINE n == [NewTarget(db, ModeOf(code)) EXCEPT !.anchored = TRUE]
<1>1. ModeOf(code) \in AlertMode
  BY ModeOfType
<1>2. n \in Target /\ n.db = db /\ n.anchored /\ n.mode = ModeOf(code)
  BY <1>1, NewTargetType DEF NewTarget, Target
<1>3. t = IF ~RefreshRequired(a) THEN n
          ELSE IF remoteInf[Server] THEN RefreshOrRevert(n) ELSE RevertSyncMode(n)
  BY DEF TargetByClient, Alert
<1> HIDE DEF n
<1>4. /\ RevertSyncMode(n) \in Target /\ RevertSyncMode(n).db = db /\ RevertSyncMode(n).anchored
      /\ RevertSyncMode(n).mode.type # "FAST" /\ RevertSyncMode(n).mode.dir = n.mode.dir
  BY <1>2, RevertType DEF RevertSyncMode, ToSlowSync, Target, AlertMode, SyncMode
<1>5. /\ RefreshOrRevert(n) \in Target /\ RefreshOrRevert(n).db = db /\ RefreshOrRevert(n).anchored
      /\ RefreshOrRevert(n).mode.type # "FAST" /\ RefreshOrRevert(n).mode.dir = n.mode.dir
  BY <1>2, <1>4, RefreshType DEF RefreshOrRevert, SetRefresh, Target, AlertMode, SyncMode
<1> QED
  BY <1>2, <1>3, <1>4, <1>5

LEMMA ServerModeShows ==
    ASSUME TypeOK, NEW db \in Db
    PROVE  /\ ModeAtServer(db) \in AlertMode
           /\ ToSyncMLCode(ModeAtServer(db)) \in SyncCodes
           /\ RefreshRequired(Alert(FirstCode, db)) => ModeAtServer(db).type # "FAST"
           /\ cinit => ModeAtServer(db).dir = cfg.mode.dir
           /\ Look(TargetByClient(Alert(FirstCode, db)))
                 = [db |-> db, mode |-> ModeAtServer(db), anchored |-> TRUE]
<1> DEFINE a == Alert(FirstCode, db)
           t == TargetByClient(a)
<1>1. FirstCode \in SyncCodes /\ FirstMode \in AlertMode
  BY FirstModeType
<1>2. /\ t \in Target /\ t.db = db /\ t.anchored
      /\ RefreshRequired(a) => t.mode.type # "FAST"
      /\ t.mode.dir = ModeOf(FirstCode).dir
  BY <1>1, TargetShows
<1>3. t.mode \in AlertMode /\ t.anchored = TRUE
  BY <1>2 DEF Target
<1>4. ModeAtServer(db) = t.mode
  BY DEF ModeAtServer
<1> HIDE DEF t, a
<1>5. ModeOf(FirstCode).dir = FirstMode.dir
  <2>1. \A mode \in AlertMode : ModeOf(ToSyncMLCode(mode)).dir = mode.dir
    BY DEF ModeOf, ToSyncMLCode, OneWayCode, AlertMode, SyncMode, Directions, Initiators, Types
  <2> QED
    BY <1>1, <2>1 DEF FirstCode
<1>6. cinit => FirstMode.dir = cfg.mode.dir
  <2>1. cfg.mode \in AlertMode
    BY ConfigType
  <2> QED
    BY <2>1 DEF FirstMode, ToSlowSync, AlertMode, SyncMode
<1>7. Look(t) = [db |-> db, mode |-> ModeAtServer(db), anchored |-> TRUE]
  BY <1>2, <1>3, <1>4 DEF Look
<1> QED
  BY <1>2, <1>3, <1>4, <1>5, <1>6, <1>7, ToSyncMLCodeType DEF t, a

-----------------------------------------------------------------------------
(***************************************************************************)
(* What the sessions keep to, while none of them was given up.             *)
(***************************************************************************)
ToldToServer ==
    /\ cq \in Seq(ForServer) /\ ca \in Seq(ForServer)
    /\ \A m \in toS : m \in Seq(ForServer)

ToldToClient ==
    /\ sq \in Seq(ForClient) /\ sa \in Seq(ForClient)
    /\ cs \notin Unready => \A m \in toC : m \in Seq(ForClient)
    /\ cs \in Unready    => \A m \in toC : m \in Seq(ForNewClient)

ClientOrder ==
    /\ AlertsAhead(cq) /\ \A m \in toS : AlertsAhead(m)
    /\ ~NoAlerts(cq) => ~cinit /\ ~lastS /\ \A m \in toS : ~Speaking(m)

ServerOrder ==
    /\ AlertsAhead(sq) /\ \A m \in toC : AlertsAhead(m)
    /\ ~NoAlerts(sq) => ~lastC /\ \A m \in toC : ~Speaking(m)

AlertsEarly ==
    /\ (~NoAlerts(cq) \/ \E m \in toS : ~NoAlerts(m)) => ss \in EarlyStates
    /\ (ss \in EarlyStates /\ (Has(cq, "Sync") \/ \E m \in toS : Has(m, "Sync"))) =>
          cs = "SENDING_ITEMS" /\ cw

ServerTargets ==
    /\ ss \in Unready => st = {}
    /\ \A u \in st : u.mode = ModeAtServer(u.db) /\ u.db \in cfg.served

ClientTargets ==
    /\ cs = "NOT_PREPARED" => ct = {}
    /\ cs = "PREPARED" => ~cinit /\ \A t \in ct : t.mode = FirstMode
    /\ \A t \in ct : (t.anchored /\ Representable(ModeAtServer(t.db))) => t.mode = ModeAtServer(t.db)
    /\ ss \in EarlyStates => \A t \in ct : ~t.anchored
    /\ cw => cinit /\ cfg.noInit

\* The client waits for the alerts of the server
Listening == cs \in {"LOCAL_INIT", "REMOTE_INIT"} \/ (cs = "SENDING_ITEMS" /\ cw)

\* The server is going to hear of a database, knows it and is going to tell the
\* client, or told it
Announced(db) == ss \in EarlyStates /\ (AlertFor(cq, db) \/ \E m \in toS : AlertFor(m, db))
Known(db)     == /\ \E u \in st : u.db = db
                 /\ ss = "REMOTE_INIT" \/ (ss = "RECEIVING_ITEMS" /\ sw /\ cw)
Answered(db)  == Listening /\ (AlertFor(sq, db) \/ \E m \in toC : AlertFor(m, db))

\* No database is lost on the way from the client to the server and back
Heard ==
    (cs = "SYNC_FINISHED" \/ toC # {} \/ toS # {}) =>
        \A t \in ct : (t.db \in cfg.served /\ cs # "PREPARED") =>
            t.anchored \/ Announced(t.db) \/ Known(t.db) \/ Answered(t.db)

Together ==
    /\ ToldToServer /\ ToldToClient /\ ClientOrder /\ ServerOrder /\ AlertsEarly
    /\ ServerTargets /\ ClientTargets /\ Heard

\* No session was given up
Sound == cs \notin ErrorStates /\ ss \notin ErrorStates

\* A server that is sent changes only sends its alerts too: it does not, if the
\* client sends them without an initialization phase
ModesTold == ~(cfg.noInit /\ cinit /\ cfg.mode.dir = "FROM_CLIENT")

ClientKeeps == ct' = ct /\ ca' = ca
ServerKeeps == st' = st /\ sa' = sa /\ sw' = sw


-----------------------------------------------------------------------------
(***************************************************************************)
(* Steps in which messages at most move on, or are lost.                   *)
(***************************************************************************)
\* There is one message on its way at most: it is still there, or none is
NoneLeft  == toC' = {} /\ toS' = {}
AllLeft   == toC' = toC /\ toS' = toS

LEMMA OneComing ==
    ASSUME TypeOK, Turns
    PROVE  /\ \A m1, m2 \in toC : m1 = m2
           /\ \A m1, m2 \in toS : m1 = m2
           /\ toC = {} \/ toS = {}
<1>1. /\ Client \in Party /\ Server \in Party /\ Other(Client) = Server /\ Other(Server) = Client
  BY TwoParties
<1>2. \A p \in Party : /\ net[p] \in Seq(Message) /\ incoming[p] \in Seq(Message)
                       /\ parsed[p] \in Seq(Message)
                       /\ Len(net[p]) \in Nat /\ Len(incoming[p]) \in Nat
                       /\ Len(parsed[p]) \in Nat /\ InHand(p) \in {0, 1}
  BY LenProperties DEF TypeOK, InHand
<1>3. \A p \in Party : Load(p) \in Nat
                       /\ Load(p) = Len(net[p]) + Len(incoming[p]) + Len(parsed[p]) + InHand(p)
  BY LoadType DEF Load
<1>4. Load(Client) + Load(Server) <= 1
  BY DEF Turns, Traffic
<1> DEFINE Few(s) == \A m1, m2 \in Range(s) : m1 = m2
<1>5. \A s \in Seq(Message) : /\ Len(s) = 0 => Range(s) = {}
                              /\ Len(s) <= 1 => Few(s)
  <2> SUFFICES ASSUME NEW s \in Seq(Message)
               PROVE  (Len(s) = 0 => Range(s) = {}) /\ (Len(s) <= 1 => Few(s))
    OBVIOUS
  <2>1. Len(s) \in Nat /\ DOMAIN s = 1..Len(s)
    BY LenProperties
  <2>2. Len(s) = 0 => DOMAIN s = {}
    BY <2>1
  <2>3. Len(s) <= 1 => \A i, j \in DOMAIN s : i = j
    BY <2>1
  <2> QED
    BY <2>2, <2>3 DEF Range
<1> HIDE DEF Few
<1>b. \A x, y \in Nat : x + y <= 1 => x <= 1 /\ y <= 1 /\ (x = 0 \/ y = 0)
  OBVIOUS
<1>6. ASSUME NEW p \in Party
      PROVE  /\ Load(p) = 0 => Coming(p) = {}
             /\ Load(p) <= 1 => \A m1, m2 \in Coming(p) : m1 = m2
  <2>1. /\ Len(net[p]) = 0 => Range(net[p]) = {}
        /\ Len(incoming[p]) = 0 => Range(incoming[p]) = {}
        /\ Len(parsed[p]) = 0 => Range(parsed[p]) = {}
        /\ InHand(p) = 0 => ~processing[p]
    BY <1>2, <1>5 DEF InHand
  <2>2. /\ Len(net[p]) <= 1 => \A m1, m2 \in Range(net[p]) : m1 = m2
        /\ Len(incoming[p]) <= 1 => \A m1, m2 \in Range(incoming[p]) : m1 = m2
        /\ Len(parsed[p]) <= 1 => \A m1, m2 \in Range(parsed[p]) : m1 = m2
    BY <1>2, <1>5 DEF Few
  <2>a. PICK a \in Nat, b \in Nat, c \in Nat, d \in {0, 1} :
            /\ a = Len(net[p]) /\ b = Len(incoming[p]) /\ c = Len(parsed[p]) /\ d = InHand(p)
            /\ Load(p) = a + b + c + d
    BY <1>2, <1>3
  <2>3. Load(p) = 0 => Coming(p) = {}
    <3>1. a + b + c + d = 0 => a = 0 /\ b = 0 /\ c = 0 /\ d = 0
      OBVIOUS
    <3> QED
      BY <2>1, <2>a, <3>1 DEF Coming
  <2>4. Load(p) <= 1 => \A m1, m2 \in Coming(p) : m1 = m2
    <3>1. a + b + c + d <= 1 =>
             \/ a <= 1 /\ b = 0 /\ c = 0 /\ d = 0
             \/ a = 0 /\ b <= 1 /\ c = 0 /\ d = 0
             \/ a = 0 /\ b = 0 /\ c <= 1 /\ d = 0
             \/ a = 0 /\ b = 0 /\ c = 0
      OBVIOUS
    <3> QED
      BY <2>1, <2>2, <2>a, <3>1 DEF Coming
  <2> QED
    BY <2>3, <2>4
<1>7. Load(Client) <= 1 /\ Load(Server) <= 1 /\ (Load(Client) = 0 \/ Load(Server) = 0)
  BY <1>1, <1>3, <1>4, <1>b
<1> QED
  BY <1>1, <1>6, <1>7 DEF toC, toS

LEMMA AllOrNone ==
    ASSUME TypeOK, Turns, LessComing
    PROVE  AllLeft \/ NoneLeft
  BY OneComing DEF LessComing, AllLeft, NoneLeft

\* A message moves on, or is lost
LEMMA QuietTogether ==
    ASSUME Together, Ordered, SameTold, SameClient, SameServer, ClientKeeps, ServerKeeps,
           AllLeft \/ NoneLeft, lastC' => lastC, lastS' => lastS
    PROVE  Together'
<1>1. ToldToServer' /\ ToldToClient'
  BY ToldKept DEF Together, ToldToServer, ToldToClient, SameClient, SameServer, ClientKeeps,
                  ServerKeeps, AllLeft, NoneLeft
<1>2. ClientOrder' /\ ServerOrder'
  BY ToldKept DEF Together, ClientOrder, ServerOrder, SameClient, SameServer, AllLeft, NoneLeft
<1>3. AlertsEarly'
  BY DEF Together, AlertsEarly, SameClient, SameServer, AllLeft, NoneLeft
<1>4. ServerTargets' /\ ClientTargets'
  BY ToldKept DEF Together, ServerTargets, ClientTargets, SameClient, SameServer, ClientKeeps,
                  ServerKeeps
<1>5. Heard'
  <2>1. CASE NoneLeft
    <3> SUFFICES ASSUME cs = "SYNC_FINISHED", NEW t \in ct, t.db \in cfg.served
                 PROVE  t.anchored
      BY <2>1, ToldKept DEF Heard, SameClient, ClientKeeps, NoneLeft
    <3>1. ss = "SYNC_FINISHED"
      BY DEF Ordered, SavedFirst
    <3>2. t.anchored \/ Announced(t.db) \/ Known(t.db) \/ Answered(t.db)
      BY DEF Together, Heard
    <3> QED
      BY <3>1, <3>2 DEF Announced, Known, Answered, Listening, EarlyStates
  <2>2. CASE AllLeft
    <3>1. \A db : /\ Announced(db)' <=> Announced(db)
                  /\ Known(db)' <=> Known(db)
                  /\ Answered(db)' <=> Answered(db)
      BY <2>2 DEF Announced, Known, Answered, Listening, SameClient, SameServer, ServerKeeps, AllLeft
    <3> QED
      BY <2>2, <3>1, ToldKept DEF Together, Heard, SameClient, ClientKeeps, AllLeft
  <2> QED
    BY <2>1, <2>2
<1> QED
  BY <1>1, <1>2, <1>3, <1>4, <1>5 DEF Together

\* A client takes the message that the server began with
LEMMA ClientServesTogether ==
    ASSUME Together, Ordered, Sound, SameTold, SameServer, ClientKeeps, ServerKeeps,
           AllLeft \/ NoneLeft, toC # {},
           cs = "NOT_PREPARED", cs' = "PREPARED", cq' = cq, cw' = cw, lastS' => lastS
    PROVE  Together'
<1>1. ~cinit /\ cq = <<>> /\ toS = {} /\ NoAlerts(sq) /\ ct = {} /\ ss \in EarlyStates
  <2>1. cq = <<>> /\ toS = {} /\ (cinit => ss = "NOT_PREPARED") /\ ss # "NOT_PREPARED"
    BY DEF Ordered, Unprepared
  <2>2. ss \in {"NOT_PREPARED", "PREPARED"}
    BY DEF Ordered, Preparing, Sound
  <2>3. NoAlerts(sq)
    BY <2>2 DEF Ordered, Alerted, EarlyStates
  <2> QED
    BY <2>1, <2>2, <2>3 DEF Together, ClientTargets, EarlyStates
<1>2. ToldToServer' /\ ToldToClient'
  BY ToldKept DEF Together, ToldToServer, ToldToClient, SameServer, ClientKeeps,
                  ServerKeeps, AllLeft, NoneLeft, Unready
<1>3. ClientOrder' /\ ServerOrder'
  BY <1>1, ToldKept DEF Together, ClientOrder, ServerOrder, SameServer, AllLeft, NoneLeft
<1>4. AlertsEarly'
  BY <1>1 DEF Together, AlertsEarly, SameServer, AllLeft, NoneLeft
<1>5. ServerTargets' /\ ClientTargets'
  BY <1>1, ToldKept DEF Together, ServerTargets, ClientTargets, SameServer, ClientKeeps, ServerKeeps
<1>6. Heard'
  BY <1>1 DEF Heard, ClientKeeps
<1> QED
  BY <1>2, <1>3, <1>4, <1>5, <1>6 DEF Together

\* A server takes the message that the client began with
LEMMA ServerServesTogether ==
    ASSUME Together, Ordered, SameTold, SameClient, ClientKeeps, ServerKeeps,
           AllLeft \/ NoneLeft, toS # {},
           ss = "NOT_PREPARED", ss' = "PREPARED", sq' = sq, lastC' => lastC
    PROVE  Together'
<1>1. /\ cinit /\ toC = {} /\ NoAlerts(sq) /\ st = {} /\ ss \in EarlyStates /\ ss' \in EarlyStates
      /\ sq = <<>>
  <2>1. toC = {} /\ sq = <<>> /\ (~cinit => cs = "NOT_PREPARED") /\ cs # "NOT_PREPARED"
    BY DEF Ordered, Unprepared
  <2> QED
    BY <2>1, EmptyAlerts DEF Together, ServerTargets, EarlyStates, Unready
<1>2. ToldToServer' /\ ToldToClient'
  BY ToldKept DEF Together, ToldToServer, ToldToClient, SameClient, ClientKeeps,
                  ServerKeeps, AllLeft, NoneLeft
<1>3. ClientOrder' /\ ServerOrder'
  BY <1>1, ToldKept DEF Together, ClientOrder, ServerOrder, SameClient, AllLeft, NoneLeft
<1>4. AlertsEarly'
  BY <1>1 DEF Together, AlertsEarly, SameClient, AllLeft, NoneLeft
<1>5. ServerTargets' /\ ClientTargets'
  BY <1>1, ToldKept DEF Together, ServerTargets, ClientTargets, SameClient, ClientKeeps, ServerKeeps
<1>6. Heard'
  <2>1. CASE NoneLeft
    <3> SUFFICES ASSUME cs = "SYNC_FINISHED" PROVE FALSE
      BY <2>1 DEF Heard, SameClient, NoneLeft
    <3> QED
      BY DEF Ordered, SavedFirst
  <2>2. CASE AllLeft
    <3>1. \A db : /\ Announced(db)' <=> Announced(db)
                  /\ ~Known(db) /\ (Answered(db)' <=> Answered(db))
      BY <1>1, <2>2 DEF Announced, Known, Answered, Listening, SameClient, AllLeft
    <3> QED
      BY <2>2, <3>1, ToldKept DEF Together, Heard, SameClient, ClientKeeps, AllLeft
  <2> QED
    BY <2>1, <2>2
<1> QED
  BY <1>2, <1>3, <1>4, <1>5, <1>6 DEF Together

-----------------------------------------------------------------------------
(***************************************************************************)
(* The client reads a fragment.                                            *)
(***************************************************************************)
\* What is left of a message that is read
LEMMA LeftOver ==
    ASSUME NEW m \in Seq(Fragment), m # <<>>
    PROVE  /\ AlertsAhead(m) => AlertsAhead(Tail(m)) /\ (Speaks(Head(m)) => NoAlerts(m))
           /\ Speaking(m) <=> Speaks(Head(m)) \/ Speaking(Tail(m))
           /\ \A db : AlertFor(m, db) =>
                 (Announces(Head(m)) /\ Head(m).db = db) \/ AlertFor(Tail(m), db)
           /\ NoAlerts(m) => ~Announces(Head(m)) /\ NoAlerts(Tail(m))
           /\ \A G : m \in Seq(G) => Tail(m) \in Seq(G) /\ Head(m) \in G
           /\ Has(Tail(m), "Sync") => Has(m, "Sync")
           /\ Head(m).kind = "Sync" => Has(m, "Sync") /\ Speaks(Head(m))
<1>1. \A G : m \in Seq(G) => Tail(m) \in Seq(G) /\ Head(m) \in G
  BY HeadTailProperties
<1>2. Has(Tail(m), "Sync") => Has(m, "Sync")
  BY TailShows
<1>3. Head(m).kind = "Sync" => Has(m, "Sync") /\ Speaks(Head(m))
  BY TailPlaces DEF Has, Speaks
<1> QED
  BY <1>1, <1>2, <1>3, TailAlerts

\* It stays in its state.  A status may have it revert a target the server made
\* no fast one of
LEMMA ClientHearsOn ==
    ASSUME Together, SameTold, NEW m \in Seq(Fragment), m # <<>>, ClientReads(m), ServerKeeps,
           cs' = cs, cq' = cq, ca' \in Seq(ForServer), lastC' => lastC \/ Speaks(Head(m)),
           Announces(Head(m)) => ~Listening,
           \A x \in ct' : \/ x \in ct
                          \/ \E y \in ct : /\ cs \notin Unready /\ x.db = y.db
                                           /\ x.anchored = y.anchored
                                           /\ y.mode # ModeAtServer(y.db)
                          \/ cs = "PREPARED" /\ x.mode = FirstMode /\ ~x.anchored
    PROVE  Together'
<1>1. /\ toC = {m} /\ toC' = {Tail(m)} /\ toS = {} /\ toS' = {} /\ ~lastS /\ ~lastS'
      /\ cw' = cw /\ ss' = ss /\ sq' = sq /\ st' = st /\ sa' = sa /\ sw' = sw
  BY DEF ClientReads, SameServer, ServerKeeps
<1>2. ToldToServer' /\ ToldToClient'
  BY <1>1, LeftOver, ToldKept DEF Together, ToldToServer, ToldToClient
<1>3. ClientOrder' /\ ServerOrder'
  BY <1>1, LeftOver, ToldKept DEF Together, ClientOrder, ServerOrder
<1>4. AlertsEarly'
  BY <1>1 DEF Together, AlertsEarly
<1>5. ServerTargets' /\ ClientTargets'
  <2>1. ServerTargets'
    BY <1>1, ToldKept DEF Together, ServerTargets
  <2>2. ~cinit \/ cs # "PREPARED"
    BY DEF Together, ClientTargets
  <2>3. ClientTargets'
    BY <1>1, <2>2, ToldKept DEF Together, ClientTargets, Unready
  <2> QED
    BY <2>1, <2>3
<1>6. Heard'
  <2> SUFFICES ASSUME NEW x \in ct', x.db \in cfg.served, cs # "PREPARED", ~x.anchored
               PROVE  Announced(x.db)' \/ Known(x.db)' \/ Answered(x.db)'
    BY ToldKept DEF Heard
  <2>1. PICK y \in ct : x.db = y.db /\ ~y.anchored
    OBVIOUS
  <2>2. Announced(y.db) \/ Known(y.db) \/ Answered(y.db)
    BY <1>1, <2>1 DEF Together, Heard
  <2>3. Announced(y.db) => Announced(y.db)'
    BY <1>1 DEF Announced
  <2>4. Known(y.db) => Known(y.db)'
    BY <1>1 DEF Known
  <2>5. Answered(y.db) => Answered(y.db)'
    BY <1>1, LeftOver DEF Answered, Listening
  <2> QED
    BY <2>1, <2>2, <2>3, <2>4, <2>5
<1> QED
  BY <1>2, <1>3, <1>4, <1>5, <1>6 DEF Together

\* The server acknowledges a database, and sets the mode of its target
LEMMA ClientHearsAlert ==
    ASSUME Together, Ordered, SameTold, NEW m \in Seq(Fragment), m # <<>>, ClientReads(m),
           ServerKeeps, Listening, cs' = "REMOTE_INIT", cq' = cq, ca' \in Seq(ForServer),
           lastC' => lastC, Announces(Head(m)),
           \A x \in ct' : \E y \in ct :
               /\ x.db = y.db
               /\ \/ y.db # Head(m).db /\ x = y
                  \/ y.db = Head(m).db /\ x.anchored /\ x.mode = ModeOf(Head(m).code)
    PROVE  Together'
<1>1. /\ toC = {m} /\ toC' = {Tail(m)} /\ toS = {} /\ toS' = {} /\ ~lastS /\ ~lastS'
      /\ cw' = cw /\ ss' = ss /\ sq' = sq /\ st' = st /\ sa' = sa /\ sw' = sw
  BY DEF ClientReads, SameServer, ServerKeeps
<1>2. ss \notin EarlyStates
  <2>1. ~NoAlerts(m)
    BY LeftOver
  <2> QED
    BY <1>1, <2>1 DEF Ordered, Alerted, Listening
<1>3. cs \notin Unready /\ cs' \notin Unready /\ cs' \notin {"NOT_PREPARED", "PREPARED", "SYNC_FINISHED"}
  BY DEF Listening, Unready
<1>4. Head(m).code = ToSyncMLCode(ModeAtServer(Head(m).db))
  BY <1>1, <1>3, LeftOver DEF Together, ToldToClient, ForClient
<1>5. ToldToServer' /\ ToldToClient'
  BY <1>1, <1>3, LeftOver, ToldKept DEF Together, ToldToServer, ToldToClient
<1>6. ClientOrder' /\ ServerOrder'
  BY <1>1, LeftOver, ToldKept DEF Together, ClientOrder, ServerOrder
<1>7. AlertsEarly'
  BY <1>1, <1>2 DEF Together, AlertsEarly
<1>8. ServerTargets' /\ ClientTargets'
  <2>1. ServerTargets'
    BY <1>1, ToldKept DEF Together, ServerTargets
  <2>2. \A x \in ct' : (x.anchored /\ Representable(ModeAtServer(x.db))) => x.mode = ModeAtServer(x.db)
    BY <1>4 DEF Together, ClientTargets, Representable
  <2>3. ClientTargets'
    BY <1>1, <1>2, <1>3, <2>2, ToldKept DEF Together, ClientTargets
  <2> QED
    BY <2>1, <2>3
<1>9. Heard'
  <2> SUFFICES ASSUME NEW x \in ct', x.db \in cfg.served, ~x.anchored
               PROVE  Announced(x.db)' \/ Known(x.db)' \/ Answered(x.db)'
    BY ToldKept DEF Heard
  <2>1. PICK y \in ct : x = y /\ y.db # Head(m).db
    OBVIOUS
  <2>2. Announced(y.db) \/ Known(y.db) \/ Answered(y.db)
    BY <1>1, <1>3, <2>1 DEF Together, Heard, Unready
  <2>3. ~Announced(y.db)
    BY <1>2 DEF Announced
  <2>4. Known(y.db) => Known(y.db)'
    BY <1>1 DEF Known
  <2>5. Answered(y.db) => Answered(y.db)'
    BY <1>1, <2>1, LeftOver DEF Answered, Listening
  <2> QED
    BY <2>1, <2>2, <2>3, <2>4, <2>5
<1> QED
  BY <1>5, <1>6, <1>7, <1>8, <1>9 DEF Together

\* Changes of the server: it has told all the client was to hear before
LEMMA ClientHearsSync ==
    ASSUME Together, Ordered, SameTold, NEW m \in Seq(Fragment), m # <<>>, ClientReads(m),
           ServerKeeps, cs \notin Unready, cs' = "RECEIVING_ITEMS", ct' = ct,
           ca' \in Seq(ForServer), cq' \in Seq(ForServer), lastC' => lastC,
           Head(m).kind = "Sync",
           AlertsAhead(cq) => AlertsAhead(cq'), NoAlerts(cq) => NoAlerts(cq')
    PROVE  Together'
<1>1. /\ toC = {m} /\ toC' = {Tail(m)} /\ toS = {} /\ toS' = {} /\ ~lastS /\ ~lastS'
      /\ cw' = cw /\ ss' = ss /\ sq' = sq /\ st' = st /\ sa' = sa /\ sw' = sw
  BY DEF ClientReads, SameServer, ServerKeeps
<1>2. ss \notin EarlyStates /\ ss # "RECEIVING_ITEMS" /\ ss # "REMOTE_INIT"
  BY <1>1, LeftOver DEF Ordered, NoSyncYet, EarlyStates
<1>3. cs' \notin Unready /\ cs' \notin {"NOT_PREPARED", "PREPARED", "SYNC_FINISHED"}
  BY DEF Unready
<1>4. NoAlerts(m) /\ NoAlerts(sq)
  BY <1>1, LeftOver DEF Together, ServerOrder
<1>5. ToldToServer' /\ ToldToClient'
  BY <1>1, <1>3, LeftOver, ToldKept DEF Together, ToldToServer, ToldToClient
<1>6. ClientOrder' /\ ServerOrder'
  BY <1>1, LeftOver, ToldKept DEF Together, ClientOrder, ServerOrder
<1>7. AlertsEarly'
  BY <1>1, <1>2 DEF Together, AlertsEarly
<1>8. ServerTargets' /\ ClientTargets'
  BY <1>1, <1>2, <1>3, ToldKept DEF Together, ServerTargets, ClientTargets
<1>9. Heard'
  <2>1. \A db : ~Announced(db) /\ ~Known(db) /\ ~Answered(db)
    BY <1>1, <1>2, <1>4, NoneFor DEF Announced, Known, Answered
  <2>2. \A t \in ct : t.db \in cfg.served => t.anchored
    BY <1>1, <2>1 DEF Together, Heard, Unready
  <2> QED
    BY <2>2, ToldKept DEF Heard
<1> QED
  BY <1>5, <1>6, <1>7, <1>8, <1>9 DEF Together

-----------------------------------------------------------------------------
(***************************************************************************)
(* The server reads a fragment.                                            *)
(***************************************************************************)
\* It stays in its state
LEMMA ServerHearsOn ==
    ASSUME Together, SameTold, NEW m \in Seq(Fragment), m # <<>>, ServerReads(m), ClientKeeps,
           ss' = ss, sq' = sq, st' = st, sw' = sw, sa' \in Seq(ForClient),
           lastS' => lastS \/ Speaks(Head(m)), ~Announces(Head(m))
    PROVE  Together'
<1>1. /\ toS = {m} /\ toS' = {Tail(m)} /\ toC = {} /\ toC' = {} /\ ~lastC /\ ~lastC'
      /\ cw' = cw /\ cs' = cs /\ cq' = cq /\ ct' = ct /\ ca' = ca
  BY DEF ServerReads, SameClient, ClientKeeps
<1>2. ToldToServer' /\ ToldToClient'
  BY <1>1, LeftOver, ToldKept DEF Together, ToldToServer, ToldToClient
<1>3. ClientOrder' /\ ServerOrder'
  BY <1>1, LeftOver, ToldKept DEF Together, ClientOrder, ServerOrder
<1>4. AlertsEarly'
  BY <1>1, LeftOver DEF Together, AlertsEarly
<1>5. ServerTargets' /\ ClientTargets'
  BY <1>1, ToldKept DEF Together, ServerTargets, ClientTargets
<1>6. Heard'
  <2>1. \A db : /\ Announced(db) => Announced(db)'
                /\ Known(db) => Known(db)'
                /\ Answered(db) => Answered(db)'
    BY <1>1, LeftOver DEF Announced, Known, Answered, Listening
  <2> QED
    BY <1>1, <2>1, ToldKept DEF Together, Heard
<1> QED
  BY <1>2, <1>3, <1>4, <1>5, <1>6 DEF Together

\* The device information of the client: the server makes something else of the
\* alerts that come after it
LEMMA ServerHearsDevInf ==
    ASSUME TypeOK, Together, Ordered, Sound, SameConfig,
           NEW m \in Seq(Fragment), m # <<>>, ServerReads(m), ClientKeeps,
           ss' = ss, sq' = sq \o <<DevInfResults>>, st' = st, sw' = sw, lastS' => lastS,
           sa' \in Seq({f \in ForClient : ~Announces(f)}), Head(m).kind = "PutGet"
    PROVE  Together'
<1>1. /\ toS = {m} /\ toS' = {Tail(m)} /\ toC = {} /\ toC' = {} /\ ~lastC /\ ~lastC'
      /\ cw' = cw /\ cs' = cs /\ cq' = cq /\ ct' = ct /\ ca' = ca
  BY DEF ServerReads, SameClient, ClientKeeps
<1>2. ss = "PREPARED" /\ ss \in EarlyStates /\ st = {} /\ NoAlerts(sq)
  <2>1. Has(m, "PutGet") /\ ss # "NOT_PREPARED"
    BY TailPlaces DEF Has, ServerReads
  <2>2. ss = "PREPARED"
    BY <1>1, <2>1 DEF Ordered, DevInfFirst, Sound
  <2> QED
    BY <2>2 DEF Ordered, Alerted, EarlyStates, Together, ServerTargets, Unready
<1>3. ~Announces(Head(m)) /\ ~Speaks(Head(m))
  BY DEF Announces, Speaks
<1>4. {f \in ForClient : ~Announces(f)} \subseteq ForClient'
  BY CodeKept DEF ForClient
<1>5. /\ sq' \in Seq(ForClient') /\ NoAlerts(sq') /\ AlertsAhead(sq')
  <2> DEFINE r == <<DevInfResults>>
             G == {f \in ForClient : ~Announces(f)}
  <2>1. sq \in Seq(Package) /\ sq \in Seq(ForClient)
    BY TwoParties DEF Together, ToldToClient, TypeOK, sq
  <2>2. sq \in Seq(G)
    <3>1. \A i \in DOMAIN sq : sq[i] \in G
      BY <1>2, <2>1, InAll DEF NoAlerts
    <3> HIDE DEF G
    <3> QED
      BY <2>1, <3>1, AllIn
  <2>3. r \in Seq(G) /\ r \in Seq(Package) /\ NoAlerts(r)
    <3>1. DevInfResults \in G /\ DevInfResults \in Package
      BY DEF DevInfResults, ForClient, Announces, Refreshes, Fragment, Package
    <3> QED
      BY <3>1 DEF NoAlerts
  <2> HIDE DEF r
  <2>4. sq' \in Seq(G)
    <3> HIDE DEF G
    <3> QED
      BY <2>2, <2>3, ConcatProperties DEF r
  <2>5. sq' \in Seq(ForClient')
    <3> HIDE DEF G
    <3>1. G \subseteq ForClient'
      BY <1>4 DEF G
    <3> QED
      BY <2>4, <3>1, SeqMonotonic
  <2>6. NoAlerts(sq')
    BY <1>2, <2>1, <2>3, JoinAlerts DEF r
  <2> QED
    BY <2>5, <2>6, NoneFor
<1>6. sa' \in Seq(ForClient')
  BY <1>4, SeqMonotonic
<1>7. ToldToServer' /\ ToldToClient'
  BY <1>1, <1>5, <1>6, LeftOver, CodeKept DEF Together, ToldToServer, ToldToClient
<1>8. ClientOrder' /\ ServerOrder'
  BY <1>1, <1>3, <1>5, LeftOver, CodeKept DEF Together, ClientOrder, ServerOrder
<1>9. AlertsEarly'
  BY <1>1, LeftOver DEF Together, AlertsEarly
<1>10. ServerTargets' /\ ClientTargets'
  BY <1>1, <1>2, CodeKept DEF Together, ServerTargets, ClientTargets
<1>11. Heard'
  <2>1. \A db : (Announced(db) => Announced(db)') /\ ~Known(db) /\ ~Answered(db)
    BY <1>1, <1>2, <1>3, LeftOver, NoneFor DEF Announced, Known, Answered
  <2> QED
    BY <1>1, <2>1, CodeKept DEF Together, Heard
<1> QED
  BY <1>7, <1>8, <1>9, <1>10, <1>11 DEF Together

\* An alert in the initialization: one more target, if the database is served
LEMMA ServerHearsAlert ==
    ASSUME Together, SameTold, NEW m \in Seq(Fragment), m # <<>>, ServerReads(m), ClientKeeps,
           ss \in {"PREPARED", "REMOTE_INIT"}, ss' = "REMOTE_INIT", sq' = sq, sw' = sw,
           sa' \in Seq(ForClient), lastS' => lastS, Announces(Head(m)),
           st' = IF Head(m).db \in cfg.served
                 THEN st \cup {[db |-> Head(m).db, mode |-> ModeAtServer(Head(m).db), anchored |-> TRUE]}
                 ELSE st
    PROVE  Together'
<1>1. /\ toS = {m} /\ toS' = {Tail(m)} /\ toC = {} /\ toC' = {} /\ ~lastC /\ ~lastC'
      /\ cw' = cw /\ cs' = cs /\ cq' = cq /\ ct' = ct /\ ca' = ca
  BY DEF ServerReads, SameClient, ClientKeeps
<1>2. ss \in EarlyStates /\ ss' \in EarlyStates /\ ss' \notin Unready
  BY DEF EarlyStates, Unready
<1>3. ToldToServer' /\ ToldToClient'
  BY <1>1, LeftOver, ToldKept DEF Together, ToldToServer, ToldToClient
<1>4. ClientOrder' /\ ServerOrder'
  BY <1>1, LeftOver, ToldKept DEF Together, ClientOrder, ServerOrder
<1>5. AlertsEarly'
  BY <1>1, <1>2, LeftOver DEF Together, AlertsEarly
<1>6. ServerTargets' /\ ClientTargets'
  BY <1>1, <1>2, ToldKept DEF Together, ServerTargets, ClientTargets
<1>7. Heard'
  <2> SUFFICES ASSUME NEW t \in ct, t.db \in cfg.served, cs # "PREPARED"
               PROVE  t.anchored \/ Announced(t.db)' \/ Known(t.db)' \/ Answered(t.db)'
    BY <1>1, ToldKept DEF Heard
  <2>1. t.anchored \/ Announced(t.db) \/ Known(t.db) \/ Answered(t.db)
    BY <1>1 DEF Together, Heard
  <2>2. Announced(t.db) => Announced(t.db)' \/ Known(t.db)'
    <3>1. CASE Head(m).db = t.db
      <4> DEFINE u == [db |-> Head(m).db, mode |-> ModeAtServer(Head(m).db), anchored |-> TRUE]
      <4>u. u.db = Head(m).db
        OBVIOUS
      <4> HIDE DEF u
      <4>2. u \in st'
        BY <3>1 DEF u
      <4>1. \E x \in st' : x.db = t.db
        BY <3>1, <4>u, <4>2
      <4> QED
        BY <4>1 DEF Known
    <3>2. CASE Head(m).db # t.db
      BY <1>1, <1>2, <3>2, LeftOver DEF Announced
    <3> QED
      BY <3>1, <3>2
  <2>3. Known(t.db) => Known(t.db)'
    BY DEF Known
  <2>4. Answered(t.db) => Answered(t.db)'
    BY <1>1 DEF Answered, Listening
  <2> QED
    BY <2>1, <2>2, <2>3, <2>4
<1> QED
  BY <1>3, <1>4, <1>5, <1>6, <1>7 DEF Together

\* Changes, or mappings, of the client: all its alerts came before
LEMMA ServerHearsChanges ==
    ASSUME Together, SameTold, NEW m \in Seq(Fragment), m # <<>>, ServerReads(m), ClientKeeps,
           \/ /\ ss \in {"REMOTE_INIT", "LOCAL_INIT", "RECEIVING_ITEMS"}
              /\ ss' = "RECEIVING_ITEMS" /\ Head(m).kind = "Sync"
              /\ IF ss = "REMOTE_INIT" THEN sw' ELSE sw' = sw
           \/ /\ ss \in {"SENDING_ITEMS", "RECEIVING_MAPPINGS"}
              /\ ss' = "RECEIVING_MAPPINGS" /\ Head(m).kind = "Map" /\ sw' = sw,
           sq' = sq, st' = st, sa' \in Seq(ForClient), lastS' => lastS
    PROVE  Together'
<1>1. /\ toS = {m} /\ toS' = {Tail(m)} /\ toC = {} /\ toC' = {} /\ ~lastC /\ ~lastC'
      /\ cw' = cw /\ cs' = cs /\ cq' = cq /\ ct' = ct /\ ca' = ca
  BY DEF ServerReads, SameClient, ClientKeeps
<1>2. ss' \notin EarlyStates /\ ss' \notin Unready
  BY DEF EarlyStates, Unready
<1>3. NoAlerts(m) /\ NoAlerts(cq)
  <2>1. CASE Head(m).kind = "Sync"
    BY <1>1, <2>1, LeftOver DEF Together, ClientOrder
  <2>2. CASE ss \in {"SENDING_ITEMS", "RECEIVING_MAPPINGS"}
    BY <1>1, <2>2 DEF Together, AlertsEarly, EarlyStates
  <2> QED
    BY <2>1, <2>2
<1>4. (ss = "REMOTE_INIT" /\ Head(m).kind = "Sync") => cw
  BY <1>1, LeftOver DEF Together, AlertsEarly, EarlyStates
<1>5. ToldToServer' /\ ToldToClient'
  BY <1>1, LeftOver, ToldKept DEF Together, ToldToServer, ToldToClient
<1>6. ClientOrder' /\ ServerOrder'
  BY <1>1, <1>3, LeftOver, ToldKept DEF Together, ClientOrder, ServerOrder
<1>7. AlertsEarly'
  BY <1>1, <1>2, <1>3, LeftOver DEF AlertsEarly
<1>8. ServerTargets' /\ ClientTargets'
  BY <1>1, <1>2, ToldKept DEF Together, ServerTargets, ClientTargets
<1>9. Heard'
  <2>1. \A db : ~Announced(db)
    BY <1>1, <1>3, NoneFor DEF Announced
  <2>2. \A db : Known(db) => Known(db)'
    BY <1>1, <1>4 DEF Known
  <2>3. \A db : Answered(db) => Answered(db)'
    BY <1>1 DEF Answered, Listening
  <2> QED
    BY <1>1, <2>1, <2>2, <2>3, ToldKept DEF Together, Heard
<1> QED
  BY <1>5, <1>6, <1>7, <1>8, <1>9 DEF Together

-----------------------------------------------------------------------------
(***************************************************************************)
(* The end of a package.                                                   *)
(***************************************************************************)
\* The server began, and the client answers with its alerts
LEMMA ClientEndsFirst ==
    ASSUME Together, Ordered, Sound, SameTold, ClientAtEnd, ClientKeeps, ServerKeeps,
           cs = "PREPARED", cs' = "LOCAL_INIT", cq' \in Seq(ForServer), AlertsAhead(cq'),
           ~Has(cq', "Sync"), \A t \in ct : AlertFor(cq', t.db)
    PROVE  Together'
<1>1. /\ toC = {<<>>} /\ toC' = {<<>>} /\ toS = {} /\ toS' = {} /\ lastC /\ ~lastC' /\ ~lastS'
      /\ cw' = cw /\ ss' = ss /\ sq' = sq /\ st' = st /\ sa' = sa /\ sw' = sw /\ ct' = ct /\ ca' = ca
  BY DEF ClientAtEnd, SameServer, ServerKeeps, ClientKeeps
<1>2. ss \in Unready /\ ss \in EarlyStates
  BY DEF Ordered, Preparing, Sound, Unready, EarlyStates
<1>3. ~cinit
  BY DEF Together, ClientTargets
<1>4. cs' \notin Unready
  BY DEF Unready
<1>5. <<>> \in Seq(ForClient) /\ AlertsAhead(<<>>) /\ ~Speaking(<<>>)
  BY EmptyAlerts, EmptySeq
<1>6. ToldToServer' /\ ToldToClient'
  BY <1>1, <1>4, <1>5, ToldKept DEF Together, ToldToServer, ToldToClient
<1>7. ClientOrder' /\ ServerOrder'
  BY <1>1, <1>3, <1>5, ToldKept DEF Together, ClientOrder, ServerOrder
<1>8. AlertsEarly'
  BY <1>1, <1>2 DEF AlertsEarly
<1>9. ServerTargets' /\ ClientTargets'
  BY <1>1, <1>2, ToldKept DEF Together, ServerTargets, ClientTargets
<1>10. Heard'
  BY <1>1, <1>2 DEF Heard, Announced
<1> QED
  BY <1>6, <1>7, <1>8, <1>9, <1>10 DEF Together

\* The client goes on to its changes, to its mappings or to the end: it does not
\* wait for alerts any more
LEMMA ClientEndsLater ==
    ASSUME Together, SameTold, ClientAtEnd, ClientKeeps, ServerKeeps,
           cs \notin Unready, cs' \notin Unready, cs' # "SYNC_FINISHED", ss \notin EarlyStates,
           cq' \in Seq(ForServer), NoAlerts(cq) => NoAlerts(cq')
    PROVE  Together'
<1>1. /\ toC = {<<>>} /\ toC' = {<<>>} /\ toS = {} /\ toS' = {} /\ lastC /\ ~lastC' /\ ~lastS'
      /\ cw' = cw /\ ss' = ss /\ sq' = sq /\ st' = st /\ sa' = sa /\ sw' = sw /\ ct' = ct /\ ca' = ca
  BY DEF ClientAtEnd, SameServer, ServerKeeps, ClientKeeps
<1>2. NoAlerts(cq') /\ NoAlerts(sq) /\ NoAlerts(cq)
  BY <1>1 DEF Together, AlertsEarly, ServerOrder
<1>3. /\ <<>> \in Seq(ForClient) /\ AlertsAhead(<<>>) /\ ~Speaking(<<>>)
      /\ \A db : ~AlertFor(<<>>, db)
  BY EmptyAlerts, EmptySeq
<1>4. ToldToServer' /\ ToldToClient'
  BY <1>1, <1>3, ToldKept DEF Together, ToldToServer, ToldToClient
<1>5. ClientOrder' /\ ServerOrder'
  BY <1>1, <1>2, <1>3, NoneFor, ToldKept DEF Together, ClientOrder, ServerOrder
<1>6. AlertsEarly'
  BY <1>1, <1>2 DEF AlertsEarly
<1>7. ServerTargets' /\ ClientTargets'
  <2>1. cs' # "NOT_PREPARED" /\ cs' # "PREPARED"
    BY DEF Unready
  <2> QED
    BY <1>1, <2>1, ToldKept DEF Together, ServerTargets, ClientTargets
<1>8. Heard'
  <2>1. \A db : ~Announced(db) /\ ~Answered(db) /\ (Known(db)' <=> Known(db))
    BY <1>1, <1>2, <1>3, NoneFor DEF Announced, Answered, Known
  <2>2. \A t \in ct : t.db \in cfg.served => t.anchored \/ Known(t.db)
    BY <1>1, <2>1 DEF Together, Heard, Unready
  <2> QED
    BY <1>1, <2>1, <2>2, ToldKept DEF Heard
<1> QED
  BY <1>4, <1>5, <1>6, <1>7, <1>8 DEF Together

\* The states of a client that goes on
LEMMA ClientStates ==
    ASSUME TypeOK, Sound
    PROVE  cs \in {"NOT_PREPARED", "PREPARED", "LOCAL_INIT", "REMOTE_INIT", "SENDING_ITEMS",
                   "RECEIVING_ITEMS", "SENDING_MAPPINGS", "RECEIVING_MAPPINGS", "FINALIZING",
                   "SYNC_FINISHED"}
  BY TwoParties DEF TypeOK, Sound, cs, SyncStates, ProgressStates, InitStates, ExchangeStates,
                    ErrorStates

\* The server answers the alerts of the client, or its changes: with an alert for
\* each database it was told of
LEMMA ServerEndsAnswering ==
    ASSUME Together, Ordered, SameTold, ServerAtEnd, ClientKeeps, ServerKeeps,
           (ss = "REMOTE_INIT" \/ cw) => Listening,
           \/ ss = "REMOTE_INIT" /\ ss' = "LOCAL_INIT"
           \/ ss = "RECEIVING_ITEMS" /\ ss' = "SENDING_ITEMS",
           sq' \in Seq(ForClient), AlertsAhead(sq'),
           \A db : AlertFor(sq, db) => AlertFor(sq', db),
           (ss = "REMOTE_INIT" \/ sw) => \A u \in st : AlertFor(sq', u.db)
    PROVE  Together'
<1>1. /\ toS = {<<>>} /\ toS' = {<<>>} /\ toC = {} /\ toC' = {} /\ lastS /\ ~lastS' /\ ~lastC'
      /\ cs' = cs /\ cq' = cq /\ cw' = cw /\ st' = st /\ sa' = sa /\ sw' = sw /\ ct' = ct /\ ca' = ca
  BY DEF ServerAtEnd, SameClient, ServerKeeps, ClientKeeps
<1>2. ss' \notin EarlyStates /\ ss' \notin Unready
  BY DEF EarlyStates, Unready
<1>3. /\ <<>> \in Seq(ForServer) /\ AlertsAhead(<<>>) /\ ~Speaking(<<>>) /\ NoAlerts(<<>>)
      /\ \A db : ~AlertFor(<<>>, db)
  BY EmptyAlerts, EmptySeq
<1>4. NoAlerts(cq)
  BY <1>1 DEF Together, ClientOrder
<1>5. ToldToServer' /\ ToldToClient'
  BY <1>1, <1>3, ToldKept DEF Together, ToldToServer, ToldToClient
<1>6. ClientOrder' /\ ServerOrder'
  BY <1>1, <1>3, <1>4, ToldKept DEF Together, ClientOrder, ServerOrder
<1>7. AlertsEarly'
  BY <1>1, <1>2, <1>3, <1>4 DEF AlertsEarly
<1>8. ServerTargets' /\ ClientTargets'
  BY <1>1, <1>2, ToldKept DEF Together, ServerTargets, ClientTargets
<1>9. Heard'
  <2>1. \A db : ~Announced(db)
    BY <1>1, <1>3, <1>4, NoneFor DEF Announced
  <2>2. \A db : Known(db) => Answered(db)'
    BY <1>1 DEF Known, Answered, Listening
  <2>3. \A db : Answered(db) => Answered(db)'
    BY <1>1 DEF Answered, Listening
  <2> QED
    BY <1>1, <2>1, <2>2, <2>3, ToldKept DEF Together, Heard
<1> QED
  BY <1>5, <1>6, <1>7, <1>8, <1>9 DEF Together

\* The server has nothing more to say than that all is well
LEMMA ServerEndsFinally ==
    ASSUME Together, SameTold, ServerAtEnd, ClientKeeps, ServerKeeps,
           ss \in {"RECEIVING_ITEMS", "RECEIVING_MAPPINGS", "SENDING_ITEMS"}, ss' = "FINALIZING",
           (ss = "RECEIVING_ITEMS" /\ sw /\ cw) => st = {},
           sq' \in Seq(ForClient), AlertsAhead(sq) => AlertsAhead(sq'),
           \A db : AlertFor(sq, db) => AlertFor(sq', db)
    PROVE  Together'
<1>1. /\ toS = {<<>>} /\ toS' = {<<>>} /\ toC = {} /\ toC' = {} /\ lastS /\ ~lastS' /\ ~lastC'
      /\ cs' = cs /\ cq' = cq /\ cw' = cw /\ st' = st /\ sa' = sa /\ sw' = sw /\ ct' = ct /\ ca' = ca
  BY DEF ServerAtEnd, SameClient, ServerKeeps, ClientKeeps
<1>2. ss' \notin EarlyStates /\ ss' \notin Unready /\ ss \notin EarlyStates
  BY DEF EarlyStates, Unready
<1>3. /\ <<>> \in Seq(ForServer) /\ AlertsAhead(<<>>) /\ ~Speaking(<<>>) /\ NoAlerts(<<>>)
  BY EmptyAlerts, EmptySeq
<1>4. NoAlerts(cq)
  BY <1>1 DEF Together, ClientOrder
<1>5. ToldToServer' /\ ToldToClient'
  BY <1>1, <1>3, ToldKept DEF Together, ToldToServer, ToldToClient
<1>6. ClientOrder' /\ ServerOrder'
  BY <1>1, <1>3, <1>4, ToldKept DEF Together, ClientOrder, ServerOrder
<1>7. AlertsEarly'
  BY <1>1, <1>2, <1>3, <1>4 DEF AlertsEarly
<1>8. ServerTargets' /\ ClientTargets'
  BY <1>1, <1>2, ToldKept DEF Together, ServerTargets, ClientTargets
<1>9. Heard'
  <2>1. \A db : ~Announced(db) /\ ~Known(db)
    BY <1>2 DEF Announced, Known, EarlyStates
  <2>2. \A db : Answered(db) => Answered(db)'
    BY <1>1 DEF Answered, Listening
  <2> QED
    BY <1>1, <2>1, <2>2, ToldKept DEF Together, Heard
<1> QED
  BY <1>5, <1>6, <1>7, <1>8, <1>9 DEF Together

-----------------------------------------------------------------------------
(***************************************************************************)
(* The end of a message, and the first one.                                *)
(***************************************************************************)
\* What was queued is in the message or still in the queue, its alerts first
Passed(queue, m, left) ==
    /\ AlertsAhead(queue) => /\ AlertsAhead(m) /\ AlertsAhead(left)
                             /\ NoAlerts(left) \/ ~Speaking(m)
    /\ NoAlerts(queue) => NoAlerts(m) /\ NoAlerts(left)
    /\ Has(m, "Sync") \/ Has(left, "Sync") => Has(queue, "Sync")
    /\ \A db : AlertFor(queue, db) => AlertFor(m, db) \/ AlertFor(left, db)

\* The client answers a message
LEMMA ClientTells ==
    ASSUME Together, SameTold, SameServer, ServerKeeps, NEW m,
           toC = {<<>>}, toC' = {}, toS = {}, toS' = {m}, ~lastC', ~lastS',
           cs' = cs, cw' = cw, ct' = ct, ca' \in Seq(ForServer),
           m \in Seq(ForServer), cq' \in Seq(ForServer), Passed(cq, m, cq')
    PROVE  Together'
<1>1. /\ ss' = ss /\ sq' = sq /\ st' = st /\ sa' = sa /\ sw' = sw
  BY DEF SameServer, ServerKeeps
<1>2. AlertsAhead(cq) /\ \A db : ~AlertFor(<<>>, db)
  BY EmptyAlerts DEF Together, ClientOrder
<1>3. ToldToServer' /\ ToldToClient'
  BY <1>1, ToldKept DEF Together, ToldToServer, ToldToClient
<1>4. ClientOrder' /\ ServerOrder'
  BY <1>1, <1>2, ToldKept DEF Together, ClientOrder, ServerOrder, Passed
<1>5. AlertsEarly'
  BY <1>1 DEF Together, AlertsEarly, Passed
<1>6. ServerTargets' /\ ClientTargets'
  BY <1>1, ToldKept DEF Together, ServerTargets, ClientTargets
<1>7. Heard'
  <2>1. \A db : Announced(db) => Announced(db)'
    BY <1>1 DEF Announced, Passed
  <2>2. \A db : (Known(db) => Known(db)') /\ (Answered(db) => Answered(db)')
    BY <1>1, <1>2 DEF Known, Answered, Listening
  <2> QED
    BY <1>1, <2>1, <2>2, ToldKept DEF Together, Heard
<1> QED
  BY <1>3, <1>4, <1>5, <1>6, <1>7 DEF Together

\* The server answers a message, and is done if it was to say no more
LEMMA ServerTells ==
    ASSUME Together, Ordered, SameTold, SameClient, ClientKeeps, NEW m,
           toS = {<<>>}, toS' = {}, toC = {}, toC' = {m}, ~lastC, ~lastC', ~lastS',
           \/ ss' = ss
           \/ ss \notin EarlyStates \cup {"RECEIVING_ITEMS"} /\ ss' = "SYNC_FINISHED",
           st' = st, sw' = sw, sa' \in Seq(ForClient),
           m \in Seq(ForClient), sq' \in Seq(ForClient), Passed(sq, m, sq')
    PROVE  Together'
<1>1. /\ cs' = cs /\ cq' = cq /\ cw' = cw /\ ct' = ct /\ ca' = ca
  BY DEF SameClient, ClientKeeps
<1>2. AlertsAhead(sq) /\ (\A db : ~AlertFor(<<>>, db)) /\ NoAlerts(<<>>)
  BY EmptyAlerts DEF Together, ServerOrder
<1>3. cs \notin Unready
  BY DEF Ordered, Unprepared, Preparing, Unready
<1>4. ToldToServer' /\ ToldToClient'
  BY <1>1, <1>3, ToldKept DEF Together, ToldToServer, ToldToClient
<1>5. ClientOrder' /\ ServerOrder'
  BY <1>1, <1>2, ToldKept DEF Together, ClientOrder, ServerOrder, Passed
<1>6. AlertsEarly'
  BY <1>1, <1>2 DEF Together, AlertsEarly, EarlyStates
<1>7. ServerTargets' /\ ClientTargets'
  BY <1>1, ToldKept DEF Together, ServerTargets, ClientTargets, Unready, EarlyStates
<1>8. Heard'
  <2>1. \A db : Announced(db) => Announced(db)'
    BY <1>1, <1>2 DEF Announced, EarlyStates
  <2>2. \A db : Known(db) => Known(db)'
    BY <1>1 DEF Known, EarlyStates
  <2>3. \A db : Answered(db) => Answered(db)'
    BY <1>1, <1>2 DEF Answered, Listening, Passed
  <2> QED
    BY <1>1, <2>1, <2>2, <2>3, ToldKept DEF Together, Heard
<1> QED
  BY <1>4, <1>5, <1>6, <1>7, <1>8 DEF Together

\* The client is done after the server
LEMMA ClientIsThrough ==
    ASSUME Together, SameTold, SameServer, ServerKeeps, cs = "SYNC_FINISHED" \/ toC # {},
           cs \in {"FINALIZING", "SYNC_FINISHED"}, cs' = "SYNC_FINISHED", ss = "SYNC_FINISHED",
           NoneLeft, ~lastC', ~lastS', cw' = cw, cq' \in {cq, <<>>}, ct' \subseteq ct, ca' = ca
    PROVE  Together'
<1>1. /\ ss' = ss /\ sq' = sq /\ st' = st /\ sa' = sa /\ sw' = sw /\ toC' = {} /\ toS' = {}
  BY DEF SameServer, ServerKeeps, NoneLeft
<1>2. /\ cq' \in Seq(ForServer) /\ (AlertsAhead(cq) => AlertsAhead(cq'))
      /\ NoAlerts(cq) => NoAlerts(cq')
  BY EmptyAlerts, EmptySeq DEF Together, ToldToServer
<1>3. ToldToServer' /\ ToldToClient'
  BY <1>1, <1>2, ToldKept DEF Together, ToldToServer, ToldToClient, Unready
<1>4. ClientOrder' /\ ServerOrder'
  BY <1>1, <1>2, ToldKept DEF Together, ClientOrder, ServerOrder
<1>5. AlertsEarly'
  BY <1>1, <1>2 DEF Together, AlertsEarly, EarlyStates
<1>6. ServerTargets' /\ ClientTargets'
  BY <1>1, ToldKept DEF Together, ServerTargets, ClientTargets, EarlyStates
<1>7. Heard'
  <2>1. \A db : ~Announced(db) /\ ~Known(db) /\ ~Answered(db)
    BY DEF Announced, Known, Answered, Listening, EarlyStates
  <2> QED
    BY <2>1, ToldKept DEF Together, Heard
<1> QED
  BY <1>3, <1>4, <1>5, <1>6, <1>7 DEF Together

\* The client begins
LEMMA ClientBeginsTogether ==
    ASSUME Together, Ordered, SameTold, SameServer, ServerKeeps, NEW m,
           cinit, cs = "NOT_PREPARED", cs' \in {"LOCAL_INIT", "SENDING_ITEMS"}, cw' => cfg.noInit,
           toC' = {}, toS' = {m}, ~lastC', ~lastS', ca' \in Seq(ForServer),
           m \in Seq(ForServer), cq' \in Seq(ForServer), AlertsAhead(m), NoAlerts(cq'),
           Has(m, "Sync") \/ Has(cq', "Sync") => cs' = "SENDING_ITEMS" /\ cw',
           \A x \in ct' : ~x.anchored /\ AlertFor(m, x.db)
    PROVE  Together'
<1>1. /\ ss' = ss /\ sq' = sq /\ st' = st /\ sa' = sa /\ sw' = sw
  BY DEF SameServer, ServerKeeps
<1>2. ss = "NOT_PREPARED" /\ sq = <<>> /\ ss \in EarlyStates
  BY DEF Ordered, Unprepared, EarlyStates
<1>3. cs' \notin {"NOT_PREPARED", "PREPARED"} /\ cs' \notin Unready
  BY DEF Unready
<1>4. ToldToServer' /\ ToldToClient'
  BY <1>1, ToldKept DEF Together, ToldToServer, ToldToClient
<1>5. ClientOrder' /\ ServerOrder'
  BY <1>1, <1>2, EmptyAlerts, NoneFor, ToldKept DEF Together, ClientOrder, ServerOrder
<1>6. AlertsEarly'
  BY <1>1, <1>2 DEF AlertsEarly
<1>7. ServerTargets' /\ ClientTargets'
  BY <1>1, <1>3, ToldKept DEF Together, ServerTargets, ClientTargets
<1>8. Heard'
  BY <1>1, <1>2 DEF Heard, Announced
<1> QED
  BY <1>4, <1>5, <1>6, <1>7, <1>8 DEF Together

\* The server begins
LEMMA ServerBeginsTogether ==
    ASSUME Together, Ordered, SameTold, SameClient, ClientKeeps, NEW m,
           ~cinit, ss = "NOT_PREPARED", ss' = "PREPARED", st' = st, sq' = <<>>,
           toC' = {m}, toS' = {}, ~lastC', ~lastS', sa' \in Seq(ForClient),
           m \in Seq(ForNewClient), AlertsAhead(m)
    PROVE  Together'
<1>1. /\ cs' = cs /\ cq' = cq /\ cw' = cw /\ ct' = ct /\ ca' = ca
  BY DEF SameClient, ClientKeeps
<1>2. cs = "NOT_PREPARED" /\ cq = <<>> /\ ct = {} /\ st = {} /\ cs \in Unready
  BY DEF Ordered, Unprepared, Unready, Together, ServerTargets, ClientTargets
<1>3. <<>> \in Seq(ForClient) /\ AlertsAhead(<<>>) /\ NoAlerts(<<>>) /\ ~Has(<<>>, "Sync")
  BY EmptyAlerts, EmptySeq, EmptyShows
<1>4. ToldToServer' /\ ToldToClient'
  BY <1>1, <1>2, <1>3, ToldKept DEF Together, ToldToServer, ToldToClient
<1>5. ClientOrder' /\ ServerOrder'
  BY <1>1, <1>2, <1>3, ToldKept DEF ClientOrder, ServerOrder
<1>6. AlertsEarly'
  BY <1>1, <1>2, <1>3 DEF AlertsEarly
<1>7. ServerTargets' /\ ClientTargets'
  BY <1>1, <1>2, ToldKept DEF Together, ServerTargets, ClientTargets
<1>8. Heard'
  BY <1>1, <1>2 DEF Heard
<1> QED
  BY <1>4, <1>5, <1>6, <1>7, <1>8 DEF Together

-----------------------------------------------------------------------------
(***************************************************************************)
(* What is added to the statuses and the messages.                         *)
(***************************************************************************)
\* What either side may say at any time
Plainly == {f \in Status : ~Refreshes(f)}
Neutral == {f \in Fragment : \/ f.kind \in {"Header", "Sync", "Map", "Final"}
                             \/ f.kind = "Alert" /\ f.code = NEXT_MESSAGE}

LEMMA NeutralTells ==
    /\ Plainly \subseteq ForServer /\ Plainly \subseteq ForClient
    /\ Neutral \subseteq ForServer /\ Neutral \subseteq ForClient
    /\ Neutral \subseteq ForNewClient /\ Plainly \subseteq ForNewClient
    /\ \A f \in Plainly : ~Announces(f)
    /\ Header \in Neutral /\ {f \in Package : f.kind \in {"Sync", "Map"}} \subseteq Neutral
    /\ FinalPackage \in Neutral
<1>1. \A f \in Plainly : f \in Fragment /\ f.kind = "Status" /\ ~Refreshes(f) /\ ~Announces(f)
  BY DEF Plainly, Fragment, Status, Announces
<1>2. NEXT_MESSAGE \notin SyncCodes
  BY DEF NEXT_MESSAGE, SyncCodes
<1>3. \A f \in Neutral : f \in Fragment /\ f.kind # "Results" /\ ~Refreshes(f) /\ ~Announces(f)
  BY <1>2 DEF Neutral, Refreshes, Announces
<1>4. Plainly \subseteq ForServer /\ Plainly \subseteq ForClient /\ Plainly \subseteq ForNewClient
  BY <1>1 DEF ForServer, ForClient, ForNewClient
<1>5. Neutral \subseteq ForServer /\ Neutral \subseteq ForClient /\ Neutral \subseteq ForNewClient
  BY <1>3 DEF ForServer, ForClient, ForNewClient
<1>6. Header \in Fragment /\ Header.kind = "Header"
  BY DEF Fragment, Header
<1>7. FinalPackage \in Fragment /\ FinalPackage.kind = "Final"
  BY DEF Fragment, Package, FinalPackage
<1>8. Header \in Neutral /\ FinalPackage \in Neutral
  BY <1>6, <1>7 DEF Neutral
<1>9. {f \in Package : f.kind \in {"Sync", "Map"}} \subseteq Neutral
  BY DEF Neutral, Fragment
<1> QED
  BY <1>1, <1>4, <1>5, <1>8, <1>9

\* Statuses that are no refresh are for anyone
LEMMA PlainStatus ==
    ASSUME NEW cmd \in Commands, NEW db \in Db \cup {NoDb}, NEW code \in Responses,
           cmd # "Alert" \/ code # "REFRESH_REQUIRED"
    PROVE  StatusOf(cmd, db, code) \in Plainly /\ <<StatusOf(cmd, db, code)>> \in Seq(Plainly)
<1> DEFINE x == StatusOf(cmd, db, code)
<1>1. x \in Status /\ x.kind = "Status" /\ x.cmd = cmd /\ x.code = code
  BY DEF StatusOf, Status
<1>2. ~Refreshes(x)
  BY <1>1 DEF Refreshes
<1> HIDE DEF x
<1>3. x \in Plainly /\ <<x>> \in Seq(Plainly)
  BY <1>1, <1>2 DEF Plainly
<1> QED
  BY <1>3 DEF x

LEMMA PlainItems ==
    ASSUME NEW sync, sync.db \in Db, sync.items \in Seq(Item), NEW code \in Responses
    PROVE  ItemStatuses(sync, code) \in Seq(Plainly)
<1> DEFINE a == StatusOf("Sync", sync.db, IF code = "ITEM_ADDED" THEN "SUCCESS" ELSE code)
           x == StatusOf("Item", sync.db, code)
           b == [i \in DOMAIN sync.items |-> x]
<1>1. <<a>> \in Seq(Plainly)
  <2>1. /\ (IF code = "ITEM_ADDED" THEN "SUCCESS" ELSE code) \in Responses
        /\ "Sync" \in Commands /\ sync.db \in Db \cup {NoDb}
    BY DEF Responses, Commands
  <2> QED
    BY <2>1, PlainStatus
<1>2. x \in Plainly
  <2>1. "Item" \in Commands /\ sync.db \in Db \cup {NoDb}
    BY DEF Commands
  <2> QED
    BY <2>1, PlainStatus
<1> HIDE DEF a, x
<1>3. b \in Seq(Plainly)
  <2>1. Len(sync.items) \in Nat /\ DOMAIN sync.items = 1..Len(sync.items)
    BY LenProperties
  <2>2. b \in [1..Len(sync.items) -> Plainly]
    BY <1>2, <2>1
  <2> HIDE DEF b
  <2> QED
    BY <2>1, <2>2, ListType
<1> HIDE DEF b
<1>4. <<a>> \o b \in Seq(Plainly)
  BY <1>1, <1>3, ConcatProperties
<1> QED
  BY <1>4 DEF ItemStatuses, a, b, x

\* A session adds statuses to those it has
LEMMA StatusesTell ==
    ASSUME TypeOK, NEW p \in Party, NEW new \in Seq(Plainly), AddStatuses(p, new)
    PROVE  /\ \A q \in Party \ {p} : statuses'[q] = statuses[q]
           /\ \A G : (Plainly \subseteq G /\ statuses[p] \in Seq(G)) => statuses'[p] \in Seq(G)
<1>1. /\ statuses'[p] = statuses[p] \o new
      /\ \A q \in Party \ {p} : statuses'[q] = statuses[q]
  BY DEF AddStatuses, TypeOK
<1>2. ASSUME NEW G, Plainly \subseteq G, statuses[p] \in Seq(G)
      PROVE  statuses'[p] \in Seq(G)
  <2>1. new \in Seq(G)
    BY <1>2, SeqMonotonic
  <2> QED
    BY <1>1, <1>2, <2>1, ConcatProperties
<1> QED
  BY <1>1, <1>2

-----------------------------------------------------------------------------
\* What is on top of a message announces nothing and ends nothing
LEMMA TopAlerts ==
    ASSUME TypeOK, NEW p \in Party, NEW k \in 0..Len(statuses[p])
    PROVE  /\ Top(p, k) \in Seq(Fragment) /\ NoAlerts(Top(p, k)) /\ AlertsAhead(Top(p, k))
           /\ ~Speaking(Top(p, k))
<1> DEFINE s == Top(p, k)
<1>1. s \in Seq(Fragment) /\ OnlyStatuses(s) /\ NoAlerts(s)
  BY TopShows
<1> HIDE DEF s
<1>2. ~Speaking(s)
  BY <1>1 DEF OnlyStatuses, Speaking, Speaks
<1>3. AlertsAhead(s)
  BY <1>1, NoneFor
<1> QED
  BY <1>1, <1>2, <1>3 DEF s

LEMMA WrittenTells ==
    ASSUME TypeOK, NEW p \in Party, NEW k \in 0..Len(statuses[p]),
           NEW pkgs \in Seq(Package), NEW ample, NEW cut \in Cuts(pkgs, ample),
           NEW m, m = Top(p, k) \o cut.written
    PROVE  Passed(pkgs, m, cut.left)
<1>a. m = Top(p, k) \o cut.written /\ cut \in Cuts(pkgs, ample)
  OBVIOUS
<1>4. /\ m \in Seq(Fragment) /\ cut.left \in Seq(Package)
      /\ \A kind : Has(m, kind) => kind \in {"Header", "Status"} \/ Has(pkgs, kind)
      /\ \A kind : Has(cut.left, kind) => Has(pkgs, kind)
      /\ FinalIsLast(pkgs) => /\ FinalIsLast(cut.left)
                              /\ Has(m, "Final") => cut.left = <<>>
      /\ \A y : WarnedAll(y, pkgs) => /\ WarnedAll(y, m)
                                      /\ WarnedAll(y, cut.left) \/ Warning(y, m)
      /\ NoAlerts(pkgs) => NoAlerts(m) /\ NoAlerts(cut.left)
      /\ (k = 0 /\ AllPlain(pkgs)) => AllPlain(m)
      /\ DevInfAhead(pkgs) => /\ DevInfOnTop(m) /\ DevInfAhead(cut.left)
                              /\ Has(cut.left, "PutGet") => OnlyStatuses(m)
      /\ Followed(cut.written) => Followed(m)
  BY <1>a, WrittenShows
<1> DEFINE t == Top(p, k)
           w == cut.written
           r == cut.left
<1>1. t \in Seq(Fragment) /\ NoAlerts(t) /\ AlertsAhead(t) /\ ~Speaking(t)
  BY TopAlerts
<1>2. w \in Seq(Fragment) /\ r \in Seq(Package)
  <2>1. w \in Seq(Package) /\ r \in Seq(Package)
    BY CutsType
  <2> QED
    BY <2>1, SeqMonotonic DEF Fragment
<1>3. /\ AlertsAhead(pkgs) => /\ AlertsAhead(w) /\ AlertsAhead(r)
                              /\ NoAlerts(r) \/ ~Speaking(w)
      /\ \A db : AlertFor(pkgs, db) => AlertFor(w, db) \/ AlertFor(r, db)
  BY CutAlerts
<1> HIDE DEF t, w, r
<1>5. /\ m = t \o w
      /\ (~Speaking(t) /\ AlertsAhead(w)) => AlertsAhead(t \o w)
      /\ (~Speaking(t) /\ ~Speaking(w)) => ~Speaking(t \o w)
      /\ \A db : AlertFor(t, db) \/ AlertFor(w, db) => AlertFor(t \o w, db)
  BY <1>1, <1>2, JoinAlerts DEF t, w
<1>6. Passed(pkgs, m, r)
  BY <1>1, <1>3, <1>4, <1>5 DEF Passed, r
<1> QED
  BY <1>6 DEF r

\* A message is of the statuses and the packages that there are
LEMMA WrittenIn ==
    ASSUME TypeOK, NEW p \in Party, NEW k \in 0..Len(statuses[p]),
           NEW pkgs \in Seq(Package), NEW ample, NEW cut \in Cuts(pkgs, ample),
           NEW m, m = Top(p, k) \o cut.written,
           NEW G, Neutral \subseteq G, pkgs \in Seq(G), statuses[p] \in Seq(G)
    PROVE  /\ m \in Seq(G) /\ cut.left \in Seq(G)
           /\ Generate(p, k, cut) => statuses'[p] \in Seq(G)
<1>1. {f \in Package : f.kind \in {"Sync", "Map"}} \subseteq G /\ Header \in G
  BY NeutralTells
<1>2. cut.written \in Seq(G) /\ cut.left \in Seq(G)
  BY <1>1, CutAlerts
<1>3. /\ Len(statuses[p]) \in Nat /\ k \in Nat /\ k + 1 \in Nat \ {0}
      /\ Len(statuses[p]) \in 0..Len(statuses[p]) /\ 1 \in Nat \ {0}
  BY LenProperties DEF TypeOK
<1>4. SubSeq(statuses[p], 1, k) \in Seq(G) /\ SubSeq(statuses[p], k + 1, Len(statuses[p])) \in Seq(G)
  BY <1>3, SubSeqType
<1>5. <<Header>> \in Seq(G)
  BY <1>1
<1>6. Top(p, k) \in Seq(G)
  BY <1>4, <1>5, ConcatProperties DEF Top
<1>7. m \in Seq(G)
  BY <1>2, <1>6, ConcatProperties
<1>8. Generate(p, k, cut) => statuses'[p] = SubSeq(statuses[p], k + 1, Len(statuses[p]))
  BY DEF Generate, TypeOK
<1> QED
  BY <1>2, <1>4, <1>7, <1>8

\* The others' statuses stay as they are
LEMMA GeneratedFor ==
    ASSUME TypeOK, NEW p \in Party, NEW k, NEW cut, Generate(p, k, cut)
    PROVE  \A q \in Party \ {p} : statuses'[q] = statuses[q]
  BY DEF Generate, TypeOK

\* An answer
LEMMA AnswerTells ==
    ASSUME TypeOK, NEW p \in Party, NEW s \in Sendable(p),
           NEW m, m = Top(p, s.k) \o s.cut.written
    PROVE  /\ Passed(packages[p], m, s.cut.left)
           /\ \A G : (Neutral \subseteq G /\ packages[p] \in Seq(G) /\ statuses[p] \in Seq(G)) =>
                 /\ m \in Seq(G) /\ s.cut.left \in Seq(G)
                 /\ Generate(p, s.k, s.cut) => statuses'[p] \in Seq(G)
<1> DEFINE ample == Len(statuses[p]) <= cfg.room
           q == Queue(p)
<1>1. PICK k, cut : k = s.k /\ cut = s.cut
  OBVIOUS
<1>2. k \in 0..Len(statuses[p]) /\ cut \in Cuts(q, ample)
  BY <1>1 DEF Sendable
<1>3. q \in Seq(Package)
  BY QueueShows
<1>4. m = Top(p, k) \o cut.written
  BY <1>1
<1>5. NextMessageAlerts(p) \in Seq(Neutral)
  <2>1. targets[p] \in Seq(Target)
    BY DEF TypeOK
  <2>2. Len(targets[p]) \in Nat /\ DOMAIN targets[p] = 1..Len(targets[p])
    BY <2>1, LenProperties
  <2>3. \A i \in DOMAIN targets[p] : Alert(NEXT_MESSAGE, targets[p][i].db) \in Neutral
    <3> TAKE i \in DOMAIN targets[p]
    <3>1. targets[p][i].db \in Db
      BY ElementType DEF Target
    <3>2. Alert(NEXT_MESSAGE, targets[p][i].db) \in Fragment
      BY <3>1 DEF Alert, Fragment, Package
    <3> QED
      BY <3>2 DEF Neutral, Alert
  <2>4. NextMessageAlerts(p) \in [1..Len(targets[p]) -> Neutral]
    BY <2>2, <2>3 DEF NextMessageAlerts
  <2> QED
    BY <2>2, <2>4, ListType
<1> HIDE DEF q, ample
<1>6. Passed(q, m, cut.left)
  BY <1>2, <1>3, <1>4, WrittenTells
<1>7. Passed(packages[p], m, cut.left)
  <2>1. CASE q = packages[p]
    BY <1>6, <2>1
  <2>2. CASE q = NextMessageAlerts(p) /\ packages[p] = <<>>
    <3>1. NoAlerts(q) /\ ~Has(q, "Sync")
      <4>1. \A i \in DOMAIN q : q[i].kind = "Alert" /\ q[i].code = NEXT_MESSAGE
        BY <2>2 DEF NextMessageAlerts, Alert
      <4> QED
        BY <4>1 DEF NoAlerts, Announces, Has, NEXT_MESSAGE, SyncCodes
    <3>2. NoAlerts(m) /\ NoAlerts(cut.left) /\ ~Has(m, "Sync") /\ ~Has(cut.left, "Sync")
      BY <1>6, <3>1 DEF Passed
    <3>3. \A db : ~AlertFor(<<>>, db)
      BY EmptyAlerts
    <3> QED
      BY <2>2, <3>2, <3>3, NoneFor DEF Passed
  <2> QED
    BY <2>1, <2>2 DEF q, Queue
<1>8. ASSUME NEW G, Neutral \subseteq G, packages[p] \in Seq(G), statuses[p] \in Seq(G)
      PROVE  /\ m \in Seq(G) /\ cut.left \in Seq(G)
             /\ Generate(p, k, cut) => statuses'[p] \in Seq(G)
  <2>1. q \in Seq(G)
    BY <1>5, <1>8, SeqMonotonic DEF q, Queue
  <2> QED
    BY <1>2, <1>3, <1>4, <1>8, <2>1, WrittenIn
<1> QED
  BY <1>1, <1>7, <1>8

-----------------------------------------------------------------------------
(***************************************************************************)
(* Messages move on.                                                       *)
(***************************************************************************)
LEMMA ClientKept ==
    ASSUME targets'[Client] = targets[Client], changeLog'[Client] = changeLog[Client],
           statuses'[Client] = statuses[Client]
    PROVE  ClientKeeps
  BY SameLooks DEF ClientKeeps, ct, ca

LEMMA ServerKept ==
    ASSUME targets'[Server] = targets[Server], changeLog'[Server] = changeLog[Server],
           statuses'[Server] = statuses[Server],
           syncWithoutInit'[Server] = syncWithoutInit[Server]
    PROVE  ServerKeeps
  BY SameLooks DEF ServerKeeps, st, sa, sw

LEMMA BeginTogether ==
    ASSUME TypeOK, Turns, Ordered, Together, NEW p \in Party, BeginMessage(p)
    PROVE  Together'
<1>1. /\ parsed[p] # <<>> /\ ~processing[p] /\ TakeMessage(p, FALSE)
      /\ UNCHANGED <<cfg, control, syncWithoutInit, peer, packages, targets, statuses, storage,
                     incoming, net>>
  BY DEF BeginMessage
<1>2. /\ \A q \in Party : Coming(q)' \subseteq Coming(q)
      /\ ~LastIn(p)'
      /\ \A q \in Party \ {p} : (LastIn(q)' <=> LastIn(q))
  BY <1>1, TakeView
<1>3. LessComing /\ (lastC' => lastC) /\ (lastS' => lastS)
  BY <1>2, TwoParties DEF LessComing, toC, toS, lastC, lastS
<1>4. SameClient /\ SameServer /\ SameTold
  BY <1>1, ClientUntouched, ServerUntouched DEF control, SameTold, SameConfig, peer
<1>5. ClientKeeps /\ ServerKeeps
  BY <1>1, ClientKept, ServerKept DEF storage
<1> QED
  BY <1>3, <1>4, <1>5, AllOrNone, QuietTogether

LEMMA LeaveTogether ==
    ASSUME TypeOK, Turns, Ordered, Together, NEW p \in Party, Deliver(p) \/ LoseMessage(p)
    PROVE  Together'
<1>1. /\ net[p] # <<>> /\ net' = [net EXCEPT ![p] = Tail(@)]
      /\ UNCHANGED <<cfg, control, syncWithoutInit, peer, packages, targets, statuses, storage,
                     reading>>
  BY DEF Deliver, LoseMessage
<1>2. \/ UNCHANGED <<incoming, parsed>>
      \/ parsed' = [parsed EXCEPT ![p] = Append(@, Head(net[p]))] /\ UNCHANGED incoming
      \/ incoming' = [incoming EXCEPT ![p] = <<Head(net[p])>>] /\ UNCHANGED parsed
  BY DEF Deliver, LoseMessage
<1>3. LessComing /\ SameEnds
  BY <1>1, <1>2, LeaveView
<1>4. SameClient /\ SameServer /\ SameTold
  BY <1>1, ClientUntouched, ServerUntouched DEF control, SameTold, SameConfig, peer
<1>5. ClientKeeps /\ ServerKeeps
  BY <1>1, ClientKept, ServerKept DEF storage
<1> QED
  BY <1>3, <1>4, <1>5, AllOrNone, QuietTogether DEF SameEnds

LEMMA ServeTogether ==
    ASSUME TypeOK, Turns, Ordered, Together, Sound, NEW p \in Party, ServeRequest(p)
    PROVE  Together'
<1>1. /\ parsed[p] # <<>> /\ syncState[p] = "NOT_PREPARED"
      /\ SetSyncState(p, "PREPARED") /\ TakeMessage(p, TRUE)
      /\ UNCHANGED <<cfg, syncWithoutInit, peer, packages, targets, statuses, storage,
                     incoming, net>>
  BY DEF ServeRequest
<1>2. /\ \A q \in Party : Coming(q)' \subseteq Coming(q)
      /\ Coming(p) # {}
      /\ \A q \in Party \ {p} : (LastIn(q)' <=> LastIn(q))
  BY <1>1, TakeView
<1>3. /\ Client \in Party /\ Server \in Party /\ Client # Server
      /\ p = Client \/ p = Server
  BY TwoParties
<1>4. /\ syncState'[p] = "PREPARED" /\ sessionClosed' = sessionClosed
      /\ \A q \in Party \ {p} : syncState'[q] = syncState[q]
  BY <1>1 DEF SetSyncState, TypeOK
<1>5. LessComing /\ SameTold
  BY <1>1, <1>2, <1>3 DEF LessComing, toC, toS, SameTold, SameConfig, peer
<1>6. ClientKeeps /\ ServerKeeps /\ (AllLeft \/ NoneLeft)
  BY <1>1, <1>5, ClientKept, ServerKept, AllOrNone DEF storage
<1>7. CASE p = Client
  <2>1. SameServer
    BY <1>1, <1>3, <1>4, <1>7, ServerUntouched
  <2>2. cs = "NOT_PREPARED" /\ cs' = "PREPARED" /\ cq' = cq /\ cw' = cw
    BY <1>1, <1>4, <1>7 DEF cs, cq, cw
  <2>3. toC # {} /\ (lastS' => lastS)
    BY <1>2, <1>3, <1>7 DEF toC, lastS
  <2> QED
    BY <1>5, <1>6, <2>1, <2>2, <2>3, ClientServesTogether
<1>8. CASE p = Server
  <2>1. SameClient
    BY <1>1, <1>3, <1>4, <1>8, ClientUntouched
  <2>2. ss = "NOT_PREPARED" /\ ss' = "PREPARED" /\ sq' = sq
    BY <1>1, <1>4, <1>8 DEF ss, sq
  <2>3. toS # {} /\ (lastC' => lastC)
    BY <1>2, <1>3, <1>8 DEF toS, lastC
  <2> QED
    BY <1>5, <1>6, <2>1, <2>2, <2>3, ServerServesTogether
<1> QED
  BY <1>3, <1>7, <1>8

-----------------------------------------------------------------------------
(***************************************************************************)
(* A session that was given up stays so.                                   *)
(***************************************************************************)
LEMMA GivenUp ==
    ASSUME TypeOK, NEW p \in Party, NEW q \in Party, NEW state \in ErrorStates,
           AbortSync(q, state)
    PROVE  syncState'[q] \in ErrorStates
  BY DEF AbortSync, TypeOK

LEMMA OnlyLost ==
    ASSUME TypeOK, Environment, Sound'
    PROVE  \E p \in Party : LoseMessage(p)
<1>1. \A q \in Party : syncState'[q] \notin ErrorStates
  BY TwoParties DEF Sound, cs, ss
<1>2. \A q \in Party : ~GarbledMessage(q) /\ ~UserAbort(q)
  BY <1>1, GivenUp DEF GarbledMessage, UserAbort, ErrorStates
<1>3. \A q \in Party, event \in {"invalid", "connection", "rejected", "sent"} :
         ~SetTransportStatus(q, event)
  <2> SUFFICES ASSUME NEW q \in Party, NEW event \in {"invalid", "connection", "rejected", "sent"},
                      SetTransportStatus(q, event)
               PROVE  FALSE
    OBVIOUS
  <2>1. /\ StateAfterEvent(q, "invalid") \in ErrorStates
        /\ StateAfterEvent(q, "connection") \in ErrorStates
        /\ StateAfterEvent(q, "rejected") \in ErrorStates
        /\ StateAfterEvent(q, "sent") \in ErrorStates
    BY DEF StateAfterEvent, ErrorStates
  <2>2. StateAfterEvent(q, event) \in ErrorStates
    BY <2>1
  <2> QED
    BY <1>1, <2>2, GivenUp DEF SetTransportStatus
<1>4. \A state \in {"INTERNAL_ERROR", "DATABASE_FAILURE", "CONNECTION_ERROR"} :
         ~StartupFailure(state)
  <2>1. cfg.mode.init \in Party
    BY ConfigType DEF AlertMode, SyncMode, Initiators, Party, Client, Server
  <2>2. {"INTERNAL_ERROR", "DATABASE_FAILURE", "CONNECTION_ERROR"} \subseteq ErrorStates
    BY DEF ErrorStates
  <2> QED
    BY <1>1, <2>1, <2>2, GivenUp DEF StartupFailure
<1> QED
  BY <1>2, <1>3, <1>4 DEF Environment

LEMMA SoundBefore ==
    ASSUME TypeOK, Next, Sound'
    PROVE  Sound
<1>1. /\ Client \in Party /\ Server \in Party /\ Client # Server
      /\ \A q \in Party : q = Client \/ q = Server
  BY TwoParties
<1>2. \A q \in Party : syncState'[q] \notin ErrorStates
  BY <1>1 DEF Sound, cs, ss
<1> SUFFICES ASSUME NEW p \in Party, syncState[p] \in ErrorStates
             PROVE  syncState'[p] \in ErrorStates
  BY <1>1, <1>2 DEF Sound, cs, ss
<1>3. syncState[p] \notin {"NOT_PREPARED", "SYNC_FINISHED"} \cup ProgressStates
  BY DEF ErrorStates, ProgressStates, InitStates, ExchangeStates
<1>4. ASSUME NEW q \in Party, Process(q) \/ Deliver(q)
      PROVE  syncState'[p] \in ErrorStates
  <2>1. CASE ServeRequest(q)
    BY <1>3, <2>1 DEF ServeRequest, SetSyncState, TypeOK
  <2>2. CASE UNCHANGED control
    BY <2>2 DEF control
  <2> QED
    BY <1>4, <2>1, <2>2 DEF Process, Deliver, BeginMessage, HandleHeader, HandleStatus,
       HandleDevInf, HandleResults, HandleNextMessageAlert, HandleFinalElement
<1>5. CASE ClientStep
  <2>1. syncState'[Server] = syncState[Server] \/ p # Server
    BY <1>1, <1>5 DEF ClientStep, InitiateClientSync, HandleClientAlert, HandleClientSync,
       HandleClientFinal, EndOfClientMessage, SetSyncState, ClientFinalInit,
       ClientFinalModifications, ClientFinalUpdateStatus, ClientFinalLast,
       ClientFinalUnexpected, AbortInMessage, FinishSync, EndIdle, control, TypeOK
  <2>2. SUFFICES ASSUME p = Client PROVE syncState'[Client] \in ErrorStates
    BY <1>1, <2>1
  <2>3. CASE InitiateClientSync \/ HandleClientAlert \/ HandleClientSync
    <3>1. syncState'[Client] = syncState[Client] \/ syncState[Client] \in ProgressStates
                                                 \/ syncState[Client] = "NOT_PREPARED"
      BY <1>1, <2>3 DEF InitiateClientSync, HandleClientAlert, HandleClientSync, control,
         ClientMayAcknowledge, ClientAcceptsSync, ProgressStates, InitStates, ExchangeStates
    <3> QED
      BY <1>3, <2>2, <3>1
  <2>4. CASE HandleClientFinal
    <3>1. ClientFinalUnexpected
      BY <1>3, <2>2, <2>4 DEF HandleClientFinal, ClientFinalInit, ClientFinalModifications,
         ClientFinalUpdateStatus, ClientFinalLast, ProgressStates, InitStates, ExchangeStates
    <3>2. LastError(Client) \in ErrorStates
      BY <1>3, <2>2 DEF LastError, ErrorStates
    <3> QED
      BY <1>1, <2>2, <3>1, <3>2 DEF ClientFinalUnexpected, AbortInMessage, control, TypeOK
  <2>5. CASE EndOfClientMessage
    <3>1. ~ClientIsDone
      BY <1>3, <2>2 DEF ClientIsDone, ProgressStates, ExchangeStates
    <3> QED
      BY <2>2, <2>5, <3>1 DEF EndOfClientMessage, EndIdle, control
  <2> QED
    BY <1>5, <2>3, <2>4, <2>5 DEF ClientStep
<1>6. CASE ServerStep
  <2>1. syncState'[Client] = syncState[Client] \/ p # Client
    BY <1>1, <1>6 DEF ServerStep, InitiateServerSync, HandleServerAlert, HandleServerSync,
       HandleServerMap, AcceptMap, RejectMap, HandleServerFinal, EndOfServerMessage,
       SetSyncState, ServerFinalInit, ServerFinalModifications, ServerFinalLast,
       ServerFinalEarly, ServerFinalUnexpected, AbortInMessage, SendLast, FinishSync, EndIdle,
       control, TypeOK
  <2>2. SUFFICES ASSUME p = Server PROVE syncState'[Server] \in ErrorStates
    BY <1>1, <2>1
  <2>3. CASE InitiateServerSync \/ HandleServerAlert \/ HandleServerSync \/ HandleServerMap
    <3>1. syncState'[Server] = syncState[Server] \/ syncState[Server] \in ProgressStates
                                                 \/ syncState[Server] = "NOT_PREPARED"
      BY <1>1, <2>3 DEF InitiateServerSync, HandleServerAlert, HandleServerSync, control,
         HandleServerMap, AcceptMap, RejectMap,
         ServerAcceptsSync, SyncInInit, ProgressStates, InitStates, ExchangeStates
    <3> QED
      BY <1>3, <2>2, <3>1
  <2>4. CASE HandleServerFinal
    <3>1. ServerFinalUnexpected
      BY <1>3, <2>2, <2>4 DEF HandleServerFinal, ServerFinalInit, ServerFinalModifications,
         ServerFinalLast, ServerFinalEarly, ProgressStates, InitStates, ExchangeStates
    <3>2. LastError(Server) \in ErrorStates
      BY <1>3, <2>2 DEF LastError, ErrorStates
    <3> QED
      BY <1>1, <2>2, <3>1, <3>2 DEF ServerFinalUnexpected, AbortInMessage, control, TypeOK
  <2>5. CASE EndOfServerMessage
    <3>1. syncState[Server] # "FINALIZING"
      BY <1>3, <2>2 DEF ProgressStates, ExchangeStates
    <3> QED
      BY <2>2, <2>5, <3>1 DEF EndOfServerMessage, SendLast, EndIdle, control
  <2> QED
    BY <1>6, <2>3, <2>4, <2>5 DEF ServerStep
<1>7. CASE Environment
  <2>1. UNCHANGED control
    BY <1>7, OnlyLost DEF LoseMessage
  <2> QED
    BY <2>1 DEF control
<1> QED
  BY <1>4, <1>5, <1>6, <1>7 DEF Next, Progress

-----------------------------------------------------------------------------
(***************************************************************************)
(* What the handlers of fragments do to targets and queues.                *)
(***************************************************************************)
\* Each target stays or gives way to another
LEMMA LooksMove ==
    ASSUME NEW p, NEW f, targets'[p] = f, changeLog'[p] = changeLog[p],
           DOMAIN f = DOMAIN targets[p]
    PROVE  \A x \in Looks(p)' :
              \/ x \in Looks(p)
              \/ \E i \in DOMAIN targets[p] :
                    x = Look(f[i]) /\ Look(targets[p][i]) \in Looks(p)
<1>1. SavedTargets(p)' = SavedTargets(p)
  BY DEF SavedTargets
<1>2. Looks(p)' = {Look(t) : t \in Range(f) \cup SavedTargets(p)}
  BY <1>1 DEF Looks, Kept, Look
<1>3. \A i \in DOMAIN targets[p] : Look(targets[p][i]) \in Looks(p)
  BY DEF Looks, Kept, Range
<1>4. \A t \in SavedTargets(p) : Look(t) \in Looks(p)
  BY DEF Looks, Kept
<1> QED
  BY <1>2, <1>3, <1>4 DEF Range

\* Items that are committed, or not, leave mode and anchors alone
LEMMA CommitLooks ==
    ASSUME TypeOK, NEW p \in Party, NEW accepted, HandleSyncElement(p, accepted),
           changeLog' = changeLog
    PROVE  \A q \in Party : Looks(q)' = Looks(q)
<1> DEFINE sync == Head(fragments[p])
           f == [i \in DOMAIN targets[p] |->
                    IF targets[p][i].db = sync.db
                    THEN [DiscoverLocalChanges(p, targets[p][i]) EXCEPT !.mapped = @ \o sync.items]
                    ELSE targets[p][i]]
<1>1. targets' = targets \/ targets' = [targets EXCEPT ![p] = f]
  BY DEF HandleSyncElement, RejectSync, CommitSync, WithTarget, TypeOK
<1>2. targets[p] \in Seq(Target)
  BY DEF TypeOK
<1>3. ASSUME NEW t \in Target
      PROVE  Look([DiscoverLocalChanges(p, t) EXCEPT !.mapped = @ \o sync.items]) = Look(t)
  BY DEF DiscoverLocalChanges, Look, Target
<1>4. \A i \in DOMAIN targets[p] : targets[p][i] \in Target
  BY ElementType
<1>5. DOMAIN f = DOMAIN targets[p] /\ \A i \in DOMAIN targets[p] : Look(f[i]) = Look(targets[p][i])
  BY <1>3, <1>4
<1> HIDE DEF f
<1>6. CASE targets' = targets
  BY <1>6, SameLooks
<1>7. CASE targets' = [targets EXCEPT ![p] = f]
  <2>1. targets'[p] = f /\ \A q \in Party \ {p} : targets'[q] = targets[q]
    BY <1>7 DEF TypeOK
  <2>2. Looks(p)' = Looks(p)
    BY <1>2, <1>5, <2>1, LooksKept
  <2> QED
    BY <2>1, <2>2, SameLooks
<1> QED
  BY <1>1, <1>6, <1>7

LEMMA SyncStatuses ==
    ASSUME TypeOK, NEW p \in Party, Reading(p, "Sync"), NEW accepted,
           HandleSyncElement(p, accepted)
    PROVE  \E new \in Seq(Plainly) : AddStatuses(p, new)
<1> DEFINE sync == Head(fragments[p])
<1>1. sync.db \in Db /\ sync.items \in Seq(Item)
  BY KindType
<1>2. PICK code \in Responses : AddStatuses(p, ItemStatuses(sync, code))
  BY DEF HandleSyncElement, RejectSync, CommitSync, Responses
<1> HIDE DEF sync
<1> QED
  BY <1>1, <1>2, PlainItems

\* A queue that is added to
LEMMA QueueGrows ==
    ASSUME NEW S, NEW q \in Seq(S), NEW t \in Seq(S), NoAlerts(t)
    PROVE  /\ AlertsAhead(q) => AlertsAhead(q \o t)
           /\ NoAlerts(q) => NoAlerts(q \o t)
           /\ \A db : AlertFor(q, db) => AlertFor(q \o t, db)
           /\ \A G : (q \in Seq(G) /\ t \in Seq(G)) => q \o t \in Seq(G)
<1>1. \A G : (q \in Seq(G) /\ t \in Seq(G)) => q \o t \in Seq(G)
  BY ConcatProperties
<1> QED
  BY <1>1, JoinAlerts

-----------------------------------------------------------------------------
(***************************************************************************)
(* The fragments of a client.                                              *)
(***************************************************************************)
LEMMA ClientPlainTogether ==
    ASSUME TypeOK, Turns, Together,
           HandleHeader(Client) \/ HandleResults(Client) \/ HandleNextMessageAlert(Client)
           \/ HandleFinalElement(Client)
    PROVE  Together'
<1>1. Client \in Party /\ Server \in Party /\ Client # Server
  BY TwoParties
<1>2. PICK kind : /\ Reading(Client, kind) /\ kind \in {"Header", "Results", "Alert", "Final"}
                  /\ kind = "Alert" => Head(fragments[Client]).code = NEXT_MESSAGE
                  /\ last' = last \/ (kind = "Final" /\ last' = [last EXCEPT ![Client] = TRUE])
  BY DEF HandleHeader, HandleResults, HandleNextMessageAlert, HandleFinalElement, Consume
<1>3. /\ UNCHANGED <<cfg, control, syncWithoutInit, packages, targets, storage, link, processing>>
      /\ fragments' = [fragments EXCEPT ![Client] = Tail(@)]
      /\ remoteInf'[Server] = remoteInf[Server]
  BY <1>1 DEF HandleHeader, HandleResults, HandleNextMessageAlert, HandleFinalElement, Consume,
              peer, TypeOK
<1>4. SameServer /\ SameTold
  BY <1>3, ServerUntouched DEF control, SameTold, SameConfig
<1>5. last' \in [Party -> BOOLEAN] /\ last'[Server] = last[Server]
  BY <1>1, <1>2 DEF TypeOK
<1>6. /\ fragments[Client] \in Seq(Fragment) /\ fragments[Client] # <<>>
      /\ Head(fragments[Client]).kind = kind
      /\ ClientReads(fragments[Client])
      /\ (lastC <=> last[Client]) /\ (lastC' <=> last'[Client])
  BY <1>2, <1>3, <1>4, <1>5, ClientFragment
<1>7. statuses'[Server] = statuses[Server] /\ ca' \in Seq(ForServer)
  <2>1. statuses' = statuses \/ \E new \in Seq(Plainly) : AddStatuses(Client, new)
    <3>1. CASE HandleHeader(Client)
      BY <3>1, PlainStatus DEF HandleHeader, Commands, Responses
    <3>2. CASE HandleResults(Client)
      BY <3>2, PlainStatus DEF HandleResults, Commands, Responses
    <3>3. CASE HandleNextMessageAlert(Client)
      <4>1. Head(fragments[Client]).db \in Db /\ Reading(Client, "Alert")
        BY <1>1, <3>3, KindType DEF HandleNextMessageAlert
      <4> QED
        BY <3>3, <4>1, PlainStatus DEF HandleNextMessageAlert, Commands, Responses
    <3>4. CASE HandleFinalElement(Client)
      BY <3>4 DEF HandleFinalElement
    <3> QED
      BY <3>1, <3>2, <3>3, <3>4
  <2>2. ca \in Seq(ForServer) /\ Plainly \subseteq ForServer
    BY NeutralTells DEF Together, ToldToServer
  <2>3. CASE statuses' = statuses
    BY <2>2, <2>3 DEF ca
  <2>4. CASE \E new \in Seq(Plainly) : AddStatuses(Client, new)
    BY <1>1, <2>2, <2>4, StatusesTell DEF ca
  <2> QED
    BY <2>1, <2>3, <2>4
<1>8. ct' = ct /\ ServerKeeps
  BY <1>3, <1>7, SameLooks, ServerKept DEF ct, storage
<1>9. cs' = cs /\ cq' = cq /\ (lastC' => lastC \/ Speaks(Head(fragments[Client])))
  BY <1>1, <1>2, <1>3, <1>6 DEF cs, cq, control, Speaks, TypeOK
<1>10. ~Announces(Head(fragments[Client]))
  BY <1>2, <1>6 DEF Announces, SyncCodes, NEXT_MESSAGE
<1> QED
  BY <1>4, <1>6, <1>7, <1>8, <1>9, <1>10, ClientHearsOn

LEMMA ClientStatusTogether ==
    ASSUME TypeOK, Turns, Together, HandleStatus(Client)
    PROVE  Together'
<1> DEFINE m == fragments[Client]
           db == Head(m).db
           old == targets[Client]
           f == [i \in DOMAIN old |-> IF old[i].db = db THEN RevertSyncMode(old[i]) ELSE old[i]]
<1>1. Client \in Party /\ Server \in Party /\ Client # Server
  BY TwoParties
<1>2. /\ UNCHANGED <<cfg, control, syncWithoutInit, remoteInf, statuses, packages, storage, link>>
      /\ Consume(Client) /\ Reading(Client, "Status")
  BY DEF HandleStatus
<1>3. \/ targets' = targets
      \/ targets' = [targets EXCEPT ![Client] = f] /\ Refreshes(Head(m))
  BY <1>1, <1>2 DEF HandleStatus, WithTarget, TypeOK, Refreshes, Reading
<1>4. targets'[Server] = targets[Server]
  BY <1>1, <1>3 DEF TypeOK
<1>5. SameServer /\ SameTold
  BY <1>2, <1>4, ServerUntouched DEF control, SameTold, SameConfig
<1>6. /\ m \in Seq(Fragment) /\ m # <<>> /\ Head(m).kind = "Status" /\ ClientReads(m)
      /\ (lastC <=> last[Client]) /\ (lastC' <=> last'[Client])
  BY <1>2, <1>5, ClientFragment DEF Consume, TypeOK
<1>7. ca' \in Seq(ForServer) /\ ServerKeeps
  BY <1>2, <1>4, ServerKept DEF ca, storage, Together, ToldToServer
<1>8. cs' = cs /\ cq' = cq /\ (lastC' => lastC) /\ ~Announces(Head(m))
  BY <1>2, <1>6 DEF cs, cq, control, Consume, Announces
<1>9. \A i \in DOMAIN old : old[i] \in Target
  BY <1>1, ElementType
<1>10. \A x \in ct' : x \in ct \/ \E y \in ct : /\ cs \notin Unready /\ x.db = y.db
                                                 /\ x.anchored = y.anchored
                                                 /\ y.mode # ModeAtServer(y.db)
  <2>1. CASE targets' = targets
    BY <1>2, <2>1, SameLooks DEF ct, storage
  <2>2. CASE targets' = [targets EXCEPT ![Client] = f] /\ Refreshes(Head(m))
    <3>1. m \in toC
      BY <1>6 DEF ClientReads
    <3>2. cs \notin Unready /\ RefreshRequired(Alert(FirstCode, db))
      <4>1. cs \in Unready => Head(m) \in ForNewClient
        BY <1>6, <3>1, LeftOver DEF Together, ToldToClient
      <4>2. cs \notin Unready => Head(m) \in ForClient
        BY <1>6, <3>1, LeftOver DEF Together, ToldToClient
      <4> QED
        BY <2>2, <4>1, <4>2 DEF ForNewClient, ForClient
    <3>3. targets'[Client] = f /\ changeLog'[Client] = changeLog[Client]
      BY <1>1, <1>2, <2>2 DEF TypeOK, storage
    <3>4. ASSUME NEW i \in DOMAIN old
          PROVE  \/ Look(f[i]) = Look(old[i])
                 \/ /\ Look(f[i]).db = Look(old[i]).db
                    /\ Look(f[i]).anchored = Look(old[i]).anchored
                    /\ Look(old[i]).mode # ModeAtServer(Look(old[i]).db)
      <4>1. CASE old[i].db = db /\ old[i].mode.type = "FAST"
        <5>1. f[i] = [old[i] EXCEPT !.mode = ToSlowSync(@), !.reverted = TRUE]
          BY <4>1 DEF RevertSyncMode
        <5>2. ModeAtServer(db).type # "FAST"
          <6>1. db \in Db
            BY <1>9, <4>1 DEF Target
          <6> QED
            BY <3>2, <6>1, ServerModeShows
        <5>3. Look(old[i]).mode # ModeAtServer(Look(old[i]).db)
          BY <4>1, <5>2 DEF Look
        <5>4. f[i].db = old[i].db /\ f[i].anchored = old[i].anchored
          BY <1>9, <5>1 DEF Target
        <5> QED
          BY <5>3, <5>4 DEF Look
      <4>2. CASE ~(old[i].db = db /\ old[i].mode.type = "FAST")
        BY <4>2 DEF RevertSyncMode
      <4> QED
        BY <4>1, <4>2
    <3>5. DOMAIN f = DOMAIN old
      OBVIOUS
    <3> HIDE DEF f, m
    <3>6. \A x \in ct' : \/ x \in ct
                         \/ \E i \in DOMAIN old : x = Look(f[i]) /\ Look(old[i]) \in ct
      BY <3>3, <3>5, LooksMove DEF ct
    <3> QED
      BY <3>2, <3>4, <3>6
  <2> QED
    BY <1>3, <2>1, <2>2
<1> HIDE DEF m
<1> QED
  BY <1>5, <1>6, <1>7, <1>8, <1>10, ClientHearsOn

LEMMA ClientAlertTogether ==
    ASSUME TypeOK, EndsOnce, Turns, Ordered, Together, HandleClientAlert
    PROVE  Together'
<1> DEFINE m == fragments[Client]
           alert == Head(m)
           old == targets[Client]
<1>1. Client \in Party /\ Server \in Party /\ Client # Server
  BY TwoParties
<1>2. /\ UNCHANGED <<cfg, syncWithoutInit, peer, packages, storage, link>> /\ Consume(Client)
      /\ Reading(Client, "Alert") /\ alert.code \in SyncCodes
  BY DEF HandleClientAlert
<1>3. /\ targets'[Server] = targets[Server]
      /\ UNCHANGED control \/ SetSyncState(Client, "REMOTE_INIT")
  BY <1>1 DEF HandleClientAlert, SetupTargetByServer, AcknowledgeTargetOfClient, WithTarget, TypeOK
<1>4. syncState'[Server] = syncState[Server] /\ sessionClosed' = sessionClosed
  BY <1>1, <1>3 DEF control, SetSyncState, TypeOK
<1>5. SameServer /\ SameTold
  BY <1>2, <1>3, <1>4, ServerUntouched DEF SameTold, SameConfig, peer
<1>6. /\ m \in Seq(Fragment) /\ m # <<>> /\ alert.kind = "Alert" /\ ClientReads(m)
      /\ (lastC <=> last[Client]) /\ (lastC' <=> last'[Client])
  BY <1>2, <1>5, ClientFragment DEF Consume, TypeOK
<1>7. (lastC' => lastC) /\ cq' = cq /\ Announces(alert) /\ alert.db \in Db
  BY <1>1, <1>2, <1>6, KindType DEF Consume, cq, Announces
<1>8. statuses'[Server] = statuses[Server] /\ ca' \in Seq(ForServer)
  <2>1. \E code \in Responses \ {"REFRESH_REQUIRED"} :
            AddStatuses(Client, <<StatusOf("Alert", alert.db, code)>>)
    BY DEF HandleClientAlert, SetupTargetByServer, AcknowledgeTargetOfClient, Responses
  <2>2. \E new \in Seq(Plainly) : AddStatuses(Client, new)
    BY <1>7, <2>1, PlainStatus DEF Commands
  <2>3. ca \in Seq(ForServer) /\ Plainly \subseteq ForServer
    BY NeutralTells DEF Together, ToldToServer
  <2> QED
    BY <1>1, <2>2, <2>3, StatusesTell DEF ca
<1>9. ServerKeeps
  BY <1>2, <1>3, <1>8, ServerKept DEF storage
<1>10. old \in Seq(Target) /\ changeLog'[Client] = changeLog[Client]
  BY <1>1, <1>2 DEF TypeOK, storage
<1>11. Listening <=> ClientMayAcknowledge
  BY DEF Listening, ClientMayAcknowledge, cs, cw
<1>12. CASE syncState[Client] = "PREPARED" /\ SetupTargetByServer(alert) /\ UNCHANGED control
  <2> DEFINE t == NewTarget(alert.db, ToClientInitiated(ModeOf(alert.code)))
  <2>1. cs = "PREPARED" /\ cs' = cs
    BY <1>12 DEF cs, control
  <2>2. alert.code = ToSyncMLCode(cfg.mode) /\ ~cinit
    <3>1. cs \in Unready /\ m \in toC
      BY <1>6, <2>1 DEF Unready, ClientReads
    <3>2. alert \in ForNewClient
      BY <1>6, <3>1, LeftOver DEF Together, ToldToClient
    <3> QED
      BY <1>7, <2>1, <3>2 DEF ForNewClient, Together, ClientTargets
  <2>3. ToClientInitiated(ModeOf(alert.code)) = FirstMode /\ FirstMode \in AlertMode
    BY <2>2, FirstModeType DEF FirstMode
  <2>4. t \in Target /\ t.mode = FirstMode /\ t.anchored = FALSE
    BY <1>7, <2>3, NewTargetType DEF NewTarget
  <2>5. targets'[Client] = Append(old, t)
    BY <1>1, <1>12 DEF SetupTargetByServer, TypeOK
  <2> HIDE DEF t
  <2>6. ct' = ct \cup {Look(t)}
    BY <1>10, <2>4, <2>5, LooksGrow DEF ct
  <2>7. Look(t).mode = FirstMode /\ ~Look(t).anchored
    BY <2>4 DEF Look
  <2>8. ~Listening
    BY <2>1 DEF Listening
  <2> HIDE DEF m
  <2> QED
    BY <1>5, <1>6, <1>7, <1>8, <1>9, <2>1, <2>6, <2>7, <2>8, ClientHearsOn
<1>13. CASE ClientMayAcknowledge /\ AcknowledgeTargetOfClient(alert)
            /\ SetSyncState(Client, "REMOTE_INIT")
  <2> DEFINE mode == ModeOf(alert.code)
             f == [i \in DOMAIN old |-> IF old[i].db = alert.db
                                        THEN AcknowledgedByClient(old[i], mode) ELSE old[i]]
  <2>1. targets'[Client] = f
    BY <1>1, <1>13 DEF AcknowledgeTargetOfClient, WithTarget, TypeOK
  <2>2. changeLog[Client] = <<>>
    <3>1. syncState[Client] # "SYNC_FINISHED"
      BY <1>13 DEF ClientMayAcknowledge
    <3>2. Len(changeLog[Client]) = 0 /\ changeLog[Client] \in Seq(Seq(Target))
      BY <1>1, <3>1 DEF EndsOnce, TypeOK
    <3> QED
      BY <3>2, EmptySeq
  <2>3. \A i \in DOMAIN old : old[i] \in Target
    BY <1>1, ElementType
  <2>4. ASSUME NEW t \in Target
        PROVE  LET a == AcknowledgedByClient(t, mode)
               IN  a.db = t.db /\ a.mode = mode /\ a.anchored
    BY DEF AcknowledgedByClient, RevertSyncMode, Target
  <2>5. ASSUME NEW i \in DOMAIN old
        PROVE  /\ Look(f[i]).db = Look(old[i]).db
               /\ \/ Look(old[i]).db # alert.db /\ Look(f[i]) = Look(old[i])
                  \/ Look(old[i]).db = alert.db /\ Look(f[i]).anchored /\ Look(f[i]).mode = mode
    BY <2>3, <2>4 DEF Look
  <2>6. DOMAIN f = DOMAIN old
    OBVIOUS
  <2> HIDE DEF f
  <2>7. \A x \in ct' : \E i \in DOMAIN old : x = Look(f[i]) /\ Look(old[i]) \in ct
    BY <1>10, <2>1, <2>2, <2>6, LooksChange DEF ct
  <2>8. \A x \in ct' : \E y \in ct :
            /\ x.db = y.db
            /\ \/ y.db # alert.db /\ x = y
               \/ y.db = alert.db /\ x.anchored /\ x.mode = ModeOf(alert.code)
    BY <2>5, <2>7
  <2>9. cs' = "REMOTE_INIT"
    BY <1>1, <1>13 DEF SetSyncState, TypeOK, cs
  <2> HIDE DEF m
  <2> QED
    BY <1>5, <1>6, <1>7, <1>8, <1>9, <1>11, <1>13, <2>8, <2>9, ClientHearsAlert
<1>14. CASE ~ClientMayAcknowledge /\ UNCHANGED <<control, targets>>
  <2>1. cs' = cs /\ ct' = ct
    BY <1>10, <1>14, SameLooks DEF cs, ct, control
  <2> HIDE DEF m
  <2> QED
    BY <1>5, <1>6, <1>7, <1>8, <1>9, <1>11, <1>14, <2>1, ClientHearsOn
<1> QED
  BY <1>12, <1>13, <1>14 DEF HandleClientAlert

LEMMA ClientSyncTogether ==
    ASSUME TypeOK, Turns, Ordered, Together, HandleClientSync
    PROVE  Together'
<1> DEFINE m == fragments[Client]
           sync == Head(m)
<1>1. Client \in Party /\ Server \in Party /\ Client # Server
  BY TwoParties
<1>2. /\ UNCHANGED <<cfg, syncWithoutInit, peer, changeLog, link>> /\ Consume(Client)
      /\ Reading(Client, "Sync") /\ HandleSyncElement(Client, ClientAcceptsSync)
  BY DEF HandleClientSync
<1>3. /\ packages' = packages \/ AddPackages(Client, <<Mappings(sync.db, sync.items)>>)
      /\ targets'[Server] = targets[Server]
      /\ ~ClientAcceptsSync => packages' = packages
  BY <1>1, <1>2 DEF HandleSyncElement, RejectSync, CommitSync, WithTarget, TypeOK
<1>4. /\ syncState'[Server] = syncState[Server] /\ sessionClosed' = sessionClosed
      /\ packages'[Server] = packages[Server]
  BY <1>1, <1>3 DEF HandleClientSync, control, SetSyncState, TypeOK, AddPackages
<1>5. SameServer /\ SameTold
  BY <1>2, <1>3, <1>4, ServerUntouched DEF SameTold, SameConfig, peer
<1>6. /\ m \in Seq(Fragment) /\ m # <<>> /\ sync.kind = "Sync" /\ ClientReads(m)
      /\ (lastC <=> last[Client]) /\ (lastC' <=> last'[Client])
  BY <1>2, <1>5, ClientFragment DEF Consume, TypeOK
<1>7. lastC' => lastC
  BY <1>2, <1>6 DEF Consume
<1>8. statuses'[Server] = statuses[Server] /\ ca' \in Seq(ForServer)
  <2>1. \E new \in Seq(Plainly) : AddStatuses(Client, new)
    BY <1>1, <1>2, SyncStatuses
  <2>2. ca \in Seq(ForServer) /\ Plainly \subseteq ForServer
    BY NeutralTells DEF Together, ToldToServer
  <2> QED
    BY <1>1, <2>1, <2>2, StatusesTell DEF ca
<1>9. ct' = ct /\ ServerKeeps
  BY <1>1, <1>2, <1>3, <1>8, CommitLooks, ServerKept DEF ct
<1>10. CASE ClientAcceptsSync
  <2>1. cs' = "RECEIVING_ITEMS" /\ cs \notin Unready
    BY <1>1, <1>10 DEF HandleClientSync, SetSyncState, cs, TypeOK, ClientAcceptsSync, Unready
  <2>2. cq \in Seq(Package) /\ cq \in Seq(ForServer)
    BY <1>1 DEF Together, ToldToServer, TypeOK, cq
  <2>3. /\ cq' \in Seq(ForServer) /\ (AlertsAhead(cq) => AlertsAhead(cq'))
        /\ NoAlerts(cq) => NoAlerts(cq')
    <3>1. CASE packages' = packages
      BY <2>2, <3>1 DEF cq
    <3>2. CASE AddPackages(Client, <<Mappings(sync.db, sync.items)>>)
      <4> DEFINE x == Mappings(sync.db, sync.items)
                 t == <<x>>
      <4>1. sync.db \in Db /\ sync.items \in Seq(Item)
        BY <1>1, <1>2, KindType
      <4>2. x \in Package /\ x.kind = "Map"
        BY <4>1 DEF Mappings, Package
      <4> HIDE DEF x
      <4>3. x \in ForServer /\ ~Announces(x)
        BY <4>2, NeutralTells DEF Announces
      <4>4. t \in Seq(Package) /\ t \in Seq(ForServer) /\ NoAlerts(t)
        BY <4>2, <4>3 DEF NoAlerts
      <4>5. cq' = cq \o t
        BY <1>1, <3>2 DEF AddPackages, cq, TypeOK, x
      <4> HIDE DEF t
      <4> QED
        BY <2>2, <4>4, <4>5, QueueGrows
    <3> QED
      BY <1>3, <3>1, <3>2
  <2> HIDE DEF m
  <2> QED
    BY <1>5, <1>6, <1>7, <1>8, <1>9, <2>1, <2>3, ClientHearsSync
<1>11. CASE ~ClientAcceptsSync
  <2>1. cs' = cs /\ cq' = cq /\ ~Announces(Head(m))
    BY <1>3, <1>6, <1>11 DEF HandleClientSync, control, cs, cq, Announces
  <2> HIDE DEF m
  <2> QED
    BY <1>5, <1>6, <1>7, <1>8, <1>9, <2>1, ClientHearsOn
<1> QED
  BY <1>10, <1>11
-----------------------------------------------------------------------------
(***************************************************************************)
(* The client begins.                                                      *)
(***************************************************************************)
\* The initialization of a client: alerts of all its targets, ahead of changes
LEMMA InitializationTells ==
    ASSUME TypeOK, NEW tgts \in Seq(Target), NEW noInit \in BOOLEAN,
           \A i \in DOMAIN tgts : tgts[i].mode = FirstMode,
           NEW u, u = InitializationPackages(tgts, noInit)
    PROVE  /\ u \in Seq(ForServer) /\ AlertsAhead(u)
           /\ \A i \in DOMAIN tgts : AlertFor(u, tgts[i].db)
           /\ \E s, t \in Seq(Package) :
                 /\ u = s \o t /\ ~Has(t, "Alert")
                 /\ \A i \in DOMAIN s : s[i].kind \in {"PutGet", "Alert"}
<1> DEFINE d == <<DevInf>>
           a == InitializationAlerts(tgts)
           c == IF noInit THEN LocalChangesPackages(tgts) ELSE <<>>
           f == <<FinalPackage>>
           s == d \o a
           t == c \o f
<1>1. /\ d \in Seq(Package) /\ DOMAIN d = {1} /\ d[1].kind = "PutGet"
  BY DEF DevInf, Package
<1>2. /\ a \in Seq(Package) /\ DOMAIN a = DOMAIN tgts
      /\ \A i \in DOMAIN a : a[i].kind = "Alert"
  BY AlertsOf
<1>3. \A i \in DOMAIN a : Announces(a[i]) /\ a[i].code = FirstCode /\ a[i].db = tgts[i].db
  <2>1. FirstCode \in SyncCodes
    BY FirstModeType
  <2>2. \A i \in DOMAIN a : a[i] = Alert(FirstCode, tgts[i].db)
    BY <1>2 DEF InitializationAlerts, FirstCode
  <2> HIDE DEF a
  <2> QED
    BY <2>1, <2>2 DEF Alert, Announces
<1>4. c \in Seq(Package) /\ \A kind : Has(c, kind) => kind = "Sync"
  BY ChangesOf, EmptyShows
<1>5. u = (s \o c) \o f /\ f \in Seq(Package) /\ \A kind : Has(f, kind) <=> kind = "Final"
  BY FinalType, FinalShows DEF InitializationPackages
<1> HIDE DEF d, a, c, f
<1>6. s \in Seq(Package) /\ t \in Seq(Package) /\ u = s \o t /\ u \in Seq(Package)
  <2>1. s \in Seq(Package) /\ t \in Seq(Package)
    BY <1>1, <1>2, <1>4, <1>5, ConcatProperties
  <2> HIDE DEF s
  <2>2. u = s \o t
    BY <1>4, <1>5, <2>1, ConcatAssociative
  <2> QED
    BY <2>1, <2>2, ConcatProperties
<1>7. \A kind : Has(s, kind) => kind \in {"PutGet", "Alert"}
  <2>1. \A kind : Has(s, kind) <=> Has(d, kind) \/ Has(a, kind)
    BY <1>1, <1>2, JoinShows
  <2> QED
    BY <1>1, <1>2, <2>1 DEF Has
<1>8. \A kind : Has(t, kind) => kind \in {"Sync", "Final"}
  <2>1. \A kind : Has(t, kind) <=> Has(c, kind) \/ Has(f, kind)
    BY <1>4, <1>5, JoinShows
  <2> QED
    BY <1>4, <1>5, <2>1
<1>9. \A i \in DOMAIN tgts : AlertFor(s, tgts[i].db)
  <2>1. \A db : AlertFor(d, db) \/ AlertFor(a, db) => AlertFor(s, db)
    BY <1>1, <1>2, JoinAlerts
  <2> QED
    BY <1>2, <1>3, <2>1 DEF AlertFor
<1> HIDE DEF s, t
<1>10. /\ (~Speaking(s) /\ AlertsAhead(t)) => AlertsAhead(u)
       /\ \A db : AlertFor(s, db) \/ AlertFor(t, db) => AlertFor(u, db)
  BY <1>6, JoinAlerts
<1>11. ~Speaking(s) /\ NoAlerts(t) /\ AlertsAhead(t)
  <2>1. ~Speaking(s)
    BY <1>7 DEF Speaking, Speaks, Has
  <2>2. NoAlerts(t)
    BY <1>8 DEF NoAlerts, Announces, Has
  <2> QED
    BY <2>1, <2>2, NoneFor
<1>12. u \in Seq(ForServer)
  <2>1. \A i \in DOMAIN s : Announces(s[i]) => s[i].code = FirstCode
    <3>1. /\ Len(d) \in Nat /\ Len(d \o a) = Len(d) + Len(a)
          /\ \A i \in DOMAIN d : i \in 1..Len(d) /\ i \in DOMAIN (d \o a) /\ (d \o a)[i] = d[i]
          /\ \A j \in DOMAIN a : /\ j \in 1..Len(a) /\ Len(d) + j \in DOMAIN (d \o a)
                                /\ (d \o a)[Len(d) + j] = a[j]
          /\ \A i \in DOMAIN (d \o a) : i \in DOMAIN d \/ \E j \in DOMAIN a : i = Len(d) + j
      <4>1. d \in Seq(Package) /\ a \in Seq(Package)
        BY <1>1, <1>2
      <4> QED
        BY <4>1, JoinPlaces
    <3>2. s = d \o a
      BY DEF s
    <3> QED
      BY <1>1, <1>3, <3>1, <3>2 DEF Announces
  <2>2. \A i \in DOMAIN s : s[i] \in Package
    BY <1>6, InAll
  <2>3. \A x \in Package : x \in Fragment /\ x.kind # "Status"
    BY DEF Package, Fragment
  <2>4. \A i \in DOMAIN s : s[i].kind # "Results"
    BY <1>7 DEF Has
  <2>5. \A i \in DOMAIN s : s[i] \in ForServer
    BY <2>1, <2>2, <2>3, <2>4 DEF ForServer, Refreshes
  <2>6. \A i \in DOMAIN t : t[i] \in Package /\ t[i].kind # "Results" /\ ~Announces(t[i])
    BY <1>6, <1>8, <1>11, InAll DEF NoAlerts, Has
  <2>7. \A i \in DOMAIN t : t[i] \in ForServer
    BY <2>3, <2>6 DEF ForServer, Refreshes
  <2>8. s \in Seq(ForServer) /\ t \in Seq(ForServer)
    BY <1>6, <2>5, <2>7, AllIn
  <2> QED
    BY <1>6, <2>8, ConcatProperties
<1>13. /\ u = s \o t /\ ~Has(t, "Alert")
       /\ \A i \in DOMAIN s : s[i].kind \in {"PutGet", "Alert"}
  BY <1>6, <1>7, <1>8 DEF Has
<1> QED
  BY <1>6, <1>9, <1>10, <1>11, <1>12, <1>13

\* A first message that has room for them leaves no alert behind
LEMMA FirstLeft ==
    ASSUME NEW s \in Seq(Package), NEW t \in Seq(Package),
           \A i \in DOMAIN s : s[i].kind \in {"PutGet", "Alert"}, ~Has(t, "Alert"),
           cfg.fillers \cap {"PutGet", "Alert"} = {}, NEW cut \in Cuts(s \o t, TRUE)
    PROVE  NoAlerts(cut.left)
<1> DEFINE a == Len(s)
           b == Len(t)
           u == s \o t
           c == cut.left
           n == Len(u)
<1>1. /\ a \in Nat /\ n = a + b
      /\ \A i \in DOMAIN s : i \in 1..a /\ u[i] = s[i]
      /\ \A j \in DOMAIN t : j \in 1..b /\ a + j \in DOMAIN u /\ u[a + j] = t[j]
      /\ \A i \in DOMAIN u : i \in DOMAIN s \/ \E j \in DOMAIN t : i = a + j
  BY JoinPlaces
<1>2. u \in Seq(Package)
  BY ConcatProperties
<1>3. b \in Nat /\ DOMAIN t = 1..b /\ DOMAIN u = 1..n /\ DOMAIN s = 1..a
  BY <1>2, LenProperties
<1>4. PICK w \in 0..n, o \in Nat : CutIs(u, cut, w, o) /\ MayStop(u, w, o)
  BY <1>2, CutPlaces DEF u
<1>5. /\ o = w \/ o + 1 = w
      /\ DOMAIN c = 1..(n - o)
      /\ \A j \in 1..(n - o) : c[j].kind = u[o + j].kind
      /\ o + 1 = w => u[w].kind \in {"Sync", "Map"}
  BY <1>4 DEF CutIs
<1>6. (w = n /\ o = w) \/ (w # 0 /\ u[w].kind \in cfg.fillers \cup {"Sync", "Map"})
  BY <1>4 DEF MayStop, n
<1> HIDE DEF a, b, c, n, u
<1>7. o >= a
  <2>1. CASE w = n /\ o = w
    BY <1>1, <1>3, <2>1
  <2>2. CASE w # 0 /\ u[w].kind \in cfg.fillers \cup {"Sync", "Map"}
    <3>1. ASSUME w \in 1..a PROVE FALSE
      <4>1. u[w] = s[w] /\ w \in DOMAIN s
        BY <1>1, <1>3, <3>1
      <4>2. u[w].kind \in {"PutGet", "Alert"}
        BY <4>1
      <4> QED
        BY <2>2, <4>2
    <3> QED
      BY <1>1, <1>3, <1>5, <2>2, <3>1
  <2> QED
    BY <1>6, <2>1, <2>2
<1>8. ASSUME NEW i \in DOMAIN c, Announces(c[i])
      PROVE  FALSE
  <2>1. i \in 1..(n - o) /\ u[o + i].kind = "Alert"
    BY <1>5, <1>8 DEF Announces
  <2>2. o + i \in DOMAIN u /\ o + i > a
    BY <1>1, <1>3, <1>7, <2>1
  <2>3. PICK j \in DOMAIN t : o + i = a + j
    BY <1>1, <1>3, <2>2
  <2>4. t[j].kind = "Alert"
    BY <1>1, <2>1, <2>3
  <2> QED
    BY <2>4 DEF Has
<1> QED
  BY <1>8 DEF NoAlerts, c

\* The targets of a client that initiates
LEMMA FirstModes ==
    ASSUME TypeOK, cfg.mode.init = Client,
           NEW tgts, tgts = InitialTargets \/ tgts = Discovered(InitialTargets)
    PROVE  \A i \in DOMAIN tgts : tgts[i].mode = FirstMode /\ ~tgts[i].anchored
<1>1. InitialTargets \in Seq(Target)
  BY InitialTargetsType
<1>2. \A i \in DOMAIN InitialTargets : InitialTargets[i] \in Target
  BY <1>1, ElementOfSeq, LenProperties
<1>3. \A i \in DOMAIN InitialTargets :
         InitialTargets[i].mode = FirstMode /\ ~InitialTargets[i].anchored
  BY DEF InitialTargets, NewTarget, FirstMode, cinit
<1> HIDE DEF InitialTargets
<1>4. ASSUME NEW t \in Target
      PROVE  /\ DiscoverLocalChanges(Client, t).mode = t.mode
             /\ DiscoverLocalChanges(Client, t).anchored = t.anchored
  BY DEF DiscoverLocalChanges, Target
<1>5. \A i \in DOMAIN Discovered(InitialTargets) :
          /\ i \in DOMAIN InitialTargets
          /\ Discovered(InitialTargets)[i].mode = InitialTargets[i].mode
          /\ Discovered(InitialTargets)[i].anchored = InitialTargets[i].anchored
  BY <1>2, <1>4 DEF Discovered
<1> QED
  BY <1>3, <1>5

LEMMA NothingLogged ==
    ASSUME TypeOK, EndsOnce, NEW p \in Party, syncState[p] # "SYNC_FINISHED"
    PROVE  changeLog[p] = <<>>
<1>1. Len(changeLog[p]) = 0 /\ changeLog[p] \in Seq(Seq(Target))
  BY DEF EndsOnce, TypeOK
<1> QED
  BY <1>1, EmptySeq

\* What the first message of a session is made of
LEMMA FirstIn ==
    ASSUME TypeOK, NEW p \in Party, NEW pkgs \in Seq(Package), NEW cut \in Cuts(pkgs, TRUE),
           NEW m, m = Top(p, 0) \o cut.written, Generate(p, 0, cut),
           NEW G, Neutral \subseteq G, pkgs \in Seq(G), statuses[p] \in Seq(G)
    PROVE  m \in Seq(G) /\ cut.left \in Seq(G) /\ statuses'[p] \in Seq(G)
<1>1. PICK k \in 0..Len(statuses[p]) : k = 0
  BY LenProperties DEF TypeOK
<1>2. m = Top(p, k) \o cut.written /\ Generate(p, k, cut)
  BY <1>1
<1>3. PICK ample : ample /\ cut \in Cuts(pkgs, ample)
  OBVIOUS
<1>4. /\ m \in Seq(G) /\ cut.left \in Seq(G)
      /\ Generate(p, k, cut) => statuses'[p] \in Seq(G)
  BY <1>2, <1>3, WrittenIn
<1> QED
  BY <1>2, <1>4

LEMMA InitiateClientTogether ==
    ASSUME TypeOK, EndsOnce, Turns, Ordered, Together, FirstPackageWhole, InitiateClientSync
    PROVE  Together'
<1> DEFINE tgts == IF cfg.noInit THEN Discovered(InitialTargets) ELSE InitialTargets
           pkgs == InitializationPackages(tgts, cfg.noInit)
<1>1. /\ cfg.mode.init = Client /\ syncState[Client] = "NOT_PREPARED"
      /\ Client \in Party /\ Server \in Party /\ Client # Server /\ Other(Client) = Server
      /\ cfg.noInit \in BOOLEAN
  BY TwoParties, ConfigType DEF InitiateClientSync
<1>2. tgts \in Seq(Target) /\ \A i \in DOMAIN tgts : tgts[i].mode = FirstMode /\ ~tgts[i].anchored
  BY <1>1, InitialTargetsType, DiscoveredType, FirstModes
<1>3. PICK cut \in Cuts(pkgs, TRUE) :
          /\ Generate(Client, 0, cut)
          /\ packages' = [packages EXCEPT ![Client] = cut.left]
  BY DEF InitiateClientSync
<1>4. /\ syncWithoutInit' = [syncWithoutInit EXCEPT ![Client] = cfg.noInit]
      /\ SetSyncState(Client, IF cfg.noInit THEN "SENDING_ITEMS" ELSE "LOCAL_INIT")
      /\ targets' = [targets EXCEPT ![Client] = tgts]
      /\ Receive(Client)
      /\ UNCHANGED <<cfg, peer, reading, storage, faults>>
  BY DEF InitiateClientSync
<1>5. pkgs = InitializationPackages(tgts, cfg.noInit)
  OBVIOUS
<1> HIDE DEF tgts, pkgs
<1>6. pkgs \in Seq(Package) /\ (~cfg.noInit => ~Has(pkgs, "Sync"))
  BY <1>1, <1>2, <1>5, InitializationShows
<1>7. /\ pkgs \in Seq(ForServer) /\ AlertsAhead(pkgs)
      /\ \A i \in DOMAIN tgts : AlertFor(pkgs, tgts[i].db)
      /\ \E s, t \in Seq(Package) :
            /\ pkgs = s \o t /\ ~Has(t, "Alert")
            /\ \A i \in DOMAIN s : s[i].kind \in {"PutGet", "Alert"}
  BY <1>1, <1>2, <1>5, InitializationTells
<1>8. NoAlerts(cut.left)
  <2>1. cfg.fillers \cap {"PutGet", "Alert"} = {}
    BY DEF FirstPackageWhole
  <2> QED
    BY <1>7, <2>1, FirstLeft
<1>k. PICK k \in 0..Len(statuses[Client]) : k = 0
  BY <1>1, LenProperties DEF TypeOK
<1>m. PICK m : m = Top(Client, k) \o cut.written
  OBVIOUS
<1>t. PICK ample : ample /\ cut \in Cuts(pkgs, ample)
  OBVIOUS
<1>9. cut.written \in Seq(Package)
  BY <1>6, CutsType
<1>10. Passed(pkgs, m, cut.left)
  BY <1>1, <1>6, <1>m, <1>t, WrittenTells
<1>11. /\ m \in Seq(ForServer) /\ cut.left \in Seq(ForServer)
       /\ statuses'[Client] \in Seq(ForServer)
  <2>1. PICK G : G = ForServer
    OBVIOUS
  <2>2. Neutral \subseteq G /\ statuses[Client] \in Seq(G) /\ pkgs \in Seq(G)
    BY <1>7, <2>1, NeutralTells DEF Together, ToldToServer, ca
  <2>3. /\ Client \in Party /\ pkgs \in Seq(Package) /\ cut \in Cuts(pkgs, TRUE)
        /\ m = Top(Client, 0) \o cut.written /\ Generate(Client, 0, cut)
    BY <1>1, <1>3, <1>6, <1>m, <1>k
  <2>4. /\ m \in Seq(G) /\ cut.left \in Seq(G) /\ statuses'[Client] \in Seq(G)
    BY <2>2, <2>3, FirstIn
  <2> QED
    BY <2>1, <2>4
<1>12. \A q \in Party : /\ net[q] = <<>> /\ incoming[q] = <<>> /\ parsed[q] = <<>>
                        /\ ~processing[q]
  BY <1>1, NothingComing DEF Unstarted
<1>13. /\ toC' = {} /\ toS' = {m} /\ ~lastC' /\ ~lastS'
  <2>1. \A q \in Party : ~processing'[q]
    BY <1>4, <1>12 DEF reading
  <2>2. /\ Coming(Client)' = {} /\ Coming(Server)' = {m}
        /\ \A q \in Party : ~LastIn(q)'
    BY <1>1, <1>3, <1>4, <1>9, <1>12, <2>1, <1>m, <1>k, SentView
  <2> QED
    BY <1>1, <2>2 DEF toC, toS, lastC, lastS
<1>14. /\ cs' = IF cfg.noInit THEN "SENDING_ITEMS" ELSE "LOCAL_INIT"
       /\ (cw' <=> cfg.noInit) /\ cq' = cut.left /\ ca' \in Seq(ForServer)
  BY <1>1, <1>3, <1>4, <1>11 DEF cs, cw, cq, ca, SetSyncState, TypeOK
<1>15. SameServer /\ SameTold /\ ServerKeeps
  <2>1. /\ syncState'[Server] = syncState[Server] /\ sessionClosed' = sessionClosed
        /\ packages'[Server] = packages[Server] /\ targets'[Server] = targets[Server]
        /\ syncWithoutInit'[Server] = syncWithoutInit[Server]
    BY <1>1, <1>3, <1>4 DEF SetSyncState, TypeOK
  <2>2. statuses'[Server] = statuses[Server]
    BY <1>1, <1>3 DEF Generate, TypeOK
  <2> QED
    BY <1>4, <2>1, <2>2, ServerUntouched, ServerKept DEF SameTold, SameConfig, peer, storage
<1>16. \A x \in ct' : ~x.anchored /\ AlertFor(m, x.db)
  <2>1. changeLog'[Client] = <<>> /\ targets'[Client] = tgts
    BY <1>1, <1>4, NothingLogged DEF storage, TypeOK
  <2>2. \A x \in ct' : \E i \in DOMAIN tgts : x = Look(tgts[i])
    BY <2>1, LooksSet DEF ct
  <2>3. \A db : AlertFor(pkgs, db) => AlertFor(m, db)
    BY <1>8, <1>10, NoneFor DEF Passed
  <2>4. \A i \in DOMAIN tgts : ~Look(tgts[i]).anchored /\ Look(tgts[i]).db = tgts[i].db
    BY <1>2 DEF Look
  <2>5. \A i \in DOMAIN tgts : AlertFor(m, tgts[i].db)
    BY <1>7, <2>3
  <2> QED
    BY <2>2, <2>4, <2>5
<1>17. /\ AlertsAhead(m) /\ NoAlerts(cq')
       /\ Has(m, "Sync") \/ Has(cq', "Sync") => cs' = "SENDING_ITEMS" /\ cw'
  BY <1>6, <1>7, <1>8, <1>10, <1>14 DEF Passed
<1>18. cinit /\ cs = "NOT_PREPARED" /\ cs' \in {"LOCAL_INIT", "SENDING_ITEMS"} /\ (cw' => cfg.noInit)
  BY <1>1, <1>14 DEF cinit, cs
<1>19. cq' \in Seq(ForServer)
  BY <1>11, <1>14
<1> QED
  BY <1>11, <1>13, <1>14, <1>15, <1>16, <1>17, <1>18, <1>19, ClientBeginsTogether
-----------------------------------------------------------------------------
(***************************************************************************)
(* The client: the end of a package, and of a message.                     *)
(***************************************************************************)
\* Packages of data are for everybody
LEMMA DataTells ==
    ASSUME NEW t \in Seq(Package), \A i \in DOMAIN t : t[i].kind \in {"Sync", "Map", "Final"}
    PROVE  t \in Seq(ForServer) /\ t \in Seq(ForClient) /\ NoAlerts(t)
<1>1. \A i \in DOMAIN t : t[i] \in Package
  BY InAll
<1>2. \A f \in Package : f.kind \in {"Sync", "Map", "Final"} => f \in Neutral /\ ~Announces(f)
  BY DEF Package, Fragment, Neutral, Announces
<1>3. \A i \in DOMAIN t : t[i] \in ForServer /\ t[i] \in ForClient /\ ~Announces(t[i])
  BY <1>1, <1>2, NeutralTells
<1> QED
  BY <1>3, AllIn DEF NoAlerts

\* Changes and what ends them
LEMMA ChangesTell ==
    ASSUME NEW tgts \in Seq(Target),
           NEW t, t = LocalChangesPackages(tgts) \o <<FinalPackage>>
    PROVE  /\ t \in Seq(Package) /\ t \in Seq(ForServer) /\ t \in Seq(ForClient) /\ NoAlerts(t)
<1> DEFINE s == LocalChangesPackages(tgts)
<1>1. s \in Seq(Package) /\ \A kind : Has(s, kind) => kind = "Sync"
  BY ChangesOf
<1>2. t = s \o <<FinalPackage>>
  OBVIOUS
<1> HIDE DEF s
<1>3. t \in Seq(Package) /\ \A kind : Has(t, kind) <=> Has(s, kind) \/ kind = "Final"
  BY <1>1, <1>2, EndedShows
<1>4. \A i \in DOMAIN t : t[i].kind \in {"Sync", "Map", "Final"}
  BY <1>1, <1>3 DEF Has
<1> QED
  BY <1>3, <1>4, DataTells

LEMMA MappingsTell ==
    ASSUME TypeOK, NEW list \in IF cfg.fastMaps THEN {<<>>} ELSE Ascending(Mapped),
           NEW t, t = UpdateStatusPackages(list)
    PROVE  /\ t \in Seq(Package) /\ t \in Seq(ForServer) /\ NoAlerts(t)
<1> DEFINE s == [i \in DOMAIN list |-> Mappings(targets[Client][list[i]].db,
                                                targets[Client][list[i]].mapped)]
<1>1. \A kind : Has(s, kind) => kind = "Map"
  BY DEF Mappings, Has
<1>2. s \in Seq(Package)
  BY MappingListType
<1>3. t = s \o <<FinalPackage>>
  BY DEF UpdateStatusPackages
<1> HIDE DEF s
<1>4. t \in Seq(Package) /\ \A kind : Has(t, kind) <=> Has(s, kind) \/ kind = "Final"
  BY <1>2, <1>3, EndedShows
<1>5. \A i \in DOMAIN t : t[i].kind \in {"Sync", "Map", "Final"}
  BY <1>1, <1>4 DEF Has
<1> QED
  BY <1>4, <1>5, DataTells

\* The looks of the targets there are, all there is before a session is saved
LEMMA TargetsLook ==
    ASSUME NEW p
    PROVE  /\ \A i \in DOMAIN targets[p] : Look(targets[p][i]) \in Looks(p)
           /\ changeLog[p] = <<>> =>
                 \A x \in Looks(p) : \E i \in DOMAIN targets[p] : x = Look(targets[p][i])
<1>1. \A i \in DOMAIN targets[p] : targets[p][i] \in Kept(p)
  BY DEF Kept, Range
<1>2. changeLog[p] = <<>> => Kept(p) = Range(targets[p])
  BY DEF Kept, SavedTargets
<1> QED
  BY <1>1, <1>2 DEF Looks, Range

LEMMA ClientFinalTogether ==
    ASSUME TypeOK, EndsOnce, Turns, Ordered, Together, Sound, Sound', HandleClientFinal
    PROVE  Together'
<1>1. Client \in Party /\ Server \in Party /\ Client # Server
  BY TwoParties
<1>2. /\ SameConfig /\ ClientAtEnd /\ SameTold /\ statuses' = statuses /\ changeLog' = changeLog
      /\ targets'[Server] = targets[Server] /\ syncWithoutInit' = syncWithoutInit
  BY ClientFinalView DEF HandleClientFinal, SameTold, peer, storage
<1>3. targets[Client] \in Seq(Target) /\ cs = syncState[Client]
      /\ \A state : SetSyncState(Client, state) => cs' = state
      /\ \A new : AddPackages(Client, new) => cq' = cq \o new
  BY <1>1 DEF TypeOK, cs, cq, SetSyncState, AddPackages
<1>4. ServerKeeps /\ (targets'[Client] = targets[Client] => ClientKeeps)
  BY <1>2, ServerKept, ClientKept
<1>5. cq \in Seq(Package) /\ cq \in Seq(ForServer)
  BY <1>1 DEF TypeOK, cq, Together, ToldToServer
<1>g. ASSUME NEW t \in Seq(Package), t \in Seq(ForServer), NoAlerts(t), cq' = cq \o t
      PROVE  cq' \in Seq(ForServer) /\ (NoAlerts(cq) => NoAlerts(cq'))
  BY <1>5, <1>g, QueueGrows
<1>6. CASE ClientFinalInit
  <2>1. PICK u : u = InitializationPackages(targets[Client], FALSE)
    OBVIOUS
  <2>2. cs = "PREPARED" /\ cs' = "LOCAL_INIT" /\ cq' = cq \o u /\ targets' = targets
    BY <1>3, <1>6, <2>1 DEF ClientFinalInit
  <2>3. cq = <<>>
    BY <2>2 DEF Ordered, Preparing
  <2>4. u \in Seq(Package) /\ ~Has(u, "Sync")
    BY <1>3, <2>1, InitializationShows
  <2>5. cq' = u
    BY <2>2, <2>3, <2>4, ConcatProperties
  <2>6. \A i \in DOMAIN targets[Client] : targets[Client][i].mode = FirstMode
    <3>1. \A t \in ct : t.mode = FirstMode
      BY <2>2 DEF Together, ClientTargets
    <3> QED
      BY <3>1, TargetsLook DEF ct, Look
  <2>7. /\ u \in Seq(ForServer) /\ AlertsAhead(u)
        /\ \A i \in DOMAIN targets[Client] : AlertFor(u, targets[Client][i].db)
    BY <1>3, <2>1, <2>6, InitializationTells
  <2>8. \A t \in ct : AlertFor(u, t.db)
    <3>1. changeLog[Client] = <<>>
      BY <1>1, <1>3, <2>2, NothingLogged
    <3> QED
      BY <2>7, <3>1, TargetsLook DEF ct, Look
  <2>9. ClientKeeps
    BY <1>4, <2>2
  <2> QED
    BY <1>2, <1>4, <2>2, <2>4, <2>5, <2>7, <2>8, <2>9, ClientEndsFirst
<1>7. CASE ClientFinalModifications
  <2>1. PICK tgts : tgts = Discovered(targets[Client])
    OBVIOUS
  <2>2. PICK t : t = LocalChangesPackages(tgts) \o <<FinalPackage>>
    OBVIOUS
  <2>3. /\ cs = "REMOTE_INIT" /\ cs' = "SENDING_ITEMS" /\ cq' = cq \o t
        /\ targets'[Client] = tgts
    BY <1>1, <1>3, <1>7, <2>1, <2>2 DEF ClientFinalModifications, TypeOK
  <2>4. tgts \in Seq(Target)
    BY <1>3, <2>1, DiscoveredType
  <2>5. t \in Seq(Package) /\ t \in Seq(ForServer) /\ NoAlerts(t)
    BY <2>2, <2>4, ChangesTell
  <2>6. cq' \in Seq(ForServer) /\ (NoAlerts(cq) => NoAlerts(cq'))
    BY <1>g, <2>3, <2>5
  <2>7. ClientKeeps
    <3>1. \A x \in Target : Look(DiscoverLocalChanges(Client, x)) = Look(x)
      BY DEF Look, DiscoverLocalChanges, Target
    <3>2. \A i \in DOMAIN targets[Client] : targets[Client][i] \in Target
      BY <1>1, ElementType
    <3>3. /\ DOMAIN tgts = DOMAIN targets[Client]
          /\ \A i \in DOMAIN targets[Client] : Look(tgts[i]) = Look(targets[Client][i])
      BY <2>1, <3>1, <3>2 DEF Discovered
    <3>4. Looks(Client)' = Looks(Client)
      BY <1>2, <1>3, <2>3, <3>3, LooksKept
    <3> QED
      BY <1>2, <3>4 DEF ClientKeeps, ct, ca
  <2>8. ss \notin EarlyStates
    BY <2>3 DEF Ordered, Alerted
  <2> QED
    BY <1>2, <1>4, <2>3, <2>6, <2>7, <2>8, ClientEndsLater DEF Unready
<1>8. CASE ClientFinalUpdateStatus
  <2>1. PICK list \in IF cfg.fastMaps THEN {<<>>} ELSE Ascending(Mapped) :
            AddPackages(Client, UpdateStatusPackages(list))
    BY <1>8 DEF ClientFinalUpdateStatus
  <2>2. PICK t : t = UpdateStatusPackages(list)
    OBVIOUS
  <2>3. cs = "RECEIVING_ITEMS" /\ cs' = "SENDING_MAPPINGS" /\ cq' = cq \o t /\ targets' = targets
    BY <1>3, <1>8, <2>1, <2>2 DEF ClientFinalUpdateStatus
  <2>4. t \in Seq(Package) /\ t \in Seq(ForServer) /\ NoAlerts(t)
    BY <2>1, <2>2, MappingsTell
  <2>5. cq' \in Seq(ForServer) /\ (NoAlerts(cq) => NoAlerts(cq'))
    BY <1>g, <2>3, <2>4
  <2>6. ss \notin EarlyStates /\ ClientKeeps
    BY <1>4, <2>3 DEF Ordered, NoSyncYet
  <2> QED
    BY <1>2, <1>4, <2>3, <2>5, <2>6, ClientEndsLater DEF Unready
<1>9. CASE ClientFinalLast
  <2>1. /\ cs \in {"SENDING_ITEMS", "SENDING_MAPPINGS"} /\ cs' = "FINALIZING" /\ cq' = cq
        /\ targets' = targets
    BY <1>3, <1>9 DEF ClientFinalLast, cq
  <2>2. lastC
    BY <1>2 DEF ClientAtEnd
  <2>3. ss \notin EarlyStates
    BY <2>1, <2>2 DEF Ordered, NoSyncYet, ItemsSent, EarlyStates
  <2>4. ClientKeeps
    BY <1>4, <2>1
  <2> QED
    BY <1>2, <1>4, <1>5, <2>1, <2>3, <2>4, ClientEndsLater DEF Unready
<1>10. CASE ClientFinalUnexpected
  <2>1. cq' = cq /\ targets' = targets
    BY <1>10 DEF ClientFinalUnexpected, cq
  <2>2. cs' = cs
    <3>1. CASE sessionClosed[Client]
      BY <1>10, <3>1 DEF ClientFinalUnexpected, AbortInMessage, control, cs
    <3>2. CASE ~sessionClosed[Client]
      <4>1. cs' = LastError(Client)
        BY <1>1, <1>10, <3>2 DEF ClientFinalUnexpected, AbortInMessage, cs, TypeOK
      <4>2. LastError(Client) \in ErrorStates \/ LastError(Client) = cs
        BY <1>3 DEF LastError, ErrorStates
      <4> QED
        BY <4>1, <4>2 DEF Sound
    <3> QED
      BY <3>1, <3>2
  <2>3. SameClient /\ SameServer /\ ClientKeeps /\ (lastC' => lastC) /\ (lastS' => lastS) /\ AllLeft
    BY <1>2, <1>4, <2>1, <2>2 DEF ClientAtEnd, SameClient, AllLeft
  <2> QED
    BY <1>2, <1>4, <2>3, QuietTogether
<1> QED
  BY <1>6, <1>7, <1>8, <1>9, <1>10 DEF HandleClientFinal

LEMMA ClientMessageTogether ==
    ASSUME TypeOK, EndsOnce, Turns, Ordered, Together, Sound, ~cfg.omit, EndOfClientMessage
    PROVE  Together'
<1>1. /\ Client \in Party /\ Server \in Party /\ Client # Server
      /\ Other(Client) = Server /\ Other(Server) = Client
      /\ \A p \in Party : p = Client \/ p = Server
  BY TwoParties
<1>2. /\ AtEndOfMessage(Client) /\ MessageHandled(Client) /\ SameTold
      /\ syncWithoutInit' = syncWithoutInit /\ cw' = cw
  BY DEF EndOfClientMessage, SameTold, SameConfig, peer, cw
<1>3. CASE ClientAnswers /\ SendAndReceive(Client) /\ UNCHANGED <<control, targets, changeLog>>
  <2>1. PICK s \in Sendable(Client) : /\ Generate(Client, s.k, s.cut)
                                      /\ packages' = [packages EXCEPT ![Client] = s.cut.left]
    BY <1>3 DEF SendAndReceive
  <2>2. PICK m : m = Top(Client, s.k) \o s.cut.written
    OBVIOUS
  <2>3. s.k \in 0..Len(statuses[Client]) /\ s.cut.written \in Seq(Package)
    BY <1>1, <2>1, SendableType
  <2>4. /\ \A q \in Party : net[q] = <<>> /\ incoming[q] = <<>> /\ parsed[q] = <<>>
        /\ ~processing[Server] /\ processing[Client]
        /\ Coming(Client) = {<<>>} /\ Coming(Server) = {}
    BY <1>1, <1>2, Alone DEF AtEndOfMessage
  <2>5. \A q \in Party : ~processing'[q]
    BY <1>1, <1>2, <2>4 DEF MessageHandled, TypeOK
  <2>6. Receive(Client)
    BY <1>3 DEF SendAndReceive
  <2>7. /\ Coming(Client)' = {} /\ Coming(Server)' = {m}
        /\ \A q \in Party : ~LastIn(q)'
    BY <1>1, <2>1, <2>2, <2>3, <2>4, <2>5, <2>6, SentView
  <2>8. /\ toC = {<<>>} /\ toC' = {} /\ toS = {} /\ toS' = {m} /\ ~lastC' /\ ~lastS'
    BY <1>1, <2>4, <2>7 DEF toC, toS, lastC, lastS
  <2>9. cq' = s.cut.left /\ packages'[Server] = packages[Server]
    BY <1>1, <2>1 DEF cq, TypeOK
  <2>10. statuses'[Server] = statuses[Server]
    BY <1>1, <2>1 DEF Generate, TypeOK
  <2>11. SameServer /\ ServerKeeps /\ ct' = ct
    BY <1>2, <1>3, <2>9, <2>10, ServerUntouched, ServerKept, SameLooks DEF control, ct
  <2>12. Neutral \subseteq ForServer /\ cq \in Seq(ForServer) /\ ca \in Seq(ForServer)
    BY NeutralTells DEF Together, ToldToServer
  <2>13. /\ Passed(cq, m, s.cut.left) /\ m \in Seq(ForServer) /\ s.cut.left \in Seq(ForServer)
         /\ statuses'[Client] \in Seq(ForServer)
    BY <1>1, <2>1, <2>2, <2>12, AnswerTells DEF cq, ca
  <2>14. cs' = cs /\ ca' \in Seq(ForServer) /\ Passed(cq, m, cq') /\ cq' \in Seq(ForServer)
    BY <1>3, <2>9, <2>13 DEF cs, ca, control
  <2> QED
    BY <1>2, <2>8, <2>11, <2>13, <2>14, ClientTells
<1>a. ASSUME UNCHANGED link
      PROVE  LessComing /\ NoneLeft /\ toC # {} /\ ~lastC' /\ ~lastS'
  <2>1. /\ Coming(Client) = {<<>>} /\ Coming(Server) = {}
        /\ Coming(Client)' = {} /\ Coming(Server)' = {}
        /\ ~LastIn(Client)' /\ ~LastIn(Server)'
    BY <1>1, <1>2, <1>a, IdleView
  <2> QED
    BY <2>1 DEF LessComing, NoneLeft, toC, toS, lastC, lastS
<1>4. CASE ClientIsDone /\ FinishSync(Client) /\ UNCHANGED <<statuses, link>>
  <2>1. NoneLeft /\ toC # {} /\ ~lastC' /\ ~lastS'
    BY <1>4, <1>a
  <2>2. cs = "FINALIZING" /\ ss = "SYNC_FINISHED"
    BY <1>4 DEF ClientIsDone, ShouldSendUpdateStatus, cs, Ordered, SavedFirst
  <2>3. /\ Looks(Client)' \subseteq Looks(Client) /\ Looks(Server)' = Looks(Server)
        /\ packages'[Client] \in {packages[Client], <<>>} /\ packages'[Server] = packages[Server]
    BY <1>1, <1>4, LooksLeft DEF FinishSync
  <2>4. /\ cs' = "SYNC_FINISHED" /\ syncState'[Server] = syncState[Server]
        /\ targets'[Server] = targets[Server] /\ sessionClosed'[Server] = sessionClosed[Server]
    BY <1>1, <1>4 DEF FinishSync, ExitSync, TypeOK, cs
  <2>5. SameServer
    BY <2>3, <2>4, ServerUntouched
  <2>6. ServerKeeps /\ ct' \subseteq ct /\ ca' = ca /\ cq' \in {cq, <<>>}
    BY <1>2, <1>4, <2>3 DEF ServerKeeps, st, sa, sw, ct, ca, cq
  <2> QED
    BY <1>2, <2>1, <2>2, <2>4, <2>5, <2>6, ClientIsThrough
<1>5. CASE EndIdle(Client)
  <2>1. LessComing /\ NoneLeft /\ toC # {} /\ ~lastC' /\ ~lastS'
    BY <1>5, <1>a DEF EndIdle
  <2>2. syncState' = syncState /\ statuses' = statuses
    BY <1>5 DEF EndIdle
  <2>3. CASE UNCHANGED <<sessionClosed, changeLog, packages, targets>>
    <3>1. SameServer /\ SameClient
      BY <1>2, <2>2, <2>3, ServerUntouched, ClientUntouched
    <3>2. ServerKeeps /\ ClientKeeps
      BY <1>2, <2>2, <2>3, ServerKept, ClientKept
    <3> QED
      BY <1>2, <2>1, <3>1, <3>2, QuietTogether
  <2>4. CASE syncFinished[Client] /\ ~sessionClosed[Client] /\ ExitSync(Client)
    <3>1. /\ Looks(Client)' \subseteq Looks(Client) /\ Looks(Server)' = Looks(Server)
          /\ packages'[Client] \in {packages[Client], <<>>} /\ packages'[Server] = packages[Server]
      BY <1>1, <2>4, LooksLeft
    <3>2. /\ targets'[Server] = targets[Server] /\ sessionClosed'[Server] = sessionClosed[Server]
      BY <1>1, <2>4 DEF ExitSync, TypeOK
    <3>3. SameServer
      BY <2>2, <3>1, <3>2, ServerUntouched
    <3>4. cs = "SYNC_FINISHED" /\ cs' = cs
      BY <1>1, <2>2, <2>4 DEF EndsOnce, Sound, cs
    <3>5. ss = "SYNC_FINISHED"
      BY <3>4 DEF Ordered, SavedFirst
    <3>6. ServerKeeps /\ ct' \subseteq ct /\ ca' = ca /\ cq' \in {cq, <<>>}
      BY <1>2, <2>2, <3>1 DEF ServerKeeps, st, sa, sw, ct, ca, cq
    <3> QED
      BY <1>2, <2>1, <3>3, <3>4, <3>5, <3>6, ClientIsThrough
  <2> QED
    BY <1>5, <2>3, <2>4 DEF EndIdle, ExitSync
<1> QED
  BY <1>3, <1>4, <1>5 DEF EndOfClientMessage

-----------------------------------------------------------------------------
(***************************************************************************)
(* The fragments of a server.                                              *)
(***************************************************************************)
LEMMA ServerPlainTogether ==
    ASSUME TypeOK, Turns, Awake, Together,
           HandleHeader(Server) \/ HandleNextMessageAlert(Server) \/ HandleFinalElement(Server)
    PROVE  Together'
<1>1. Client \in Party /\ Server \in Party /\ Client # Server
  BY TwoParties
<1>2. PICK kind : /\ Reading(Server, kind) /\ kind \in {"Header", "Alert", "Final"}
                  /\ kind = "Alert" => Head(fragments[Server]).code = NEXT_MESSAGE
                  /\ last' = last \/ (kind = "Final" /\ last' = [last EXCEPT ![Server] = TRUE])
  BY DEF HandleHeader, HandleNextMessageAlert, HandleFinalElement, Consume
<1>3. /\ UNCHANGED <<cfg, control, syncWithoutInit, peer, packages, targets, storage, link,
                     processing>>
      /\ fragments' = [fragments EXCEPT ![Server] = Tail(@)]
  BY DEF HandleHeader, HandleNextMessageAlert, HandleFinalElement, Consume
<1>4. SameClient /\ SameTold
  BY <1>3, ClientUntouched DEF control, peer, SameTold, SameConfig
<1>5. /\ last' \in [Party -> BOOLEAN] /\ last'[Client] = last[Client]
      /\ sessionClosed' = sessionClosed
  BY <1>1, <1>2, <1>3 DEF TypeOK, control
<1>6. /\ fragments[Server] \in Seq(Fragment) /\ fragments[Server] # <<>>
      /\ Head(fragments[Server]).kind = kind
      /\ ServerReads(fragments[Server])
      /\ (lastS <=> last[Server]) /\ (lastS' <=> last'[Server])
  BY <1>2, <1>3, <1>4, <1>5, ServerFragment
<1>7. statuses'[Client] = statuses[Client] /\ sa' \in Seq(ForClient)
  <2>1. statuses' = statuses \/ \E new \in Seq(Plainly) : AddStatuses(Server, new)
    <3>1. CASE HandleHeader(Server)
      BY <3>1, PlainStatus DEF HandleHeader, Commands, Responses
    <3>2. CASE HandleNextMessageAlert(Server)
      <4>1. Head(fragments[Server]).db \in Db /\ Reading(Server, "Alert")
        BY <1>1, <3>2, KindType DEF HandleNextMessageAlert
      <4> QED
        BY <3>2, <4>1, PlainStatus DEF HandleNextMessageAlert, Commands, Responses
    <3>3. CASE HandleFinalElement(Server)
      BY <3>3 DEF HandleFinalElement
    <3> QED
      BY <3>1, <3>2, <3>3
  <2>2. sa \in Seq(ForClient) /\ Plainly \subseteq ForClient
    BY NeutralTells DEF Together, ToldToClient
  <2>3. CASE statuses' = statuses
    BY <2>2, <2>3 DEF sa
  <2>4. CASE \E new \in Seq(Plainly) : AddStatuses(Server, new)
    BY <1>1, <2>2, <2>4, StatusesTell DEF sa
  <2> QED
    BY <2>1, <2>3, <2>4
<1>8. st' = st /\ sw' = sw /\ ClientKeeps
  BY <1>3, <1>7, SameLooks, ClientKept DEF st, sw, storage
<1>9. ss' = ss /\ sq' = sq /\ (lastS' => lastS \/ Speaks(Head(fragments[Server])))
  BY <1>1, <1>2, <1>3, <1>6 DEF ss, sq, control, Speaks, TypeOK
<1>10. ~Announces(Head(fragments[Server]))
  BY <1>2, <1>6 DEF Announces, SyncCodes, NEXT_MESSAGE
<1> QED
  BY <1>4, <1>6, <1>7, <1>8, <1>9, <1>10, ServerHearsOn

\* The status of a client that no server asks for has it refresh nothing
LEMMA ServerStatusTogether ==
    ASSUME TypeOK, Turns, Awake, Together, HandleStatus(Server)
    PROVE  Together'
<1> DEFINE m == fragments[Server]
<1>1. Client \in Party /\ Server \in Party /\ Client # Server
  BY TwoParties
<1>2. /\ UNCHANGED <<cfg, control, syncWithoutInit, remoteInf, statuses, packages, storage, link>>
      /\ Consume(Server) /\ Reading(Server, "Status")
  BY DEF HandleStatus
<1>3. targets' = targets \/ Refreshes(Head(m))
  BY DEF HandleStatus, Refreshes, Reading
<1>4. SameClient /\ SameTold
  BY <1>2, ClientUntouched DEF control, SameTold, SameConfig
<1>5. /\ m \in Seq(Fragment) /\ m # <<>> /\ Head(m).kind = "Status" /\ ServerReads(m)
      /\ (lastS <=> last[Server]) /\ (lastS' <=> last'[Server])
  BY <1>2, <1>4, ServerFragment DEF Consume, TypeOK, control
<1> HIDE DEF m
<1>6. targets' = targets
  <2>1. m \in toS
    BY <1>5 DEF ServerReads
  <2>2. Head(m) \in ForServer
    BY <1>5, <2>1, LeftOver DEF Together, ToldToServer
  <2> QED
    BY <1>3, <2>2 DEF ForServer
<1>7. ClientKeeps /\ st' = st /\ sw' = sw /\ sa' \in Seq(ForClient)
  BY <1>2, <1>6, ClientKept, SameLooks DEF st, sw, sa, storage, Together, ToldToClient
<1>8. ss' = ss /\ sq' = sq /\ (lastS' => lastS) /\ ~Announces(Head(m))
  BY <1>2, <1>5 DEF ss, sq, control, Consume, Announces
<1> QED
  BY <1>4, <1>5, <1>7, <1>8, ServerHearsOn

\* No client has a server's device information to answer with, and no server
\* asks for that of a client
LEMMA NoResults ==
    ASSUME TypeOK, Turns, Awake, Ordered, Together
    PROVE  ~HandleResults(Server) /\ ~HandleDevInf(Client)
<1>1. Client \in Party /\ Server \in Party /\ Client # Server
  BY TwoParties
<1>2. ASSUME NEW p \in Party, NEW kind, Reading(p, kind)
      PROVE  \E m \in Seq(Fragment) : m # <<>> /\ Head(m).kind = kind /\ m \in Coming(p)
  BY <1>2 DEF Reading, Coming, TypeOK, Message
<1>3. ~HandleResults(Server)
  <2> SUFFICES ASSUME HandleResults(Server) PROVE FALSE
    OBVIOUS
  <2>1. PICK m \in Seq(Fragment) : m # <<>> /\ Head(m).kind = "Results" /\ m \in toS
    BY <1>1, <1>2 DEF HandleResults, toS
  <2>2. Head(m) \in ForServer
    BY <2>1, LeftOver DEF Together, ToldToServer
  <2> QED
    BY <2>1, <2>2 DEF ForServer
<1>4. ~HandleDevInf(Client)
  <2> SUFFICES ASSUME HandleDevInf(Client) PROVE FALSE
    OBVIOUS
  <2>1. PICK m \in Seq(Fragment) : m # <<>> /\ Head(m).kind = "PutGet" /\ m \in toC
    BY <1>1, <1>2 DEF HandleDevInf, toC
  <2>2. Has(m, "PutGet")
    BY <2>1, TailPlaces DEF Has
  <2> QED
    BY <2>1, <2>2 DEF Ordered, DevInfFirst
<1> QED
  BY <1>3, <1>4

LEMMA ServerDevInfTogether ==
    ASSUME TypeOK, Turns, Awake, Ordered, Together, Sound, HandleDevInf(Server)
    PROVE  Together'
<1> DEFINE m == fragments[Server]
           G == {f \in ForClient : ~Announces(f)}
<1>1. Client \in Party /\ Server \in Party /\ Client # Server
  BY TwoParties
<1>2. /\ UNCHANGED <<cfg, control, syncWithoutInit, targets, storage, link>> /\ Consume(Server)
      /\ packages' = [packages EXCEPT ![Server] = @ \o <<DevInfResults>>]
      /\ Reading(Server, "PutGet")
      /\ AddStatuses(Server, <<StatusOf("Put", NoDb, "SUCCESS"), StatusOf("Get", NoDb, "SUCCESS")>>)
  BY DEF HandleDevInf, AddPackages
<1>3. sq' = sq \o <<DevInfResults>> /\ packages'[Client] = packages[Client]
  BY <1>1, <1>2 DEF sq, TypeOK
<1>4. SameClient /\ SameConfig
  BY <1>2, <1>3, ClientUntouched DEF control, SameConfig
<1>5. /\ m \in Seq(Fragment) /\ m # <<>> /\ Head(m).kind = "PutGet" /\ ServerReads(m)
      /\ (lastS <=> last[Server]) /\ (lastS' <=> last'[Server])
  BY <1>2, <1>4, ServerFragment DEF Consume, TypeOK, control
<1>6. statuses'[Client] = statuses[Client] /\ sa' \in Seq(G)
  <2> DEFINE a == StatusOf("Put", NoDb, "SUCCESS")
             b == StatusOf("Get", NoDb, "SUCCESS")
  <2>1. a \in Plainly /\ b \in Plainly
    BY PlainStatus DEF Commands, Responses
  <2> HIDE DEF a, b
  <2>2. <<a, b>> \in Seq(Plainly)
    BY <2>1
  <2>3. AddStatuses(Server, <<a, b>>)
    BY <1>2 DEF a, b
  <2>4. Plainly \subseteq G
    BY NeutralTells
  <2>5. statuses[Server] \in Seq(G)
    <3>1. sa \in Seq(ForClient) /\ sa \in Seq(Status)
      BY <1>1 DEF Together, ToldToClient, sa, TypeOK
    <3>2. \A i \in DOMAIN sa : sa[i] \in ForClient /\ sa[i] \in Status
      BY <3>1, InAll
    <3>3. \A i \in DOMAIN sa : sa[i] \in G
      BY <3>2 DEF Announces, Status
    <3> HIDE DEF G
    <3> QED
      BY <3>1, <3>3, AllIn DEF sa
  <2> HIDE DEF G
  <2> QED
    BY <1>1, <2>2, <2>3, <2>4, <2>5, StatusesTell DEF sa
<1>7. st' = st /\ sw' = sw /\ ClientKeeps
  BY <1>2, <1>6, SameLooks, ClientKept DEF st, sw, storage
<1>8. ss' = ss /\ (lastS' => lastS)
  BY <1>2, <1>5 DEF ss, control, Consume
<1> HIDE DEF m
<1> QED
  BY <1>3, <1>4, <1>5, <1>6, <1>7, <1>8, ServerHearsDevInf

LEMMA ServerAlertTogether ==
    ASSUME TypeOK, Turns, Awake, Together, HandleServerAlert
    PROVE  Together'
<1> DEFINE m == fragments[Server]
           alert == Head(m)
           db == alert.db
<1>1. Client \in Party /\ Server \in Party /\ Client # Server
  BY TwoParties
<1>2. /\ UNCHANGED <<cfg, syncWithoutInit, peer, packages, storage, link>> /\ Consume(Server)
      /\ Reading(Server, "Alert") /\ alert.code \in SyncCodes
  BY DEF HandleServerAlert
<1>3. /\ syncState'[Client] = syncState[Client] /\ sessionClosed' = sessionClosed
      /\ targets'[Client] = targets[Client]
  BY <1>1 DEF HandleServerAlert, SetupTargetByClient, AcknowledgeTargetOfServer, WithTarget,
              control, SetSyncState, TypeOK
<1>4. SameClient /\ SameTold
  BY <1>2, <1>3, ClientUntouched DEF SameTold, SameConfig, peer
<1>5. /\ m \in Seq(Fragment) /\ m # <<>> /\ alert.kind = "Alert" /\ ServerReads(m)
      /\ (lastS <=> last[Server]) /\ (lastS' <=> last'[Server])
  BY <1>2, <1>3, <1>4, ServerFragment DEF Consume, TypeOK
<1>6. (lastS' => lastS) /\ sq' = sq /\ Announces(alert) /\ db \in Db
  BY <1>1, <1>2, <1>5, KindType DEF Consume, sq, Announces
<1>7. m \in toS /\ toS = {m}
  BY <1>5 DEF ServerReads
<1>8. alert = Alert(FirstCode, db)
  <2>1. alert \in ForServer
    BY <1>5, <1>7, LeftOver DEF Together, ToldToServer
  <2>2. alert.code = FirstCode /\ alert \in Fragment
    BY <1>6, <2>1 DEF ForServer
  <2> QED
    BY <1>5, <2>2 DEF Fragment, Header, Status, Package, Alert
<1>9. syncState[Server] \in {"PREPARED", "REMOTE_INIT"} /\ SetupTargetByClient(alert)
      /\ SetSyncState(Server, "REMOTE_INIT")
  <2>1. ~NoAlerts(m)
    BY <1>5, <1>6, LeftOver
  <2>2. ss \in EarlyStates /\ ss # "NOT_PREPARED"
    BY <1>5, <1>7, <2>1 DEF Together, AlertsEarly, ServerReads
  <2> QED
    BY <2>2 DEF HandleServerAlert, EarlyStates, ss, InitStates
<1>10. ss \in {"PREPARED", "REMOTE_INIT"} /\ ss' = "REMOTE_INIT"
  BY <1>1, <1>9 DEF ss, SetSyncState, TypeOK
<1>11. targets[Server] \in Seq(Target) /\ changeLog'[Server] = changeLog[Server]
  BY <1>1, <1>2 DEF TypeOK, storage
<1>12. sa \in Seq(ForClient)
  BY DEF Together, ToldToClient
<1>13. CASE db \notin cfg.served
  <2>1. targets' = targets /\ AddStatuses(Server, <<StatusOf("Alert", db, "NOT_FOUND")>>)
    BY <1>9, <1>13 DEF SetupTargetByClient
  <2>2. <<StatusOf("Alert", db, "NOT_FOUND")>> \in Seq(Plainly) /\ Plainly \subseteq ForClient
    BY <1>6, PlainStatus, NeutralTells DEF Commands, Responses
  <2>3. statuses'[Client] = statuses[Client] /\ sa' \in Seq(ForClient)
    BY <1>1, <1>12, <2>1, <2>2, StatusesTell DEF sa
  <2>4. st' = st /\ sw' = sw /\ ClientKeeps
    BY <1>2, <1>3, <1>11, <2>1, <2>3, SameLooks, ClientKept DEF st, sw, storage
  <2>5. st' = IF Head(m).db \in cfg.served
              THEN st \cup {[db |-> Head(m).db, mode |-> ModeAtServer(Head(m).db), anchored |-> TRUE]}
              ELSE st
    BY <1>13, <2>4
  <2> HIDE DEF m
  <2> QED
    BY <1>4, <1>5, <1>6, <1>10, <2>3, <2>4, <2>5, ServerHearsAlert
<1>14. CASE db \in cfg.served
  <2> DEFINE x == StatusOf("Alert", db, IF RefreshRequired(alert) THEN "REFRESH_REQUIRED" ELSE "SUCCESS")
             t == TargetByClient(alert)
  <2>1. /\ targets'[Server] = Append(targets[Server], t)
        /\ AddStatuses(Server, <<x>>)
    BY <1>1, <1>9, <1>14 DEF SetupTargetByClient, TypeOK
  <2>2. x \in ForClient
    <3>1. x \in Status /\ x.kind = "Status" /\ x.db = db
          /\ (Refreshes(x) => RefreshRequired(alert))
      <4>1. "Alert" \in Commands /\ {"REFRESH_REQUIRED", "SUCCESS"} \subseteq Responses
        BY DEF Commands, Responses
      <4> QED
        BY <1>6, <4>1 DEF StatusOf, Status, Refreshes
    <3>2. Refreshes(x) => RefreshRequired(Alert(FirstCode, x.db))
      BY <1>8, <3>1
    <3>3. x \in Fragment /\ ~Announces(x)
      BY <3>1 DEF Fragment, Announces
    <3> HIDE DEF x
    <3> QED
      BY <3>2, <3>3 DEF ForClient
  <2>3. statuses'[Client] = statuses[Client] /\ statuses'[Server] = statuses[Server] \o <<x>>
    BY <1>1, <2>1 DEF AddStatuses, TypeOK
  <2> HIDE DEF x
  <2>4. sa' \in Seq(ForClient)
    <3>1. <<x>> \in Seq(ForClient)
      BY <2>2
    <3>2. sa' = sa \o <<x>>
      BY <2>3 DEF sa
    <3> QED
      BY <1>12, <3>1, <3>2, ConcatProperties
  <2>5. sw' = sw /\ ClientKeeps
    BY <1>2, <1>3, <2>3, ClientKept DEF sw, storage
  <2>6. st' = st \cup {[db |-> db, mode |-> ModeAtServer(db), anchored |-> TRUE]}
    <3>1. t \in Target
      <4>1. alert.code \in SyncCodes /\ alert = Alert(alert.code, db) /\ t = TargetByClient(alert)
        BY <1>2, <1>8 DEF Alert
      <4> QED
        BY <1>6, <4>1, TargetShows
    <3>2. Look(t) = [db |-> db, mode |-> ModeAtServer(db), anchored |-> TRUE]
      BY <1>6, <1>8, ServerModeShows
    <3> HIDE DEF t
    <3>3. st' = st \cup {Look(t)}
      BY <1>11, <2>1, <3>1, LooksGrow DEF st
    <3> QED
      BY <3>2, <3>3
  <2>7. st' = IF Head(m).db \in cfg.served
              THEN st \cup {[db |-> Head(m).db, mode |-> ModeAtServer(Head(m).db), anchored |-> TRUE]}
              ELSE st
    BY <1>14, <2>6
  <2> HIDE DEF m
  <2> QED
    BY <1>4, <1>5, <1>6, <1>10, <2>4, <2>5, <2>7, ServerHearsAlert
<1> QED
  BY <1>13, <1>14

LEMMA ServerSyncTogether ==
    ASSUME TypeOK, Turns, Awake, Together, HandleServerSync
    PROVE  Together'
<1> DEFINE m == fragments[Server]
<1>1. Client \in Party /\ Server \in Party /\ Client # Server
  BY TwoParties
<1>2. /\ UNCHANGED <<cfg, peer, changeLog, link>> /\ Consume(Server)
      /\ syncWithoutInit' = [syncWithoutInit EXCEPT ![Server] = @ \/ SyncInInit]
      /\ Reading(Server, "Sync") /\ HandleSyncElement(Server, ServerAcceptsSync)
  BY DEF HandleServerSync
<1>3. /\ packages' = packages
      /\ targets'[Client] = targets[Client]
      /\ syncWithoutInit'[Client] = syncWithoutInit[Client]
  <2>1. HandleSyncElement(Server, ServerAcceptsSync)
    BY <1>2
  <2>2. packages' = packages
    BY <1>1, <2>1 DEF HandleSyncElement, RejectSync, CommitSync
  <2>3. targets'[Client] = targets[Client]
    <3>1. targets' = targets \/ \E f : targets' = [targets EXCEPT ![Server] = f]
      BY <2>1 DEF HandleSyncElement, RejectSync, CommitSync, WithTarget
    <3> QED
      BY <1>1, <3>1 DEF TypeOK
  <2>4. syncWithoutInit'[Client] = syncWithoutInit[Client]
    BY <1>1, <1>2 DEF TypeOK
  <2> QED
    BY <2>2, <2>3, <2>4
<1>4. /\ syncState'[Client] = syncState[Client] /\ sessionClosed' = sessionClosed
  BY <1>1 DEF HandleServerSync, control, SetSyncState, TypeOK
<1>5. SameClient /\ SameTold
  BY <1>2, <1>3, <1>4, ClientUntouched DEF SameTold, SameConfig, peer
<1>6. /\ m \in Seq(Fragment) /\ m # <<>> /\ Head(m).kind = "Sync" /\ ServerReads(m)
      /\ (lastS <=> last[Server]) /\ (lastS' <=> last'[Server])
  BY <1>2, <1>4, <1>5, ServerFragment DEF Consume, TypeOK
<1>7. (lastS' => lastS) /\ sq' = sq
  BY <1>2, <1>3, <1>6 DEF Consume, sq
<1>8. statuses'[Client] = statuses[Client] /\ sa' \in Seq(ForClient)
  <2>1. \E new \in Seq(Plainly) : AddStatuses(Server, new)
    BY <1>1, <1>2, SyncStatuses
  <2>2. sa \in Seq(ForClient) /\ Plainly \subseteq ForClient
    BY NeutralTells DEF Together, ToldToClient
  <2> QED
    BY <1>1, <2>1, <2>2, StatusesTell DEF sa
<1>9. st' = st /\ ClientKeeps
  <2>1. st' = st
    BY <1>1, <1>2, CommitLooks DEF st
  <2> QED
    BY <1>2, <1>3, <1>8, <2>1, ClientKept
<1>10. sw' = (sw \/ SyncInInit) /\ sw \in BOOLEAN
  BY <1>1, <1>2 DEF sw, TypeOK
<1> HIDE DEF m
<1>11. CASE ServerAcceptsSync
  <2>1. ss \in {"REMOTE_INIT", "LOCAL_INIT", "RECEIVING_ITEMS"} /\ ss' = "RECEIVING_ITEMS"
    BY <1>1, <1>11 DEF HandleServerSync, SetSyncState, ss, TypeOK, ServerAcceptsSync, SyncInInit
  <2>2. IF ss = "REMOTE_INIT" THEN SyncInInit ELSE ~SyncInInit
    BY <1>11 DEF ServerAcceptsSync, SyncInInit, ss
  <2>3. IF ss = "REMOTE_INIT" THEN sw' ELSE sw' = sw
    BY <1>10, <2>2
  <2> QED
    BY <1>5, <1>6, <1>7, <1>8, <1>9, <2>1, <2>3, ServerHearsChanges
<1>12. CASE ~ServerAcceptsSync
  <2>1. ss' = ss
    BY <1>12 DEF HandleServerSync, control, ss
  <2>2. sw' = sw
    BY <1>10, <1>12 DEF ServerAcceptsSync
  <2>3. ~Announces(Head(m))
    BY <1>6 DEF Announces
  <2> QED
    BY <1>5, <1>6, <1>7, <1>8, <1>9, <2>1, <2>2, <2>3, ServerHearsOn
<1> QED
  BY <1>11, <1>12

LEMMA ServerMapTogether ==
    ASSUME TypeOK, Turns, Awake, Together, HandleServerMap
    PROVE  Together'
<1> DEFINE m == fragments[Server]
           map == Head(m)
           f == [i \in DOMAIN targets[Server] |->
                    IF targets[Server][i].db = map.db
                    THEN [targets[Server][i] EXCEPT !.mapped = @ \o map.items]
                    ELSE targets[Server][i]]
<1>1. Client \in Party /\ Server \in Party /\ Client # Server
  BY TwoParties
<1>2. /\ UNCHANGED <<cfg, syncWithoutInit, peer, packages, storage, link>> /\ Consume(Server)
      /\ Reading(Server, "Map") /\ (AcceptMap(map) \/ RejectMap(map))
  BY DEF HandleServerMap
<1>3. /\ syncState'[Client] = syncState[Client] /\ sessionClosed' = sessionClosed
      /\ targets'[Client] = targets[Client]
  BY <1>1, <1>2 DEF AcceptMap, RejectMap, control, SetSyncState, WithTarget, TypeOK
<1>4. SameClient /\ SameTold
  BY <1>2, <1>3, ClientUntouched DEF SameTold, SameConfig, peer
<1>5. /\ m \in Seq(Fragment) /\ m # <<>> /\ Head(m).kind = "Map" /\ ServerReads(m)
      /\ (lastS <=> last[Server]) /\ (lastS' <=> last'[Server])
  BY <1>2, <1>3, <1>4, ServerFragment DEF Consume, TypeOK
<1>6. (lastS' => lastS) /\ sq' = sq /\ ~Announces(Head(m)) /\ map.db \in Db
  BY <1>1, <1>2, <1>5, KindType DEF Consume, sq, Announces
<1>7. statuses'[Client] = statuses[Client] /\ sa' \in Seq(ForClient)
  <2>1. \E code \in Responses : AddStatuses(Server, <<StatusOf("Map", map.db, code)>>)
    BY <1>2 DEF AcceptMap, RejectMap, Responses
  <2>2. \E new \in Seq(Plainly) : AddStatuses(Server, new)
    BY <1>6, <2>1, PlainStatus DEF Commands
  <2>3. sa \in Seq(ForClient) /\ Plainly \subseteq ForClient
    BY NeutralTells DEF Together, ToldToClient
  <2> QED
    BY <1>1, <2>2, <2>3, StatusesTell DEF sa
<1>8. sw' = sw /\ ClientKeeps /\ changeLog'[Server] = changeLog[Server]
  BY <1>2, <1>3, <1>7, ClientKept DEF sw, storage
<1>9. st' = st
  <2>1. CASE targets' = targets
    BY <1>8, <2>1, SameLooks DEF st
  <2>2. CASE targets'[Server] = f
    <3>1. \A i \in DOMAIN targets[Server] : targets[Server][i] \in Target
      BY <1>1, ElementType
    <3>2. /\ DOMAIN f = DOMAIN targets[Server]
          /\ \A i \in DOMAIN targets[Server] : Look(f[i]) = Look(targets[Server][i])
      BY <3>1 DEF Target, Look
    <3>3. targets[Server] \in Seq(Target)
      BY <1>1 DEF TypeOK
    <3> HIDE DEF f
    <3> QED
      BY <1>8, <2>2, <3>2, <3>3, LooksKept DEF st
  <2>3. targets' = targets \/ targets'[Server] = f
    BY <1>1, <1>2 DEF AcceptMap, RejectMap, WithTarget, TypeOK
  <2> QED
    BY <2>1, <2>2, <2>3
<1>10. \/ ss' = ss
       \/ ss \in {"SENDING_ITEMS", "RECEIVING_MAPPINGS"} /\ ss' = "RECEIVING_MAPPINGS"
  BY <1>1, <1>2 DEF AcceptMap, RejectMap, control, SetSyncState, ss, TypeOK
<1> HIDE DEF m
<1>11. CASE ss' = ss
  BY <1>4, <1>5, <1>6, <1>7, <1>8, <1>9, <1>11, ServerHearsOn
<1>12. CASE ss \in {"SENDING_ITEMS", "RECEIVING_MAPPINGS"} /\ ss' = "RECEIVING_MAPPINGS"
  BY <1>4, <1>5, <1>6, <1>7, <1>8, <1>9, <1>12, ServerHearsChanges
<1> QED
  BY <1>10, <1>11, <1>12

-----------------------------------------------------------------------------
(***************************************************************************)
(* The server: the end of a package.                                       *)
(***************************************************************************)
\* A client is sent no mappings
SendsMaps == cs # "RECEIVING_MAPPINGS"

LEMMA NextSendsMaps ==
    ASSUME TypeOK, SendsMaps, Next
    PROVE  SendsMaps'
<1>1. /\ Client \in Party /\ Server \in Party /\ Client # Server
      /\ \A q \in Party : q = Client \/ q = Server
  BY TwoParties
<1>2. syncState[Client] # "RECEIVING_MAPPINGS"
  BY DEF SendsMaps, cs
<1> SUFFICES syncState'[Client] # "RECEIVING_MAPPINGS"
  BY DEF SendsMaps, cs
<1>3. ASSUME NEW q \in Party, Process(q) \/ Deliver(q)
      PROVE  syncState'[Client] # "RECEIVING_MAPPINGS"
  <2>1. CASE ServeRequest(q)
    BY <1>1, <1>2, <2>1 DEF ServeRequest, SetSyncState, TypeOK
  <2>2. CASE UNCHANGED control
    BY <1>2, <2>2 DEF control
  <2> QED
    BY <1>3, <2>1, <2>2 DEF Process, Deliver, BeginMessage, HandleHeader, HandleStatus,
       HandleDevInf, HandleResults, HandleNextMessageAlert, HandleFinalElement
<1>4. CASE ClientStep
  <2>1. CASE InitiateClientSync \/ HandleClientAlert \/ HandleClientSync
    BY <1>1, <1>2, <2>1 DEF InitiateClientSync, HandleClientAlert, HandleClientSync, control,
       SetSyncState, TypeOK
  <2>2. CASE HandleClientFinal
    BY <1>1, <1>2, <2>2 DEF HandleClientFinal, ClientFinalInit, ClientFinalModifications,
       ClientFinalUpdateStatus, ClientFinalLast, ClientFinalUnexpected, AbortInMessage,
       LastError, control, SetSyncState, TypeOK
  <2>3. CASE EndOfClientMessage
    BY <1>1, <1>2, <2>3 DEF EndOfClientMessage, FinishSync, EndIdle, control, TypeOK
  <2> QED
    BY <1>4, <2>1, <2>2, <2>3 DEF ClientStep
<1>5. CASE ServerStep
  <2>1. syncState'[Client] = syncState[Client]
    BY <1>1, <1>5 DEF ServerStep, InitiateServerSync, HandleServerAlert, HandleServerSync,
       HandleServerMap, AcceptMap, RejectMap, HandleServerFinal, EndOfServerMessage,
       SetSyncState, ServerFinalInit, ServerFinalModifications, ServerFinalLast,
       ServerFinalEarly, ServerFinalUnexpected, AbortInMessage, SendLast, FinishSync, EndIdle,
       control, TypeOK
  <2> QED
    BY <1>2, <2>1
<1>6. CASE Environment
  <2>1. ASSUME NEW q \in Party, NEW state, state # "RECEIVING_MAPPINGS", AbortSync(q, state)
        PROVE  syncState'[Client] # "RECEIVING_MAPPINGS"
    BY <1>1, <1>2, <2>1 DEF AbortSync, TypeOK
  <2>2. \A event \in {"invalid", "connection", "rejected", "sent"} :
           \A q \in Party : StateAfterEvent(q, event) # "RECEIVING_MAPPINGS"
    BY DEF StateAfterEvent
  <2>3. CASE \E q \in Party : LoseMessage(q)
    BY <1>2, <2>3 DEF LoseMessage, control
  <2>4. CASE \E q \in Party : UserAbort(q) \/ GarbledMessage(q)
    BY <2>1, <2>4 DEF UserAbort, GarbledMessage
  <2>5. CASE \E q \in Party : \E event \in {"invalid", "connection", "rejected", "sent"} :
                SetTransportStatus(q, event)
    BY <2>1, <2>2, <2>5 DEF SetTransportStatus
  <2>6. CASE \E state \in {"INTERNAL_ERROR", "DATABASE_FAILURE", "CONNECTION_ERROR"} :
                StartupFailure(state)
    <3>1. cfg.mode.init \in Party
      BY ConfigType DEF AlertMode, SyncMode, Initiators, Party, Client, Server
    <3> QED
      BY <2>1, <2>6, <3>1 DEF StartupFailure
  <2> QED
    BY <1>6, <2>3, <2>4, <2>5, <2>6 DEF Environment
<1> QED
  BY <1>3, <1>4, <1>5, <1>6 DEF Next, Progress

\* The client waits for the alerts of a server that has not sent them
LEMMA Waiting ==
    ASSUME TypeOK, Ordered, Sound, SendsMaps, ss = "REMOTE_INIT" \/ (ss = "RECEIVING_ITEMS" /\ cw)
    PROVE  Listening
<1>1. cs \notin {"NOT_PREPARED", "PREPARED"}
  BY DEF Ordered, Preparing, ErrorStates
<1>2. cs \notin {"RECEIVING_ITEMS", "SENDING_MAPPINGS", "FINALIZING", "SYNC_FINISHED"}
  BY DEF Ordered, NoSyncYet, EarlyStates
<1>3. (cs = "SENDING_ITEMS" /\ ss = "REMOTE_INIT") => cw
  BY DEF Ordered, FirstTaken, EarlyStates
<1> QED
  BY <1>1, <1>2, <1>3, ClientStates DEF Listening, SendsMaps

\* The alerts of the server tell of the targets it has
LEMMA AlertsTell ==
    ASSUME TypeOK, Together, changeLog[Server] = <<>>,
           NEW s, s = InitializationAlerts(targets[Server])
    PROVE  /\ s \in Seq(Package) /\ s \in Seq(ForClient) /\ ~Speaking(s) /\ AlertsAhead(s)
           /\ \A u \in st : AlertFor(s, u.db)
<1>1. targets[Server] \in Seq(Target)
  BY TwoParties DEF TypeOK
<1>2. s \in Seq(Package) /\ \A kind : Has(s, kind) => kind = "Alert"
  BY <1>1, AlertsOf
<1>3. /\ DOMAIN s = DOMAIN targets[Server]
      /\ \A i \in DOMAIN s : s[i] = Alert(ToSyncMLCode(targets[Server][i].mode), targets[Server][i].db)
  BY DEF InitializationAlerts
<1>4. ASSUME NEW i \in DOMAIN s
      PROVE  /\ s[i] \in ForClient /\ ~Speaks(s[i]) /\ Announces(s[i])
             /\ s[i].db = targets[Server][i].db
  <2>1. targets[Server][i] \in Target
    BY <1>3, TwoParties, ElementType
  <2>2. targets[Server][i].mode = ModeAtServer(targets[Server][i].db)
    <3>1. Look(targets[Server][i]) \in st
      BY <1>3, TargetsLook DEF st
    <3> QED
      BY <3>1 DEF Together, ServerTargets, Look
  <2>3. ToSyncMLCode(targets[Server][i].mode) \in SyncCodes
    BY <2>1, ToSyncMLCodeType DEF Target
  <2>4. /\ s[i].kind = "Alert" /\ s[i].db = targets[Server][i].db
        /\ s[i].code = ToSyncMLCode(ModeAtServer(s[i].db)) /\ s[i].code \in SyncCodes
    <3>1. PICK code, db : /\ code = ToSyncMLCode(targets[Server][i].mode)
                          /\ db = targets[Server][i].db
      OBVIOUS
    <3>2. s[i] = Alert(code, db)
      BY <1>3, <3>1
    <3>3. s[i].kind = "Alert" /\ s[i].db = db /\ s[i].code = code
      BY <3>2 DEF Alert
    <3> QED
      BY <2>2, <2>3, <3>1, <3>3
  <2>5. s[i] \in Fragment
    BY <1>2, InAll DEF Fragment
  <2> QED
    BY <2>4, <2>5 DEF ForClient, Refreshes, Announces, Speaks
<1>5. s \in Seq(ForClient)
  BY <1>2, <1>4, AllIn
<1>6. ~Speaking(s) /\ AlertsAhead(s)
  BY <1>4 DEF Speaking, AlertsAhead
<1>7. ASSUME NEW u \in st PROVE AlertFor(s, u.db)
  <2>1. PICK i \in DOMAIN targets[Server] : u = Look(targets[Server][i])
    BY TargetsLook DEF st
  <2> QED
    BY <1>3, <1>4, <2>1 DEF AlertFor, Look
<1> QED
  BY <1>2, <1>5, <1>6, <1>7

\* The server queues more, while it has nothing queued that ends its alerts
LEMMA QueuedTells ==
    ASSUME TypeOK, Together, NEW t \in Seq(Package), t \in Seq(ForClient), AlertsAhead(t),
           ~Speaking(sq) \/ NoAlerts(t), NEW q, q = sq \o t
    PROVE  /\ q \in Seq(ForClient) /\ AlertsAhead(q)
           /\ \A db : AlertFor(sq, db) \/ AlertFor(t, db) => AlertFor(q, db)
<1>1. sq \in Seq(Package) /\ sq \in Seq(ForClient) /\ AlertsAhead(sq)
  BY TwoParties DEF TypeOK, sq, Together, ToldToClient, ServerOrder
<1> QED
  BY <1>1, JoinAlerts, ConcatProperties

\* What the server answers a package with, and what it tells
LEMMA ModificationsTell ==
    ASSUME TypeOK, Together, changeLog[Server] = <<>>, NEW t, t = ModificationPackages
    PROVE  /\ t \in Seq(Package) /\ t \in Seq(ForClient) /\ AlertsAhead(t)
           /\ sw => \A u \in st : AlertFor(t, u.db)
<1> DEFINE a == InitializationAlerts(targets[Server])
           b == IF syncWithoutInit[Server] THEN a ELSE <<>>
           c == LocalChangesPackages(targets[Server])
           f == <<FinalPackage>>
<1>1. targets[Server] \in Seq(Target)
  BY TwoParties DEF TypeOK
<1>2. /\ a \in Seq(Package) /\ a \in Seq(ForClient) /\ ~Speaking(a) /\ AlertsAhead(a)
      /\ \A u \in st : AlertFor(a, u.db)
  BY AlertsTell
<1>3. /\ b \in Seq(Package) /\ b \in Seq(ForClient) /\ AlertsAhead(b)
      /\ sw => b = a
  BY <1>2, EmptyAlerts, EmptySeq DEF sw
<1>4. c \in Seq(Package) /\ c \in Seq(ForClient) /\ NoAlerts(c)
  <2>1. c \in Seq(Package) /\ \A kind : Has(c, kind) => kind = "Sync"
    BY <1>1, ChangesOf
  <2>2. \A i \in DOMAIN c : c[i].kind \in {"Sync", "Map", "Final"}
    BY <2>1 DEF Has
  <2> HIDE DEF c
  <2> QED
    BY <2>1, <2>2, DataTells
<1>5. f \in Seq(Package) /\ f \in Seq(ForClient) /\ NoAlerts(f)
  <2>1. f \in Seq(Package)
    BY FinalType
  <2>2. \A i \in DOMAIN f : f[i].kind \in {"Sync", "Map", "Final"}
    BY DEF FinalPackage
  <2> HIDE DEF f
  <2> QED
    BY <2>1, <2>2, DataTells
<1>6. t = (b \o c) \o f
  BY DEF ModificationPackages
<1> HIDE DEF a, b, c, f
<1>7. /\ b \o c \in Seq(Package) /\ b \o c \in Seq(ForClient) /\ AlertsAhead(b \o c)
      /\ \A db : AlertFor(b, db) => AlertFor(b \o c, db)
  BY <1>3, <1>4, JoinAlerts, ConcatProperties
<1> DEFINE e == b \o c
<1>8. /\ e \in Seq(Package) /\ e \in Seq(ForClient) /\ AlertsAhead(e)
      /\ \A db : AlertFor(b, db) => AlertFor(e, db)
      /\ t = e \o f
  BY <1>6, <1>7
<1> HIDE DEF e
<1>9. /\ t \in Seq(Package) /\ t \in Seq(ForClient) /\ AlertsAhead(t)
      /\ \A db : AlertFor(e, db) => AlertFor(t, db)
  BY <1>5, <1>8, JoinAlerts, ConcatProperties
<1> QED
  BY <1>2, <1>3, <1>8, <1>9

LEMMA ServerFinalTogether ==
    ASSUME TypeOK, EndsOnce, Turns, Awake, Ordered, Together, SendsMaps, ModesTold,
           Sound, Sound', HandleServerFinal
    PROVE  Together'
<1>1. Client \in Party /\ Server \in Party /\ Client # Server
  BY TwoParties
<1>2. /\ SameConfig /\ ServerAtEnd /\ targets' = targets /\ sessionClosed' = sessionClosed
      /\ SameTold /\ statuses' = statuses /\ changeLog' = changeLog
      /\ syncWithoutInit' = syncWithoutInit
  BY ServerFinalView DEF HandleServerFinal, SameTold, peer, storage
<1>3. /\ ss = syncState[Server]
      /\ \A state : SetSyncState(Server, state) => ss' = state
      /\ \A new : AddPackages(Server, new) => sq' = sq \o new
  BY <1>1 DEF TypeOK, ss, sq, SetSyncState, AddPackages
<1>4. ServerKeeps /\ ClientKeeps
  BY <1>2, ServerKept, ClientKept
<1>5. changeLog[Server] = <<>> \/ ss = "SYNC_FINISHED"
  BY <1>1, NothingLogged DEF ss
<1>6. ss \in {"REMOTE_INIT", "RECEIVING_ITEMS"} => ~Speaking(sq)
  <2> SUFFICES ASSUME ss \in {"REMOTE_INIT", "RECEIVING_ITEMS"} PROVE ~Speaking(sq)
    OBVIOUS
  <2>1. ~Has(sq, "Sync") /\ ~Has(sq, "Final")
    BY DEF Ordered, NoSyncYet, NoFinalYet, EarlyStates
  <2> QED
    BY <2>1 DEF Speaking, Speaks, Has
<1>7. /\ <<FinalPackage>> \in Seq(Package) /\ <<FinalPackage>> \in Seq(ForClient)
      /\ NoAlerts(<<FinalPackage>>) /\ AlertsAhead(<<FinalPackage>>)
  <2> DEFINE f == <<FinalPackage>>
  <2>1. f \in Seq(Package)
    BY FinalType
  <2>2. \A i \in DOMAIN f : f[i].kind \in {"Sync", "Map", "Final"}
    BY DEF FinalPackage
  <2> HIDE DEF f
  <2>3. f \in Seq(Package) /\ f \in Seq(ForClient) /\ NoAlerts(f) /\ AlertsAhead(f)
    BY <2>1, <2>2, DataTells, NoneFor
  <2> QED
    BY <2>3 DEF f
<1>8. CASE ServerFinalInit
  <2>1. PICK s : s = InitializationAlerts(targets[Server])
    OBVIOUS
  <2>2. PICK t : t = s \o <<FinalPackage>>
    OBVIOUS
  <2>3. ss = "REMOTE_INIT" /\ ss' = "LOCAL_INIT" /\ sq' = sq \o t
    BY <1>3, <1>8, <2>1, <2>2 DEF ServerFinalInit
  <2>4. /\ s \in Seq(Package) /\ s \in Seq(ForClient) /\ AlertsAhead(s)
        /\ \A u \in st : AlertFor(s, u.db)
    BY <1>5, <2>1, <2>3, AlertsTell
  <2>5. /\ t \in Seq(Package) /\ t \in Seq(ForClient) /\ AlertsAhead(t)
        /\ \A db : AlertFor(s, db) => AlertFor(t, db)
    BY <1>7, <2>2, <2>4, JoinAlerts, ConcatProperties
  <2>6. /\ sq' \in Seq(ForClient) /\ AlertsAhead(sq')
        /\ \A db : AlertFor(sq, db) \/ AlertFor(t, db) => AlertFor(sq', db)
    BY <1>6, <2>3, <2>5, QueuedTells
  <2>7. \A u \in st : AlertFor(sq', u.db)
    BY <2>4, <2>5, <2>6
  <2>8. Listening
    BY <2>3, Waiting
  <2> QED
    BY <1>2, <1>4, <2>3, <2>6, <2>7, <2>8, ServerEndsAnswering
<1>9. CASE ServerFinalModifications
  <2>1. PICK t : t = ModificationPackages
    OBVIOUS
  <2>2. ss = "RECEIVING_ITEMS" /\ ss' = "SENDING_ITEMS" /\ sq' = sq \o t
    BY <1>3, <1>9, <2>1 DEF ServerFinalModifications
  <2>3. /\ t \in Seq(Package) /\ t \in Seq(ForClient) /\ AlertsAhead(t)
        /\ sw => \A u \in st : AlertFor(t, u.db)
    BY <1>5, <2>1, <2>2, ModificationsTell
  <2>4. /\ sq' \in Seq(ForClient) /\ AlertsAhead(sq')
        /\ \A db : AlertFor(sq, db) \/ AlertFor(t, db) => AlertFor(sq', db)
    BY <1>6, <2>2, <2>3, QueuedTells
  <2>5. sw => \A u \in st : AlertFor(sq', u.db)
    BY <2>3, <2>4
  <2>6. cw => Listening
    BY <2>2, Waiting
  <2> QED
    BY <1>2, <1>4, <2>2, <2>4, <2>5, <2>6, ServerEndsAnswering
<1>10. CASE ServerFinalLast
  <2>1. /\ ss \in {"RECEIVING_ITEMS", "RECEIVING_MAPPINGS", "SENDING_ITEMS"}
        /\ ss = "RECEIVING_ITEMS" => ~SendsModifications
        /\ ss' = "FINALIZING" /\ sq' = sq \o <<FinalPackage>>
    BY <1>3, <1>10 DEF ServerFinalLast
  <2>2. /\ sq' \in Seq(ForClient) /\ AlertsAhead(sq')
        /\ \A db : AlertFor(sq, db) => AlertFor(sq', db)
    BY <1>7, <2>1, QueuedTells
  <2>3. (ss = "RECEIVING_ITEMS" /\ cw) => st = {}
    <3> SUFFICES ASSUME ss = "RECEIVING_ITEMS", cw, NEW u \in st PROVE FALSE
      OBVIOUS
    <3>1. cinit /\ cfg.noInit
      BY DEF Together, ClientTargets
    <3>2. PICK i \in DOMAIN targets[Server] : u = Look(targets[Server][i])
      BY <1>5, TargetsLook DEF st
    <3>3. u.mode.dir = "FROM_CLIENT"
      BY <2>1, <3>2 DEF SendsModifications, Look
    <3>4. u.mode = ModeAtServer(u.db) /\ u.db \in Db
      BY <1>1, LooksType DEF st, Together, ServerTargets
    <3>5. ModeAtServer(u.db).dir = cfg.mode.dir
      BY <3>1, <3>4, ServerModeShows
    <3> QED
      BY <3>1, <3>3, <3>4, <3>5 DEF ModesTold
  <2> QED
    BY <1>2, <1>4, <2>1, <2>2, <2>3, ServerEndsFinally
<1>11. ASSUME ss' = ss, sq' = sq
       PROVE  Together'
  <2>1. SameServer /\ SameClient /\ AllLeft /\ (lastC' => lastC) /\ (lastS' => lastS)
    BY <1>2, <1>11 DEF ServerAtEnd, SameServer, AllLeft, Reverts
  <2> QED
    BY <1>2, <1>4, <2>1, QuietTogether
<1>12. CASE ServerFinalEarly
  BY <1>11, <1>12 DEF ServerFinalEarly, control, ss, sq
<1>13. CASE ServerFinalUnexpected
  <2>1. sq' = sq
    BY <1>13 DEF ServerFinalUnexpected, sq
  <2>2. ss' = ss
    <3>1. CASE sessionClosed[Server]
      BY <1>13, <3>1 DEF ServerFinalUnexpected, AbortInMessage, control, ss
    <3>2. CASE ~sessionClosed[Server]
      <4>1. ss' = LastError(Server)
        BY <1>1, <1>13, <3>2 DEF ServerFinalUnexpected, AbortInMessage, ss, TypeOK
      <4>2. LastError(Server) \in ErrorStates \/ LastError(Server) = ss
        BY <1>3 DEF LastError, ErrorStates
      <4> QED
        BY <4>1, <4>2 DEF Sound
    <3> QED
      BY <3>1, <3>2
  <2> QED
    BY <1>11, <2>1, <2>2
<1> QED
  BY <1>8, <1>9, <1>10, <1>12, <1>13 DEF HandleServerFinal

-----------------------------------------------------------------------------
(***************************************************************************)
(* The server: the end of a message, and its first one.                    *)
(***************************************************************************)
LEMMA ServerMessageTogether ==
    ASSUME TypeOK, EndsOnce, Turns, Awake, Ordered, Together, Sound, EndOfServerMessage
    PROVE  Together'
<1>1. /\ Client \in Party /\ Server \in Party /\ Client # Server
      /\ Other(Client) = Server /\ Other(Server) = Client
      /\ \A p \in Party : p = Client \/ p = Server
  BY TwoParties
<1>2. /\ AtEndOfMessage(Server) /\ MessageHandled(Server) /\ SameTold
      /\ syncWithoutInit' = syncWithoutInit /\ sw' = sw
  BY DEF EndOfServerMessage, SameTold, SameConfig, peer, sw
<1>3. /\ \A q \in Party : net[q] = <<>> /\ incoming[q] = <<>> /\ parsed[q] = <<>>
      /\ ~processing[Client] /\ processing[Server]
      /\ Coming(Server) = {<<>>} /\ Coming(Client) = {}
      /\ ~LastIn(Server) /\ ~LastIn(Client)
  BY <1>1, <1>2, Alone DEF AtEndOfMessage
<1>4. \A q \in Party : ~processing'[q]
  BY <1>1, <1>2, <1>3 DEF MessageHandled, TypeOK
\* A message that is sent
<1>5. ASSUME NEW s \in Sendable(Server), Generate(Server, s.k, s.cut),
             Receive(Server) \/ UNCHANGED <<armed, incoming, parsed>>,
             NEW m, m = Top(Server, s.k) \o s.cut.written
      PROVE  /\ toS = {<<>>} /\ toS' = {} /\ toC = {} /\ toC' = {m}
             /\ ~lastC /\ ~lastC' /\ ~lastS'
             /\ Passed(sq, m, s.cut.left) /\ m \in Seq(ForClient) /\ s.cut.left \in Seq(ForClient)
             /\ sa' \in Seq(ForClient) /\ statuses'[Client] = statuses[Client]
  <2>1. s.k \in 0..Len(statuses[Server]) /\ s.cut.written \in Seq(Package)
    BY <1>1, SendableType
  <2>2. /\ Coming(Server)' = {} /\ Coming(Client)' = {m}
        /\ \A q \in Party : ~LastIn(q)'
    <3>1. PICK k, cut : k = s.k /\ cut = s.cut
      OBVIOUS
    <3>2. /\ k \in 0..Len(statuses[Server]) /\ cut.written \in Seq(Package)
          /\ Generate(Server, k, cut)
          /\ Receive(Server) \/ UNCHANGED <<armed, incoming, parsed>>
      BY <1>5, <2>1, <3>1
    <3>3. /\ \A q \in Party : net[q] = <<>> /\ incoming[q] = <<>> /\ parsed[q] = <<>>
          /\ \A q \in Party : ~processing'[q]
      BY <1>3, <1>4
    <3>4. /\ Coming(Server)' = {} /\ Coming(Other(Server))' = {Top(Server, k) \o cut.written}
          /\ \A q \in Party : ~LastIn(q)'
      BY <1>1, <3>2, <3>3, SentView
    <3> QED
      BY <1>1, <1>5, <3>1, <3>4
  <2>3. Neutral \subseteq ForClient /\ sq \in Seq(ForClient) /\ sa \in Seq(ForClient)
    BY NeutralTells DEF Together, ToldToClient
  <2>4. /\ Passed(sq, m, s.cut.left) /\ m \in Seq(ForClient) /\ s.cut.left \in Seq(ForClient)
        /\ statuses'[Server] \in Seq(ForClient)
    BY <1>1, <1>5, <2>3, AnswerTells DEF sq, sa
  <2>5. statuses'[Client] = statuses[Client]
    BY <1>1, <1>5 DEF Generate, TypeOK
  <2>6. sa' \in Seq(ForClient)
    BY <2>4 DEF sa
  <2>7. /\ toS = {<<>>} /\ toS' = {} /\ toC = {} /\ toC' = {m}
        /\ ~lastC /\ ~lastC' /\ ~lastS'
    BY <1>1, <1>3, <2>2 DEF toC, toS, lastC, lastS
  <2> QED
    BY <2>4, <2>5, <2>6, <2>7
<1>6. CASE ServerAnswers /\ SendAndReceive(Server) /\ UNCHANGED <<control, targets, changeLog>>
  <2>1. PICK s \in Sendable(Server) : /\ Generate(Server, s.k, s.cut)
                                      /\ packages' = [packages EXCEPT ![Server] = s.cut.left]
    BY <1>6 DEF SendAndReceive
  <2>2. PICK m : m = Top(Server, s.k) \o s.cut.written
    OBVIOUS
  <2>3. /\ toS = {<<>>} /\ toS' = {} /\ toC = {} /\ toC' = {m}
        /\ ~lastC /\ ~lastC' /\ ~lastS'
        /\ Passed(sq, m, s.cut.left) /\ m \in Seq(ForClient) /\ s.cut.left \in Seq(ForClient)
        /\ sa' \in Seq(ForClient) /\ statuses'[Client] = statuses[Client]
    BY <1>5, <1>6, <2>1, <2>2 DEF SendAndReceive
  <2>4. sq' = s.cut.left /\ packages'[Client] = packages[Client]
    BY <1>1, <2>1 DEF sq, TypeOK
  <2>5. SameClient /\ ClientKeeps /\ st' = st /\ ss' = ss
    BY <1>2, <1>6, <2>3, <2>4, ClientUntouched, ClientKept, SameLooks DEF control, st, ss
  <2>6. Passed(sq, m, sq') /\ sq' \in Seq(ForClient)
    BY <2>3, <2>4
  <2> QED
    BY <1>2, <2>3, <2>5, <2>6, ServerTells
<1>7. CASE SendLast
  <2>1. PICK s \in Sendable(Server) :
            /\ Generate(Server, s.k, s.cut)
            /\ IF s.cut.left = <<>>
               THEN FinishSync(Server)
               ELSE /\ packages' = [packages EXCEPT ![Server] = s.cut.left]
                    /\ UNCHANGED <<control, targets, changeLog>>
    BY <1>7 DEF SendLast
  <2>2. PICK m : m = Top(Server, s.k) \o s.cut.written
    OBVIOUS
  <2>3. /\ toS = {<<>>} /\ toS' = {} /\ toC = {} /\ toC' = {m}
        /\ ~lastC /\ ~lastC' /\ ~lastS'
        /\ Passed(sq, m, s.cut.left) /\ m \in Seq(ForClient) /\ s.cut.left \in Seq(ForClient)
        /\ sa' \in Seq(ForClient) /\ statuses'[Client] = statuses[Client]
    BY <1>5, <1>7, <2>1, <2>2 DEF SendLast
  <2>4. ss = "FINALIZING" /\ ~sessionClosed[Server]
    BY <1>1, <1>7 DEF SendLast, ss, EndsOnce, ErrorStates
  <2>5. /\ ss' = ss \/ ss' = "SYNC_FINISHED"
        /\ sq' = s.cut.left /\ st' = st
        /\ packages'[Client] = packages[Client] /\ syncState'[Client] = syncState[Client]
        /\ ct' = ct
    <3>1. CASE s.cut.left = <<>>
      <4>1. FinishSync(Server)
        BY <2>1, <3>1
      <4>2. syncState'[Server] = "SYNC_FINISHED" /\ syncState'[Client] = syncState[Client]
        BY <1>1, <4>1 DEF FinishSync, TypeOK
      <4>3. /\ Looks(Server)' = Looks(Server) /\ Looks(Client)' = Looks(Client)
            /\ packages'[Client] = packages[Client]
        BY <1>1, <2>4, <4>1, <4>2, LooksLeft DEF FinishSync
      <4>4. packages'[Server] = <<>>
        BY <1>1, <2>4, <4>1 DEF FinishSync, ExitSync, TypeOK
      <4> QED
        BY <3>1, <4>2, <4>3, <4>4 DEF ss, sq, st, ct
    <3>2. CASE s.cut.left # <<>>
      <4>1. /\ packages' = [packages EXCEPT ![Server] = s.cut.left]
            /\ UNCHANGED <<control, targets, changeLog>>
        BY <2>1, <3>2
      <4> QED
        BY <1>1, <4>1, SameLooks DEF control, TypeOK, ss, sq, st, ct
    <3> QED
      BY <3>1, <3>2
  <2>6. SameClient /\ ClientKeeps
    BY <1>2, <2>3, <2>5, ClientUntouched DEF ClientKeeps, ca
  <2>7. ss \notin EarlyStates \cup {"RECEIVING_ITEMS"}
    BY <2>4 DEF EarlyStates
  <2>8. Passed(sq, m, sq') /\ sq' \in Seq(ForClient)
    BY <2>3, <2>5
  <2> QED
    BY <1>2, <2>3, <2>5, <2>6, <2>7, <2>8, ServerTells
<1>8. CASE EndIdle(Server)
  <2>1. NoneLeft /\ (lastC' => lastC) /\ (lastS' => lastS)
    <3>1. UNCHANGED link
      BY <1>8 DEF EndIdle
    <3>2. /\ Coming(Client)' = {} /\ Coming(Server)' = {}
          /\ ~LastIn(Client)' /\ ~LastIn(Server)'
      BY <1>1, <1>2, <3>1, IdleView
    <3> QED
      BY <3>2 DEF NoneLeft, toC, toS, lastC, lastS
  <2>2. UNCHANGED <<sessionClosed, changeLog, packages, targets>>
    <3> SUFFICES ASSUME syncFinished[Server], ~sessionClosed[Server] PROVE FALSE
      BY <1>8 DEF EndIdle, ExitSync
    <3>1. ss = "SYNC_FINISHED"
      BY <1>1 DEF EndsOnce, Sound, ss
    <3> QED
      BY <3>1 DEF Ordered, SavedFirst, closed
  <2>3. syncState' = syncState /\ statuses' = statuses
    BY <1>8 DEF EndIdle
  <2>4. SameServer /\ SameClient /\ ServerKeeps /\ ClientKeeps
    BY <1>2, <2>2, <2>3, ServerUntouched, ClientUntouched, ServerKept, ClientKept
  <2> QED
    BY <1>2, <2>1, <2>4, QuietTogether
<1> QED
  BY <1>6, <1>7, <1>8 DEF EndOfServerMessage

LEMMA InitiateServerTogether ==
    ASSUME TypeOK, Turns, Ordered, Together, FirstPackageWhole, InitiateServerSync
    PROVE  Together'
<1> DEFINE a == ServerAlerts
           f == <<FinalPackage>>
           pkgs == a \o f
<1>1. /\ cfg.mode.init = Server /\ syncState[Server] = "NOT_PREPARED"
      /\ Client \in Party /\ Server \in Party /\ Client # Server /\ Other(Server) = Client
  BY TwoParties DEF InitiateServerSync
<1>2. PICK cut \in Cuts(pkgs, TRUE) :
          /\ Generate(Server, 0, cut)
          /\ packages' = [packages EXCEPT ![Server] = cut.left]
  BY DEF InitiateServerSync
<1>3. /\ syncWithoutInit' = [syncWithoutInit EXCEPT ![Server] = cfg.noInit]
      /\ SetSyncState(Server, "PREPARED")
      /\ Receive(Server)
      /\ UNCHANGED <<cfg, peer, targets, reading, storage, faults>>
  BY DEF InitiateServerSync
<1>4. cut.left = <<>>
  BY ServerFirst DEF FirstPackageWhole
<1>5. a \in Seq(Package) /\ f \in Seq(Package)
  BY ServerAlertsType, FinalType
<1>6. /\ a \in Seq(ForNewClient) /\ f \in Seq(ForNewClient)
      /\ ~Speaking(a) /\ AlertsAhead(f)
  <2>1. \A i \in DOMAIN a : a[i] = Alert(ToSyncMLCode(cfg.mode), cfg.dbs[i])
    BY DEF ServerAlerts
  <2>2. \A i \in DOMAIN a : a[i] \in Fragment
    BY <1>5, InAll DEF Fragment
  <2>3. \A i \in DOMAIN a : a[i].kind = "Alert" /\ a[i].code = ToSyncMLCode(cfg.mode)
    BY <2>1 DEF Alert
  <2> HIDE DEF a
  <2>4. \A i \in DOMAIN a : a[i] \in ForNewClient /\ ~Speaks(a[i])
    BY <2>2, <2>3 DEF ForNewClient, Refreshes, Speaks
  <2>5. FinalPackage \in ForNewClient /\ ~Announces(FinalPackage)
    BY NeutralTells DEF Announces, FinalPackage
  <2>6. f \in Seq(ForNewClient) /\ NoAlerts(f)
    BY <2>5 DEF NoAlerts
  <2> QED
    BY <1>5, <2>4, <2>6, AllIn, NoneFor DEF Speaking
<1> HIDE DEF a, f
<1>7. pkgs \in Seq(Package) /\ pkgs \in Seq(ForNewClient) /\ AlertsAhead(pkgs)
  BY <1>5, <1>6, JoinAlerts, ConcatProperties
<1> HIDE DEF pkgs
<1>k. PICK k \in 0..Len(statuses[Server]) : k = 0
  BY <1>1, LenProperties DEF TypeOK
<1>m. PICK m : m = Top(Server, k) \o cut.written
  OBVIOUS
<1>t. PICK ample : ample /\ cut \in Cuts(pkgs, ample)
  OBVIOUS
<1>8. cut.written \in Seq(Package)
  BY <1>7, CutsType
<1>9. AlertsAhead(m)
  <2>1. Passed(pkgs, m, cut.left)
    BY <1>1, <1>7, <1>m, <1>t, WrittenTells
  <2> QED
    BY <1>7, <2>1 DEF Passed
<1>10. m \in Seq(ForNewClient)
  <2>1. {g \in Package : g.kind \in {"Sync", "Map"}} \subseteq ForNewClient /\ Header \in ForNewClient
    BY NeutralTells
  <2>2. cut.written \in Seq(ForNewClient)
    <3>1. PICK G : G = ForNewClient
      OBVIOUS
    <3> QED
      BY <1>7, <2>1, <3>1, CutAlerts
  <2>3. Top(Server, k) = <<Header>> \o <<>>
    <3>1. statuses[Server] \in Seq(Status)
      BY <1>1 DEF TypeOK
    <3>2. SubSeq(statuses[Server], 1, 0) = <<>>
      BY <3>1, SubSeqEmpty
    <3> QED
      BY <1>k, <3>2 DEF Top
  <2>4. <<Header>> \in Seq(ForNewClient) /\ <<>> \in Seq(ForNewClient)
    BY <2>1, EmptySeq
  <2> QED
    BY <1>m, <2>2, <2>3, <2>4, ConcatProperties
<1>11. sa' \in Seq(ForClient) /\ statuses'[Client] = statuses[Client]
  <2>1. /\ statuses'[Server] = SubSeq(statuses[Server], k + 1, Len(statuses[Server]))
        /\ statuses'[Client] = statuses[Client]
    BY <1>1, <1>2, <1>k DEF Generate, TypeOK
  <2>2. statuses[Server] \in Seq(ForClient)
    BY DEF Together, ToldToClient, sa
  <2>3. /\ k + 1 \in Nat \ {0} /\ Len(statuses[Server]) \in 0..Len(statuses[Server])
    BY <1>k, <2>2, LenProperties
  <2>4. SubSeq(statuses[Server], k + 1, Len(statuses[Server])) \in Seq(ForClient)
    BY <2>2, <2>3, SubSeqType
  <2> QED
    BY <2>1, <2>4 DEF sa
<1>12. \A q \in Party : /\ net[q] = <<>> /\ incoming[q] = <<>> /\ parsed[q] = <<>>
                        /\ ~processing[q]
  BY <1>1, NothingComing DEF Unstarted
<1>13. /\ toS' = {} /\ toC' = {m} /\ ~lastC' /\ ~lastS'
  <2>1. \A q \in Party : ~processing'[q]
    BY <1>3, <1>12 DEF reading
  <2>2. /\ Coming(Server)' = {} /\ Coming(Client)' = {m}
        /\ \A q \in Party : ~LastIn(q)'
    BY <1>1, <1>2, <1>3, <1>8, <1>12, <2>1, <1>m, <1>k, SentView
  <2> QED
    BY <1>1, <2>2 DEF toC, toS, lastC, lastS
<1>14. ss' = "PREPARED" /\ sq' = <<>> /\ ss = "NOT_PREPARED" /\ ~cinit
  BY <1>1, <1>2, <1>3, <1>4 DEF ss, sq, cinit, SetSyncState, TypeOK
<1>15. SameClient /\ SameTold
  BY <1>1, <1>2, <1>3 DEF SameClient, SameTold, SameConfig, cs, cq, cw, SetSyncState, peer, TypeOK
<1>16. ClientKeeps /\ st' = st
  BY <1>3, <1>11, ClientKept, SameLooks DEF storage, st
<1> QED
  BY <1>9, <1>10, <1>11, <1>13, <1>14, <1>15, <1>16, ServerBeginsTogether

-----------------------------------------------------------------------------
(***************************************************************************)
(* The server has the anchors of the client for each of its targets,       *)
(* whatever fails.                                                         *)
(***************************************************************************)
ServerAnchored == \A u \in st : u.anchored

LEMMA AnchoredMove ==
    ASSUME ServerAnchored, NEW f, targets'[Server] = f, changeLog'[Server] = changeLog[Server],
           DOMAIN f = DOMAIN targets[Server],
           \A i \in DOMAIN f : f[i].anchored = targets[Server][i].anchored \/ f[i].anchored = TRUE
    PROVE  ServerAnchored'
<1>1. \A x \in Looks(Server)' :
         \/ x \in Looks(Server)
         \/ \E i \in DOMAIN targets[Server] :
               x = Look(f[i]) /\ Look(targets[Server][i]) \in Looks(Server)
  BY LooksMove
<1>2. \A i \in DOMAIN targets[Server] :
         Look(targets[Server][i]) \in Looks(Server) => Look(f[i]).anchored
  BY DEF ServerAnchored, st, Look
<1> QED
  BY <1>1, <1>2 DEF ServerAnchored, st

LEMMA AnchoredLeft ==
    ASSUME TypeOK, ServerAnchored, NEW p \in Party, ExitSync(p)
    PROVE  ServerAnchored'
<1>1. /\ Looks(p)' \subseteq Looks(p)
      /\ \A q \in Party \ {p} : Looks(q)' = Looks(q)
  BY LooksLeft
<1>2. Looks(Server)' \subseteq Looks(Server)
  BY <1>1, TwoParties
<1> QED
  BY <1>2 DEF ServerAnchored, st

LEMMA AnchoredSame ==
    ASSUME ServerAnchored, targets'[Server] = targets[Server],
           changeLog'[Server] = changeLog[Server]
    PROVE  ServerAnchored'
<1>1. Looks(Server)' = Looks(Server)
  BY SameLooks
<1> QED
  BY <1>1 DEF ServerAnchored, st

LEMMA NextAnchored ==
    ASSUME TypeOK, ServerAnchored, [Next]_vars
    PROVE  ServerAnchored'
<1>1. /\ Client \in Party /\ Server \in Party /\ Client # Server
      /\ \A q \in Party : q = Client \/ q = Server
  BY TwoParties
<1>2. \A i \in DOMAIN targets[Server] : targets[Server][i] \in Target
  BY <1>1, ElementType
<1>3. ASSUME UNCHANGED <<targets, changeLog>>
      PROVE  ServerAnchored'
  BY <1>3, AnchoredSame
<1>4. ASSUME NEW q \in Party, Process(q) \/ Deliver(q)
      PROVE  ServerAnchored'
  <2>1. CASE HandleStatus(q)
    <3> DEFINE db == Head(fragments[q]).db
               f == [i \in DOMAIN targets[Server] |->
                        IF targets[Server][i].db = db
                        THEN RevertSyncMode(targets[Server][i]) ELSE targets[Server][i]]
    <3>1. changeLog' = changeLog
      BY <2>1 DEF HandleStatus, storage
    <3>2. targets'[Server] = targets[Server] \/ targets'[Server] = f
      BY <1>1, <2>1 DEF HandleStatus, WithTarget, TypeOK
    <3>3. \A i \in DOMAIN targets[Server] : f[i].anchored = targets[Server][i].anchored
      BY <1>2 DEF RevertSyncMode, Target
    <3>4. DOMAIN f = DOMAIN targets[Server]
      OBVIOUS
    <3> HIDE DEF f
    <3> QED
      BY <3>1, <3>2, <3>3, <3>4, AnchoredMove, AnchoredSame
  <2>2. CASE UNCHANGED <<targets, changeLog>>
    BY <1>3, <2>2
  <2> QED
    BY <1>4, <2>1, <2>2 DEF Process, Deliver, BeginMessage, ServeRequest, HandleHeader,
       HandleDevInf, HandleResults, HandleNextMessageAlert, HandleFinalElement, storage
<1>5. CASE ClientStep
  <2>1. CASE HandleClientSync
    <3>1. \A q \in Party : Looks(q)' = Looks(q)
      BY <1>1, <2>1, CommitLooks DEF HandleClientSync
    <3> QED
      BY <1>1, <3>1 DEF ServerAnchored, st
  <2>2. CASE EndOfClientMessage
    <3>1. UNCHANGED <<targets, changeLog>> \/ ExitSync(Client)
      BY <2>2 DEF EndOfClientMessage, FinishSync, EndIdle
    <3> QED
      BY <1>1, <1>3, <3>1, AnchoredLeft
  <2>3. CASE InitiateClientSync \/ HandleClientAlert \/ HandleClientFinal
    <3>1. targets'[Server] = targets[Server] /\ changeLog' = changeLog
      BY <1>1, <2>3 DEF InitiateClientSync, HandleClientAlert, SetupTargetByServer,
         AcknowledgeTargetOfClient, HandleClientFinal, ClientFinalInit,
         ClientFinalModifications, ClientFinalUpdateStatus, ClientFinalLast,
         ClientFinalUnexpected, WithTarget, storage, TypeOK
    <3> QED
      BY <3>1, AnchoredSame
  <2> QED
    BY <1>5, <2>1, <2>2, <2>3 DEF ClientStep
<1>6. CASE ServerStep
  <2>1. CASE HandleServerAlert
    <3> DEFINE alert == Head(fragments[Server])
               t == TargetByClient(alert)
               f == [i \in DOMAIN targets[Server] |->
                        IF targets[Server][i].db = alert.db
                        THEN AcknowledgedByServer(targets[Server][i]) ELSE targets[Server][i]]
    <3>1. /\ changeLog' = changeLog
          /\ Reading(Server, "Alert") /\ alert.code \in SyncCodes
      BY <2>1 DEF HandleServerAlert, storage
    <3>2. \/ targets'[Server] = targets[Server]
          \/ targets'[Server] = Append(targets[Server], t)
          \/ targets'[Server] = f
      BY <1>1, <2>1 DEF HandleServerAlert, SetupTargetByClient, AcknowledgeTargetOfServer,
         WithTarget, TypeOK
    <3>3. CASE targets'[Server] = targets[Server]
      BY <3>1, <3>3, AnchoredSame
    <3>4. CASE targets'[Server] = f
      <4>1. \A i \in DOMAIN f : f[i].anchored = targets[Server][i].anchored \/ f[i].anchored = TRUE
        BY <1>2 DEF AcknowledgedByServer, RevertSyncMode, Target
      <4>2. DOMAIN f = DOMAIN targets[Server]
        OBVIOUS
      <4> HIDE DEF f
      <4> QED
        BY <3>1, <3>4, <4>1, <4>2, AnchoredMove
    <3>5. CASE targets'[Server] = Append(targets[Server], t)
      <4>1. alert \in Fragment /\ alert.kind = "Alert" /\ alert.db \in Db
        <5>1. alert.db \in Db /\ fragments[Server] # <<>>
          BY <1>1, <3>1, KindType
        <5>2. fragments[Server] \in Seq(Fragment)
          BY <1>1 DEF TypeOK, Message
        <5>3. alert.kind = "Alert"
          BY <3>1 DEF Reading
        <5> QED
          BY <5>1, <5>2, <5>3, HeadTailProperties
      <4>2. alert = Alert(alert.code, alert.db)
        BY <4>1 DEF Fragment, Header, Status, Package, Alert
      <4>3. t \in Target /\ t.anchored = TRUE
        <5>1. PICK code, db : code = alert.code /\ db = alert.db
          OBVIOUS
        <5>2. alert = Alert(code, db) /\ code \in SyncCodes /\ db \in Db
          BY <3>1, <4>1, <4>2, <5>1
        <5> QED
          BY <5>2, TargetShows
      <4> HIDE DEF t
      <4>4. targets[Server] \in Seq(Target)
        BY <1>1 DEF TypeOK
      <4>5. Looks(Server)' = Looks(Server) \cup {Look(t)}
        BY <3>1, <3>5, <4>3, <4>4, LooksGrow
      <4> QED
        BY <4>3, <4>5 DEF ServerAnchored, st, Look
    <3> QED
      BY <3>2, <3>3, <3>4, <3>5
  <2>2. CASE HandleServerSync
    <3>1. \A q \in Party : Looks(q)' = Looks(q)
      BY <1>1, <2>2, CommitLooks DEF HandleServerSync
    <3> QED
      BY <1>1, <3>1 DEF ServerAnchored, st
  <2>3. CASE HandleServerMap
    <3> DEFINE map == Head(fragments[Server])
               f == [i \in DOMAIN targets[Server] |->
                        IF targets[Server][i].db = map.db
                        THEN [targets[Server][i] EXCEPT !.mapped = @ \o map.items]
                        ELSE targets[Server][i]]
    <3>1. changeLog' = changeLog /\ (targets' = targets \/ targets'[Server] = f)
      BY <1>1, <2>3 DEF HandleServerMap, AcceptMap, RejectMap, WithTarget, storage, TypeOK
    <3>2. \A i \in DOMAIN f : f[i].anchored = targets[Server][i].anchored
      BY <1>2 DEF Target
    <3>3. DOMAIN f = DOMAIN targets[Server]
      OBVIOUS
    <3> HIDE DEF f
    <3> QED
      BY <3>1, <3>2, <3>3, AnchoredMove, AnchoredSame
  <2>4. CASE EndOfServerMessage
    <3>1. UNCHANGED <<targets, changeLog>> \/ ExitSync(Server)
      BY <2>4 DEF EndOfServerMessage, SendLast, FinishSync, EndIdle
    <3> QED
      BY <1>1, <1>3, <3>1, AnchoredLeft
  <2>5. CASE InitiateServerSync \/ HandleServerFinal
    BY <1>3, <2>5 DEF InitiateServerSync, HandleServerFinal, storage
  <2> QED
    BY <1>6, <2>1, <2>2, <2>3, <2>4, <2>5 DEF ServerStep
<1>7. CASE Environment
  <2>1. ASSUME NEW q \in Party, NEW state, AbortSync(q, state)
        PROVE  ServerAnchored'
    BY <2>1, AnchoredLeft DEF AbortSync
  <2>2. CASE \E q \in Party : LoseMessage(q)
    BY <1>3, <2>2 DEF LoseMessage, storage
  <2>3. CASE \E q \in Party : UserAbort(q) \/ GarbledMessage(q)
    BY <2>1, <2>3 DEF UserAbort, GarbledMessage
  <2>4. CASE \E q \in Party : \E event \in {"invalid", "connection", "rejected", "sent"} :
                SetTransportStatus(q, event)
    BY <2>1, <2>4 DEF SetTransportStatus
  <2>5. CASE \E state \in {"INTERNAL_ERROR", "DATABASE_FAILURE", "CONNECTION_ERROR"} :
                StartupFailure(state)
    <3>1. cfg.mode.init \in Party
      BY ConfigType DEF AlertMode, SyncMode, Initiators, Party, Client, Server
    <3> QED
      BY <2>1, <2>5, <3>1 DEF StartupFailure
  <2> QED
    BY <1>7, <2>2, <2>3, <2>4, <2>5 DEF Environment
<1>8. CASE UNCHANGED vars
  BY <1>3, <1>8 DEF vars
<1> QED
  BY <1>4, <1>5, <1>6, <1>7, <1>8 DEF Next, Progress

-----------------------------------------------------------------------------
(***************************************************************************)
(* All steps, in a session whose first package is whole, whose client does *)
(* not omit its last one and is told the modes.                            *)
(***************************************************************************)
Agreed == Sound => Together

LEMMA InitAgreed == Init => Agreed /\ SendsMaps /\ ServerAnchored
<1> SUFFICES ASSUME Init PROVE Together /\ SendsMaps /\ ServerAnchored
  BY DEF Agreed
<1>1. /\ Client \in Party /\ Server \in Party /\ Client # Server
      /\ \A p \in Party : p = Client \/ p = Server
  BY TwoParties
<1>2. \A p \in Party : /\ syncState[p] = "NOT_PREPARED" /\ packages[p] = <<>>
                       /\ targets[p] = <<>> /\ ~processing[p] /\ ~last[p]
                       /\ net[p] = <<>> /\ incoming[p] = <<>> /\ parsed[p] = <<>>
                       /\ statuses[p] = <<>> /\ changeLog[p] = <<>> /\ ~syncWithoutInit[p]
  BY DEF Init
<1>3. /\ cs = "NOT_PREPARED" /\ ss = "NOT_PREPARED" /\ ca = <<>> /\ sa = <<>>
      /\ cq = <<>> /\ sq = <<>> /\ ~lastC /\ ~lastS /\ ~cw
  BY <1>1, <1>2 DEF cs, ss, cq, sq, ca, sa, cw, lastC, lastS, LastIn
<1>4. toC = {} /\ toS = {}
  BY <1>1, <1>2, RangeOf DEF toC, toS, Coming
<1>5. ct = {} /\ st = {}
  <2>1. \A p \in Party : \A x \in Looks(p) :
           \E i \in DOMAIN targets[p] : x = Look(targets[p][i])
    BY <1>2, TargetsLook
  <2>2. DOMAIN <<>> = {}
    BY EmptySeq, LenProperties
  <2>3. \A p \in Party : targets[p] = <<>>
    BY <1>2
  <2> QED
    BY <1>1, <2>1, <2>2, <2>3 DEF ct, st
<1>6. ToldToServer /\ ToldToClient
  <2>1. <<>> \in Seq(ForServer) /\ <<>> \in Seq(ForClient)
    BY EmptySeq
  <2> QED
    BY <1>3, <1>4, <2>1 DEF ToldToServer, ToldToClient
<1>7. ClientOrder /\ ServerOrder /\ AlertsEarly
  <2>1. AlertsAhead(<<>>) /\ NoAlerts(<<>>) /\ ~Has(<<>>, "Sync")
    BY EmptyAlerts, EmptyShows
  <2>2. cq = <<>> /\ sq = <<>>
    BY <1>3
  <2>3. AlertsAhead(cq) /\ NoAlerts(cq) /\ ~Has(cq, "Sync") /\ AlertsAhead(sq) /\ NoAlerts(sq)
    BY <2>1, <2>2
  <2> QED
    BY <1>4, <2>3 DEF ClientOrder, ServerOrder, AlertsEarly
<1>8. ServerTargets /\ ClientTargets /\ Heard
  BY <1>3, <1>4, <1>5 DEF ServerTargets, ClientTargets, Heard
<1>9. SendsMaps /\ ServerAnchored
  BY <1>3, <1>5 DEF SendsMaps, ServerAnchored
<1> QED
  BY <1>6, <1>7, <1>8, <1>9 DEF Together

LEMMA NextTogether ==
    ASSUME TypeOK, EndsOnce, Turns, Awake, Ordered, FirstPackageWhole, ~cfg.omit, ModesTold,
           SendsMaps, Agreed, Next
    PROVE  Agreed'
<1> SUFFICES ASSUME Sound' PROVE Together'
  BY DEF Agreed
<1>1. Sound /\ Together
  BY SoundBefore DEF Agreed
<1>2. ASSUME NEW p \in Party, Deliver(p)
      PROVE  Together'
  BY <1>1, <1>2, LeaveTogether
<1>3. ASSUME NEW p \in Party, Process(p)
      PROVE  Together'
  <2>1. p = Client \/ p = Server
    BY TwoParties
  <2>2. ~HandleResults(Server) /\ ~HandleDevInf(Client)
    BY <1>1, NoResults
  <2>3. CASE BeginMessage(p) \/ ServeRequest(p)
    BY <1>1, <2>3, BeginTogether, ServeTogether
  <2>4. CASE HandleStatus(p)
    BY <1>1, <2>1, <2>4, ClientStatusTogether, ServerStatusTogether
  <2>5. CASE HandleDevInf(p)
    BY <1>1, <2>1, <2>2, <2>5, ServerDevInfTogether
  <2>6. CASE HandleHeader(p) \/ HandleResults(p) \/ HandleNextMessageAlert(p)
             \/ HandleFinalElement(p)
    BY <1>1, <2>1, <2>2, <2>6, ClientPlainTogether, ServerPlainTogether
  <2> QED
    BY <1>3, <2>3, <2>4, <2>5, <2>6 DEF Process
<1>4. CASE ClientStep
  BY <1>1, <1>4, InitiateClientTogether, ClientAlertTogether, ClientSyncTogether,
     ClientFinalTogether, ClientMessageTogether DEF ClientStep
<1>5. CASE ServerStep
  BY <1>1, <1>5, InitiateServerTogether, ServerAlertTogether, ServerSyncTogether,
     ServerMapTogether, ServerFinalTogether, ServerMessageTogether DEF ServerStep
<1>6. CASE Environment
  BY <1>1, <1>6, OnlyLost, LeaveTogether
<1> QED
  BY <1>2, <1>3, <1>4, <1>5, <1>6 DEF Next, Progress

LEMMA StutterTogether ==
    ASSUME Ordered, Agreed, UNCHANGED vars
    PROVE  Agreed'
<1>1. /\ UNCHANGED <<cfg, control, syncWithoutInit, peer, packages, targets, statuses, storage>>
      /\ UNCHANGED <<reading, link>>
  BY DEF vars, control, peer, storage, reading, link
<1>2. LessComing /\ SameEnds
  BY <1>1, QuietView
<1>3. SameClient /\ SameServer /\ SameTold
  BY <1>1, ClientUntouched, ServerUntouched DEF control, SameTold, SameConfig, peer
<1>4. ClientKeeps /\ ServerKeeps
  BY <1>1, ClientKept, ServerKept DEF storage
<1>5. AllLeft
  BY <1>1 DEF AllLeft, toC, toS, Coming, reading, link
<1>6. (Sound' <=> Sound)
  BY <1>1 DEF Sound, cs, ss, control
<1> QED
  BY <1>2, <1>3, <1>4, <1>5, <1>6, QuietTogether DEF Agreed, SameEnds

-----------------------------------------------------------------------------
(***************************************************************************)
(* What was saved.                                                         *)
(***************************************************************************)
LEMMA SavedLook ==
    ASSUME NEW p, NEW t \in SavedTargets(p)
    PROVE  Look(t) \in Looks(p) /\ changeLog[p] # <<>>
<1>1. Look(t) \in Looks(p)
  BY DEF Looks, Kept
<1>2. changeLog[p] # <<>>
  BY EmptySeq, LenProperties DEF SavedTargets
<1> QED
  BY <1>1, <1>2

LEMMA SavedTogether ==
    ASSUME TypeOK, EndsOnce, Ordered, Agreed, NEW t \in SavedTargets(Client)
    PROVE  /\ Together /\ cs = "SYNC_FINISHED" /\ ss = "SYNC_FINISHED"
           /\ Look(t) \in ct /\ Look(t).db \in Db
           /\ t.db \in cfg.served => t.anchored
<1>1. /\ Client \in Party /\ Server \in Party
      /\ changeLog[Client] \in Seq(Seq(Target))
  BY TwoParties DEF TypeOK
<1>2. Look(t) \in ct /\ changeLog[Client] # <<>>
  BY SavedLook DEF ct
<1>3. Len(changeLog[Client]) # 0
  BY <1>1, <1>2, EmptySeq
<1>4. cs = "SYNC_FINISHED"
  BY <1>1, <1>3 DEF EndsOnce, cs
<1>5. ss = "SYNC_FINISHED"
  BY <1>4 DEF Ordered, SavedFirst
<1>6. Together
  BY <1>4, <1>5 DEF Agreed, Sound, ErrorStates
<1>7. Look(t).db \in Db
  BY <1>1, <1>2, LooksType DEF ct
<1>8. t.db \in cfg.served => t.anchored
  <2>1. Look(t).db \in cfg.served =>
           Look(t).anchored \/ Announced(Look(t).db) \/ Known(Look(t).db) \/ Answered(Look(t).db)
    BY <1>2, <1>4, <1>6 DEF Together, Heard
  <2>2. ~Announced(Look(t).db) /\ ~Known(Look(t).db) /\ ~Answered(Look(t).db)
    BY <1>4, <1>5 DEF Announced, Known, Answered, Listening, EarlyStates
  <2> QED
    BY <2>1, <2>2 DEF Look
<1> QED
  BY <1>2, <1>4, <1>5, <1>6, <1>7, <1>8

LEMMA AgreedModes ==
    ASSUME TypeOK, EndsOnce, Ordered, Agreed
    PROVE  ModesAgree
<1> SUFFICES ASSUME NEW t \in SavedTargets(Client), NEW u \in SavedTargets(Server),
                    t.db = u.db, Representable(u.mode)
             PROVE  t.mode = u.mode
  BY DEF ModesAgree
<1>1. Together /\ Look(t) \in ct /\ (t.db \in cfg.served => t.anchored)
  BY SavedTogether
<1>2. Look(u) \in st
  BY SavedLook DEF st
<1>3. u.mode = ModeAtServer(u.db) /\ u.db \in cfg.served
  <2>1. Look(u).mode = ModeAtServer(Look(u).db) /\ Look(u).db \in cfg.served
    BY <1>1, <1>2 DEF Together, ServerTargets
  <2> QED
    BY <2>1 DEF Look
<1>4. (t.anchored /\ Representable(ModeAtServer(t.db))) => t.mode = ModeAtServer(t.db)
  <2>1. (Look(t).anchored /\ Representable(ModeAtServer(Look(t).db)))
           => Look(t).mode = ModeAtServer(Look(t).db)
    BY <1>1 DEF Together, ClientTargets
  <2> QED
    BY <2>1 DEF Look
<1> QED
  BY <1>1, <1>3, <1>4

LEMMA AgreedAnchors ==
    ASSUME TypeOK, EndsOnce, Ordered, Agreed, ServerAnchored
    PROVE  AnchorsExchanged
<1>1. \A t \in SavedTargets(Client) : t.db \in cfg.served => t.anchored
  BY SavedTogether
<1>2. ASSUME NEW u \in SavedTargets(Server)
      PROVE  u.anchored
  <2>1. Look(u) \in st
    BY SavedLook DEF st
  <2>2. Look(u).anchored
    BY <2>1 DEF ServerAnchored
  <2> QED
    BY <2>2 DEF Look
<1> QED
  BY <1>1, <1>2, TwoParties DEF AnchorsExchanged

-----------------------------------------------------------------------------
\* The first package is whole, a client does not omit its last one, and one that
\* sends its changes without an initialization phase gets the alerts of the server
Orderly == FirstPackageWhole /\ ~cfg.omit /\ ModesTold

AgreementKept ==
    /\ Turns /\ Awake /\ SendsMaps /\ ServerAnchored
    /\ Orderly => Ordered /\ Agreed

LEMMA OrderlyKept ==
    ASSUME TypeOK, [Next]_vars
    PROVE  Orderly' <=> Orderly
<1>1. SameConfig /\ (FirstPackageWhole' <=> FirstPackageWhole)
  BY NextKeepsConfiguration, ConfigKept DEF SameConfig
<1>2. cfg' = cfg
  BY <1>1 DEF SameConfig
<1> QED
  BY <1>1, <1>2 DEF Orderly, ModesTold, cinit

\* In every behaviour, with every fault, of an orderly session: what holds of the
\* two sides while none gave up, and of what they know of each other
LEMMA AgreementInvariant == Spec => []AgreementKept
<1>1. Init => AgreementKept
  BY InitTurns, InitOrdered, InitAgreed DEF AgreementKept
<1>2. TypeOK /\ TypeOK' /\ EndsOnce /\ AgreementKept /\ [Next]_vars => AgreementKept'
  <2> SUFFICES ASSUME TypeOK, TypeOK', EndsOnce, AgreementKept, [Next]_vars
               PROVE  AgreementKept'
    OBVIOUS
  <2>1. Turns /\ Awake /\ SendsMaps /\ ServerAnchored
    BY DEF AgreementKept
  <2>2. Turns' /\ Awake' /\ ServerAnchored'
    BY <2>1, NextTurns, NextAwake, NextAnchored
  <2>3. SendsMaps'
    <3>1. CASE Next
      BY <2>1, <3>1, NextSendsMaps
    <3>2. CASE UNCHANGED vars
      BY <2>1, <3>2 DEF SendsMaps, cs, vars
    <3> QED
      BY <3>1, <3>2
  <2>4. Orderly' => Ordered' /\ Agreed'
    <3> SUFFICES ASSUME Orderly' PROVE Ordered' /\ Agreed'
      OBVIOUS
    <3>1. FirstPackageWhole /\ ~cfg.omit /\ ModesTold /\ Ordered /\ Agreed
      BY OrderlyKept DEF Orderly, AgreementKept
    <3>2. Ordered'
      BY <2>1, <3>1, NextOrdered
    <3>3. Agreed'
      BY <2>1, <3>1, NextTogether, StutterTogether
    <3> QED
      BY <3>2, <3>3
  <2> QED
    BY <2>2, <2>3, <2>4 DEF AgreementKept
<1> QED
  BY <1>1, <1>2, TypeCorrect, EndsInOrder, PTL DEF Spec

\* In every behaviour, with every fault: what both sides saved of a database, they
\* saved in one mode, if an alert code can tell the mode of the server, in a session
\* whose first package is whole, whose client does not omit its last package, and
\* where a client that sends its changes without an initialization phase is sent
\* changes too
THEOREM OneMode == Spec => [](Orderly => ModesAgree)
<1>1. TypeOK /\ EndsOnce /\ AgreementKept => (Orderly => ModesAgree)
  BY AgreedModes DEF AgreementKept
<1> QED
  BY <1>1, AgreementInvariant, TypeCorrect, EndsInOrder, PTL DEF Spec

\* In every behaviour, with every fault, of such a session: what a side saved of a
\* database that the server serves, it saved with the anchors of the other side
THEOREM AnchorsKnown == Spec => [](Orderly => AnchorsExchanged)
<1>1. TypeOK /\ EndsOnce /\ AgreementKept => (Orderly => AnchorsExchanged)
  BY AgreedAnchors DEF AgreementKept
<1> QED
  BY <1>1, AgreementInvariant, TypeCorrect, EndsInOrder, PTL DEF Spec

=============================================================================
