------------------------ MODULE SyncSessionSavesLast ------------------------
(***************************************************************************)
(* The client is the last to save, for any databases, items,               *)
(* configurations, message sizes and faults.                               *)
(*                                                                         *)
(* The two sessions reach their ends in an order that no message tells:    *)
(* what keeps it is where the ends of the packages are, in the queues and  *)
(* on their way, and what comes before them.                               *)
(***************************************************************************)
EXTENDS SyncSessionSafety

-----------------------------------------------------------------------------
(***************************************************************************)
(* Messages and queues, by what is in them and in which order.             *)
(***************************************************************************)
Has(s, kind) == \E i \in DOMAIN s : s[i].kind = kind

FinalIsLast(s) == \A i \in DOMAIN s : s[i].kind = "Final" => i = Len(s)

\* An alert of a database to synchronize
Announces(f) == f.kind = "Alert" /\ f.code \in SyncCodes
NoAlerts(s)  == \A i \in DOMAIN s : ~Announces(s[i])

\* A fragment that makes a client that sent its changes leave that state, and
\* messages and queues in which one comes before the end of a package
Warns(w, f)     == f.kind = "Sync" \/ (w /\ Announces(f))
Warning(w, s)   == \E i \in DOMAIN s : Warns(w, s[i])
WarnedAll(w, s) == \A i \in DOMAIN s : s[i].kind = "Final" =>
                      \E j \in DOMAIN s : j < i /\ Warns(w, s[j])

\* Changes follow each alert
Followed(s) == \A i \in DOMAIN s : Announces(s[i]) =>
                  \E j \in DOMAIN s : j > i /\ s[j].kind = "Sync"

\* A fragment that does not make a server revert a target, if it has no reason
Plain(f)    == f.kind # "Status" /\ (Announces(f) => ModeOf(f.code).type # "SLOW")
AllPlain(s) == \A i \in DOMAIN s : Plain(s[i])

\* The device information comes before all that a server acts upon
OnlyStatuses(s) == \A i \in DOMAIN s : s[i].kind \in {"Header", "Status"}
DevInfOnTop(s)  == \A i \in DOMAIN s : s[i].kind = "PutGet" =>
                      \A j \in DOMAIN s : j < i => s[j].kind \in {"Header", "Status"}
DevInfAhead(s)  == \A i \in DOMAIN s : s[i].kind = "PutGet" => i = 1

LEMMA EmptyShows ==
    /\ \A kind : ~Has(<<>>, kind)
    /\ \A w : WarnedAll(w, <<>>) /\ ~Warning(w, <<>>)
    /\ FinalIsLast(<<>>) /\ NoAlerts(<<>>) /\ Followed(<<>>) /\ AllPlain(<<>>)
    /\ OnlyStatuses(<<>>) /\ DevInfOnTop(<<>>) /\ DevInfAhead(<<>>)
<1> DEFINE e == <<>>
<1>1. DOMAIN e = {}
  BY EmptySeq, LenProperties
<1> HIDE DEF e
<1>2. /\ \A kind : ~Has(e, kind)
      /\ \A w : WarnedAll(w, e)
      /\ \A w : ~Warning(w, e)
  BY <1>1 DEF Has, WarnedAll, Warning
<1>3. FinalIsLast(e) /\ NoAlerts(e) /\ Followed(e) /\ AllPlain(e)
  BY <1>1 DEF FinalIsLast, NoAlerts, Followed, AllPlain
<1>4. OnlyStatuses(e) /\ DevInfOnTop(e) /\ DevInfAhead(e)
  BY <1>1 DEF OnlyStatuses, DevInfOnTop, DevInfAhead
<1> QED
  BY <1>2, <1>3, <1>4 DEF e

LEMMA FinalShows ==
    /\ DOMAIN <<FinalPackage>> = {1} /\ <<FinalPackage>>[1] = FinalPackage
    /\ Len(<<FinalPackage>>) = 1
    /\ \A kind : Has(<<FinalPackage>>, kind) <=> kind = "Final"
    /\ FinalIsLast(<<FinalPackage>>) /\ NoAlerts(<<FinalPackage>>)
<1>1. DOMAIN <<FinalPackage>> = {1} /\ <<FinalPackage>>[1] = FinalPackage
      /\ Len(<<FinalPackage>>) = 1
  OBVIOUS
<1> QED
  BY <1>1 DEF Has, FinalIsLast, NoAlerts, Announces, FinalPackage

\* The places of a sequence that was shortened by its first element
LEMMA TailPlaces ==
    ASSUME NEW S, NEW s \in Seq(S), s # <<>>
    PROVE  /\ s[1] = Head(s) /\ 1 \in DOMAIN s
           /\ \A i \in DOMAIN Tail(s) : i \in Nat /\ i >= 1 /\ i + 1 \in DOMAIN s /\ Tail(s)[i] = s[i + 1]
           /\ \A i \in DOMAIN s : i = 1 \/ \E j \in DOMAIN Tail(s) : i = j + 1
<1>1. /\ Tail(s) \in Seq(S) /\ Len(Tail(s)) = Len(s) - 1 /\ Head(s) = s[1]
      /\ \A i \in 1..(Len(s) - 1) : Tail(s)[i] = s[i + 1]
  BY HeadTailProperties
<1>2. DOMAIN s = 1..Len(s) /\ DOMAIN Tail(s) = 1..Len(Tail(s)) /\ Len(s) \in Nat
  BY <1>1, LenProperties
<1>3. Len(s) # 0
  BY EmptySeq
<1>4. \A i \in 1..Len(s) : i # 1 => i - 1 \in 1..(Len(s) - 1) /\ i = (i - 1) + 1
  BY <1>2
<1>5. \A i \in 1..(Len(s) - 1) : i \in Nat /\ i >= 1 /\ i + 1 \in 1..Len(s)
  BY <1>2
<1>6. 1 \in DOMAIN s
  BY <1>2, <1>3
<1>7. \A i \in DOMAIN s : i = 1 \/ \E j \in DOMAIN Tail(s) : i = j + 1
  BY <1>1, <1>2, <1>4
<1> QED
  BY <1>1, <1>2, <1>5, <1>6, <1>7

LEMMA TailShows ==
    ASSUME NEW S, NEW s \in Seq(S), s # <<>>
    PROVE  /\ \A kind : Has(s, kind) <=> Head(s).kind = kind \/ Has(Tail(s), kind)
           /\ \A w : Warning(w, s) => Warns(w, Head(s)) \/ Warning(w, Tail(s))
           /\ \A w : WarnedAll(w, s) =>
                 Head(s).kind # "Final" /\ (Warns(w, Head(s)) \/ WarnedAll(w, Tail(s)))
           /\ NoAlerts(s) => ~Announces(Head(s)) /\ NoAlerts(Tail(s))
           /\ AllPlain(s) => Plain(Head(s)) /\ AllPlain(Tail(s))
           /\ OnlyStatuses(s) => OnlyStatuses(Tail(s)) /\ Head(s).kind \in {"Header", "Status"}
<1> DEFINE t == Tail(s)
           h == Head(s)
<1>1. /\ s[1] = h /\ 1 \in DOMAIN s
      /\ \A i \in DOMAIN t : i \in Nat /\ i >= 1 /\ i + 1 \in DOMAIN s /\ t[i] = s[i + 1]
      /\ \A i \in DOMAIN s : i = 1 \/ \E j \in DOMAIN t : i = j + 1
  BY TailPlaces
<1> HIDE DEF t, h
<1>2. ASSUME NEW kind
      PROVE  Has(s, kind) <=> h.kind = kind \/ Has(t, kind)
  <2>1. Has(t, kind) => Has(s, kind)
    BY <1>1 DEF Has
  <2>2. h.kind = kind => Has(s, kind)
    BY <1>1 DEF Has
  <2>3. Has(s, kind) => h.kind = kind \/ Has(t, kind)
    BY <1>1 DEF Has
  <2> QED
    BY <2>1, <2>2, <2>3
<1>3. \A w : Warning(w, s) => Warns(w, h) \/ Warning(w, t)
  BY <1>1 DEF Warning
<1>4. ASSUME NEW w, WarnedAll(w, s)
      PROVE  h.kind # "Final" /\ (Warns(w, h) \/ WarnedAll(w, t))
  <2>1. h.kind # "Final"
    <3> SUFFICES ASSUME h.kind = "Final" PROVE FALSE
      OBVIOUS
    <3>1. PICK j \in DOMAIN s : j < 1
      BY <1>1, <1>4 DEF WarnedAll
    <3> QED
      BY <1>1, <3>1
  <2>2. ASSUME ~Warns(w, h), NEW i \in DOMAIN t, t[i].kind = "Final"
        PROVE  \E j \in DOMAIN t : j < i /\ Warns(w, t[j])
    <3>1. i + 1 \in DOMAIN s /\ s[i + 1].kind = "Final"
      BY <1>1, <2>2
    <3>2. PICK k \in DOMAIN s : k < i + 1 /\ Warns(w, s[k])
      BY <1>4, <3>1 DEF WarnedAll
    <3>3. PICK j \in DOMAIN t : k = j + 1
      BY <1>1, <2>2, <3>2
    <3> QED
      BY <1>1, <3>2, <3>3
  <2> QED
    BY <2>1, <2>2 DEF WarnedAll
<1>5. NoAlerts(s) => ~Announces(h) /\ NoAlerts(t)
  BY <1>1 DEF NoAlerts
<1>6. AllPlain(s) => Plain(h) /\ AllPlain(t)
  BY <1>1 DEF AllPlain
<1>7. OnlyStatuses(s) => OnlyStatuses(t) /\ h.kind \in {"Header", "Status"}
  BY <1>1 DEF OnlyStatuses
<1> QED
  BY <1>2, <1>3, <1>4, <1>5, <1>6, <1>7 DEF t, h

LEMMA TailOrder ==
    ASSUME NEW S, NEW s \in Seq(S), s # <<>>
    PROVE  /\ Followed(s) => /\ Followed(Tail(s))
                             /\ Announces(Head(s)) => Has(Tail(s), "Sync")
           /\ DevInfOnTop(s) => /\ DevInfOnTop(Tail(s))
                                /\ Head(s).kind \in {"Header", "Status"} \/ ~Has(Tail(s), "PutGet")
<1> DEFINE t == Tail(s)
           h == Head(s)
<1>1. /\ s[1] = h /\ 1 \in DOMAIN s
      /\ \A i \in DOMAIN t : i \in Nat /\ i >= 1 /\ i + 1 \in DOMAIN s /\ t[i] = s[i + 1]
      /\ \A i \in DOMAIN s : i = 1 \/ \E j \in DOMAIN t : i = j + 1
  BY TailPlaces
<1> HIDE DEF t, h
<1>2. ASSUME Followed(s) PROVE Followed(t)
  <2> SUFFICES ASSUME NEW i \in DOMAIN t, Announces(t[i])
               PROVE  \E j \in DOMAIN t : j > i /\ t[j].kind = "Sync"
    BY DEF Followed
  <2>1. PICK k \in DOMAIN s : k > i + 1 /\ s[k].kind = "Sync"
    BY <1>1, <1>2 DEF Followed
  <2>2. PICK j \in DOMAIN t : k = j + 1
    BY <1>1, <2>1
  <2> QED
    BY <1>1, <2>1, <2>2
<1>3. ASSUME Followed(s), Announces(h) PROVE Has(t, "Sync")
  <2>1. PICK k \in DOMAIN s : k > 1 /\ s[k].kind = "Sync"
    BY <1>1, <1>3 DEF Followed
  <2>2. PICK j \in DOMAIN t : k = j + 1
    BY <1>1, <2>1
  <2> QED
    BY <1>1, <2>1, <2>2 DEF Has
<1>4. ASSUME DevInfOnTop(s) PROVE DevInfOnTop(t)
  <2> SUFFICES ASSUME NEW i \in DOMAIN t, t[i].kind = "PutGet", NEW j \in DOMAIN t, j < i
               PROVE  t[j].kind \in {"Header", "Status"}
    BY DEF DevInfOnTop
  <2>1. i + 1 \in DOMAIN s /\ j + 1 \in DOMAIN s /\ j + 1 < i + 1
        /\ t[i] = s[i + 1] /\ t[j] = s[j + 1]
    BY <1>1
  <2> QED
    BY <1>4, <2>1 DEF DevInfOnTop
<1>5. ASSUME DevInfOnTop(s), Has(t, "PutGet") PROVE h.kind \in {"Header", "Status"}
  <2>1. PICK i \in DOMAIN t : t[i].kind = "PutGet"
    BY <1>5 DEF Has
  <2>2. i + 1 \in DOMAIN s /\ s[i + 1].kind = "PutGet" /\ 1 < i + 1
    BY <1>1, <2>1
  <2> QED
    BY <1>1, <1>5, <2>2 DEF DevInfOnTop
<1> QED
  BY <1>2, <1>3, <1>4, <1>5 DEF t, h

\* The places of two sequences in a row
LEMMA JoinPlaces ==
    ASSUME NEW S, NEW s \in Seq(S), NEW t \in Seq(S)
    PROVE  /\ Len(s) \in Nat /\ Len(s \o t) = Len(s) + Len(t)
           /\ \A i \in DOMAIN s : /\ i \in 1..Len(s) /\ i \in DOMAIN (s \o t)
                                  /\ (s \o t)[i] = s[i]
           /\ \A j \in DOMAIN t : /\ j \in 1..Len(t) /\ Len(s) + j \in DOMAIN (s \o t)
                                  /\ (s \o t)[Len(s) + j] = t[j]
           /\ \A i \in DOMAIN (s \o t) : i \in DOMAIN s \/ \E j \in DOMAIN t : i = Len(s) + j
<1> DEFINE a == Len(s)
           b == Len(t)
           u == s \o t
<1>1. a \in Nat /\ b \in Nat /\ DOMAIN s = 1..a /\ DOMAIN t = 1..b
  BY LenProperties
<1>2. /\ u \in Seq(S) /\ Len(u) = a + b
      /\ \A i \in 1..(a + b) : u[i] = IF i <= a THEN s[i] ELSE t[i - a]
  BY ConcatProperties
<1>3. DOMAIN u = 1..(a + b)
  BY <1>2, LenProperties
<1> HIDE DEF a, b, u
<1>4. \A i \in 1..a : i \in 1..(a + b) /\ u[i] = s[i]
  BY <1>1, <1>2
<1>5. \A j \in 1..b : a + j \in 1..(a + b) /\ u[a + j] = t[j]
  <2> SUFFICES ASSUME NEW j \in 1..b PROVE a + j \in 1..(a + b) /\ u[a + j] = t[j]
    OBVIOUS
  <2>1. a + j \in 1..(a + b) /\ ~(a + j <= a) /\ (a + j) - a = j
    BY <1>1
  <2> DEFINE k == a + j
  <2> HIDE DEF k
  <2>2. u[k] = t[k - a]
    BY <1>2, <2>1 DEF k
  <2> QED
    BY <2>1, <2>2 DEF k
<1>6. \A i \in 1..(a + b) : i \in 1..a \/ (i - a \in 1..b /\ i = a + (i - a))
  BY <1>1
<1> QED
  BY <1>1, <1>2, <1>3, <1>4, <1>5, <1>6 DEF a, b, u

LEMMA JoinShows ==
    ASSUME NEW S, NEW s \in Seq(S), NEW t \in Seq(S)
    PROVE  /\ \A kind : Has(s \o t, kind) <=> Has(s, kind) \/ Has(t, kind)
           /\ \A w : Warning(w, s) \/ Warning(w, t) => Warning(w, s \o t)
           /\ \A w : (~Has(s, "Final") /\ (Warning(w, s) \/ WarnedAll(w, t)))
                 => WarnedAll(w, s \o t)
           /\ (~Has(s, "Final") /\ FinalIsLast(t)) => FinalIsLast(s \o t)
           /\ (NoAlerts(s) /\ NoAlerts(t)) => NoAlerts(s \o t)
           /\ (AllPlain(s) /\ AllPlain(t)) => AllPlain(s \o t)
           /\ (OnlyStatuses(s) /\ DevInfAhead(t)) => DevInfOnTop(s \o t)
           /\ (OnlyStatuses(s) /\ OnlyStatuses(t)) => OnlyStatuses(s \o t)
           /\ (NoAlerts(s) /\ Followed(t)) => Followed(s \o t)
<1> DEFINE a == Len(s)
           u == s \o t
<1>1. /\ a \in Nat /\ Len(u) = a + Len(t)
      /\ \A i \in DOMAIN s : i \in 1..a /\ i \in DOMAIN u /\ u[i] = s[i]
      /\ \A j \in DOMAIN t : j \in 1..Len(t) /\ a + j \in DOMAIN u /\ u[a + j] = t[j]
      /\ \A i \in DOMAIN u : i \in DOMAIN s \/ \E j \in DOMAIN t : i = a + j
  BY JoinPlaces
<1>2. Len(t) \in Nat
  BY LenProperties
<1> HIDE DEF a, u
<1>3. ASSUME NEW kind
      PROVE  Has(u, kind) <=> Has(s, kind) \/ Has(t, kind)
  <2>1. Has(s, kind) => Has(u, kind)
    BY <1>1 DEF Has
  <2>2. Has(t, kind) => Has(u, kind)
    BY <1>1 DEF Has
  <2>3. Has(u, kind) => Has(s, kind) \/ Has(t, kind)
    BY <1>1 DEF Has
  <2> QED
    BY <2>1, <2>2, <2>3
<1>4. \A w : Warning(w, s) \/ Warning(w, t) => Warning(w, u)
  BY <1>1 DEF Warning
<1>5. ASSUME NEW w, ~Has(s, "Final"), Warning(w, s) \/ WarnedAll(w, t)
      PROVE  WarnedAll(w, u)
  <2> SUFFICES ASSUME NEW i \in DOMAIN u, u[i].kind = "Final"
               PROVE  \E j \in DOMAIN u : j < i /\ Warns(w, u[j])
    BY DEF WarnedAll
  <2>1. PICK k \in DOMAIN t : i = a + k
    BY <1>1, <1>5 DEF Has
  <2>2. k \in 1..Len(t) /\ t[k].kind = "Final"
    BY <1>1, <2>1
  <2>3. CASE Warning(w, s)
    <3>1. PICK j \in DOMAIN s : Warns(w, s[j])
      BY <2>3 DEF Warning
    <3>2. j \in 1..a /\ j \in DOMAIN u /\ u[j] = s[j]
      BY <1>1
    <3>3. j < i
      BY <1>1, <1>2, <2>1, <2>2, <3>2
    <3> QED
      BY <3>1, <3>2, <3>3
  <2>4. CASE WarnedAll(w, t)
    <3>1. PICK j \in DOMAIN t : j < k /\ Warns(w, t[j])
      BY <2>2, <2>4 DEF WarnedAll
    <3>2. j \in 1..Len(t) /\ a + j \in DOMAIN u /\ u[a + j] = t[j]
      BY <1>1
    <3>3. a + j < i
      BY <1>1, <1>2, <2>1, <2>2, <3>1, <3>2
    <3> QED
      BY <3>1, <3>2, <3>3
  <2> QED
    BY <1>5, <2>3, <2>4
<1>6. ASSUME ~Has(s, "Final"), FinalIsLast(t)
      PROVE  FinalIsLast(u)
  <2> SUFFICES ASSUME NEW i \in DOMAIN u, u[i].kind = "Final" PROVE i = Len(u)
    BY DEF FinalIsLast
  <2>1. PICK k \in DOMAIN t : i = a + k
    BY <1>1, <1>6 DEF Has
  <2>2. k = Len(t)
    BY <1>1, <1>6, <2>1 DEF FinalIsLast
  <2> QED
    BY <1>1, <2>1, <2>2
<1>7. (NoAlerts(s) /\ NoAlerts(t)) => NoAlerts(u)
  BY <1>1 DEF NoAlerts
<1>8. (AllPlain(s) /\ AllPlain(t)) => AllPlain(u)
  BY <1>1 DEF AllPlain
<1>9. ASSUME OnlyStatuses(s), DevInfAhead(t) PROVE DevInfOnTop(u)
  <2> SUFFICES ASSUME NEW i \in DOMAIN u, u[i].kind = "PutGet", NEW j \in DOMAIN u, j < i
               PROVE  u[j].kind \in {"Header", "Status"}
    BY DEF DevInfOnTop
  <2>1. PICK k \in DOMAIN t : i = a + k
    BY <1>1, <1>9 DEF OnlyStatuses
  <2>2. k = 1
    BY <1>1, <1>9, <2>1 DEF DevInfAhead
  <2>3. j \in DOMAIN s
    <3>1. \A n \in DOMAIN t : ~(a + n < a + 1)
      BY <1>1, <1>2
    <3> QED
      BY <1>1, <2>1, <2>2, <3>1
  <2> QED
    BY <1>1, <1>9, <2>3 DEF OnlyStatuses
<1>10. (OnlyStatuses(s) /\ OnlyStatuses(t)) => OnlyStatuses(u)
  BY <1>1 DEF OnlyStatuses
<1>11. ASSUME NoAlerts(s), Followed(t) PROVE Followed(u)
  <2> SUFFICES ASSUME NEW i \in DOMAIN u, Announces(u[i])
               PROVE  \E j \in DOMAIN u : j > i /\ u[j].kind = "Sync"
    BY DEF Followed
  <2>1. PICK k \in DOMAIN t : i = a + k
    BY <1>1, <1>11 DEF NoAlerts
  <2>2. PICK j \in DOMAIN t : j > k /\ t[j].kind = "Sync"
    BY <1>1, <1>11, <2>1 DEF Followed
  <2>3. a + j \in DOMAIN u /\ u[a + j] = t[j] /\ a + j > i
    BY <1>1, <1>2, <2>1, <2>2
  <2> QED
    BY <2>2, <2>3
<1> QED
  BY <1>3, <1>4, <1>5, <1>6, <1>7, <1>8, <1>9, <1>10, <1>11 DEF u

\* A cut that writes w packages of a queue and leaves those after the first o:
\* the same packages, but for the one that it cuts in two
CutIs(pkgs, cut, w, o) ==
    /\ o = w \/ (o + 1 = w /\ pkgs[w].kind \in {"Sync", "Map"})
    /\ Len(cut.written) = w /\ DOMAIN cut.written = 1..w
    /\ Len(cut.left) = Len(pkgs) - o /\ DOMAIN cut.left = 1..(Len(pkgs) - o)
    /\ \A i \in 1..w : /\ cut.written[i].kind = pkgs[i].kind
                       /\ cut.written[i] = pkgs[i] \/ pkgs[i].kind \in {"Sync", "Map"}
    /\ \A j \in 1..(Len(pkgs) - o) :
          /\ cut.left[j].kind = pkgs[o + j].kind
          /\ cut.left[j] = pkgs[o + j] \/ pkgs[o + j].kind \in {"Sync", "Map"}

\* Where a message with room for commands may end
MayStop(pkgs, w, o) ==
    \/ w = Len(pkgs) /\ o = w
    \/ w # 0 /\ pkgs[w].kind \in cfg.fillers \cup {"Sync", "Map"}

LEMMA CutPlaces ==
    ASSUME NEW pkgs \in Seq(Package), NEW ample, NEW cut \in Cuts(pkgs, ample)
    PROVE  \E w \in 0..Len(pkgs), o \in Nat :
              CutIs(pkgs, cut, w, o) /\ (~ample \/ MayStop(pkgs, w, o))
<1> DEFINE n == Len(pkgs)
<1>1. n \in Nat /\ DOMAIN pkgs = 1..n
  BY LenProperties
<1>2. \A m \in 1..(n + 1), k \in 0..n :
         /\ SubSeq(pkgs, m, k) \in Seq(Package)
         /\ Len(SubSeq(pkgs, m, k)) = IF m <= k THEN k - m + 1 ELSE 0
         /\ \A i \in 1..(k - m + 1) : SubSeq(pkgs, m, k)[i] = pkgs[m + i - 1]
  <2> SUFFICES ASSUME NEW m \in 1..(n + 1), NEW k \in 0..n
               PROVE  /\ SubSeq(pkgs, m, k) \in Seq(Package)
                      /\ Len(SubSeq(pkgs, m, k)) = IF m <= k THEN k - m + 1 ELSE 0
                      /\ \A i \in 1..(k - m + 1) : SubSeq(pkgs, m, k)[i] = pkgs[m + i - 1]
    OBVIOUS
  <2>1. \A i \in m..k : pkgs[i] \in Package
    BY <1>1, ElementOfSeq
  <2> QED
    BY <1>1, <2>1, SubSeqProperties
<1>3. ASSUME NEW w \in 0..n, cut = CutAfter(pkgs, w)
      PROVE  /\ Len(cut.written) = w /\ DOMAIN cut.written = 1..w
             /\ Len(cut.left) = n - w /\ DOMAIN cut.left = 1..(n - w)
             /\ \A i \in 1..w : cut.written[i] = pkgs[i]
             /\ \A j \in 1..(n - w) : cut.left[j] = pkgs[w + j]
  <2> DEFINE a == SubSeq(pkgs, 1, w)
             m == w + 1
             b == SubSeq(pkgs, m, n)
  <2>1. cut.written = a /\ cut.left = b
    BY <1>3 DEF CutAfter
  <2>2. m \in 1..(n + 1) /\ 1 \in 1..(n + 1) /\ n \in 0..n /\ w \in 0..n
    BY <1>1
  <2>3. /\ a \in Seq(Package) /\ Len(a) = (IF 1 <= w THEN w - 1 + 1 ELSE 0)
        /\ \A i \in 1..(w - 1 + 1) : a[i] = pkgs[1 + i - 1]
    BY <1>2, <2>2
  <2>4. /\ b \in Seq(Package) /\ Len(b) = (IF m <= n THEN n - m + 1 ELSE 0)
        /\ \A i \in 1..(n - m + 1) : b[i] = pkgs[m + i - 1]
    <3> HIDE DEF m
    <3> QED
      BY <1>2, <2>2
  <2> HIDE DEF a, b, n
  <2>5. Len(a) = w /\ Len(b) = n - w
    BY <1>1, <2>3, <2>4
  <2>6. DOMAIN a = 1..w /\ DOMAIN b = 1..(n - w)
    BY <2>3, <2>4, <2>5, LenProperties
  <2>7. \A i \in 1..w : i \in 1..(w - 1 + 1) /\ 1 + i - 1 = i
    BY <1>1
  <2>8. \A j \in 1..(n - w) : j \in 1..(n - m + 1) /\ m + j - 1 = w + j
    BY <1>1
  <2>9. \A i \in 1..w : a[i] = pkgs[i]
    BY <2>3, <2>7
  <2>10. \A j \in 1..(n - w) : b[j] = pkgs[w + j]
    BY <2>4, <2>8
  <2> QED
    BY <2>1, <2>5, <2>6, <2>9, <2>10
<1> HIDE DEF n
<1>8. \A v \in 0..n : v # n => v + 1 \in 1..n /\ v + 1 \in 0..n /\ v \in Nat /\ v + 2 \in 1..(n + 1)
  BY <1>1
<1>4. ASSUME NEW v \in 0..n, v # n, NEW k \in Parts(pkgs[v + 1], ample, v = 0),
             cut = CutWithin(pkgs, v, k)
      PROVE  /\ pkgs[v + 1].kind \in {"Sync", "Map"}
             /\ Len(cut.written) = v + 1 /\ DOMAIN cut.written = 1..(v + 1)
             /\ Len(cut.left) = n - v /\ DOMAIN cut.left = 1..(n - v)
             /\ \A i \in 1..v : cut.written[i] = pkgs[i]
             /\ cut.written[v + 1].kind = pkgs[v + 1].kind
             /\ cut.left[1].kind = pkgs[v + 1].kind
             /\ \A j \in 1..(n - v) : j # 1 => cut.left[j] = pkgs[v + j]
  <2> DEFINE a == SubSeq(pkgs, 1, v)
             x == [pkgs[v + 1] EXCEPT !.items = SubSeq(@, 1, k)]
             y == Remainder(pkgs[v + 1], k)
             m == v + 2
             b == SubSeq(pkgs, m, n)
  <2>1. cut.written = Append(a, x) /\ cut.left = <<y>> \o b
    BY <1>4 DEF CutWithin, n
  <2>2. pkgs[v + 1] \in Package
    BY <1>1, <1>4, <1>8, ElementOfSeq DEF n
  <2>3. x \in Package /\ y \in Package
    BY <2>2, <1>4, PartsType
  <2>4. pkgs[v + 1].kind \in {"Sync", "Map"}
    BY <1>4 DEF Parts
  <2>5. x.kind = pkgs[v + 1].kind /\ y.kind = pkgs[v + 1].kind
    BY <2>2, <2>4 DEF Package, Remainder
  <2>6. m \in 1..(n + 1) /\ 1 \in 1..(n + 1) /\ n \in 0..n /\ v \in 0..n
    BY <1>1, <1>4, <1>8
  <2>7. /\ a \in Seq(Package) /\ Len(a) = (IF 1 <= v THEN v - 1 + 1 ELSE 0)
        /\ \A i \in 1..(v - 1 + 1) : a[i] = pkgs[1 + i - 1]
    BY <1>2, <2>6
  <2>8. /\ b \in Seq(Package) /\ Len(b) = (IF m <= n THEN n - m + 1 ELSE 0)
        /\ \A i \in 1..(n - m + 1) : b[i] = pkgs[m + i - 1]
    <3> HIDE DEF m
    <3> QED
      BY <1>2, <2>6
  <2> HIDE DEF a, b, n, x, y
  <2>9. Len(a) = v /\ Len(b) = n - v - 1 /\ n - v - 1 \in Nat
    BY <1>1, <1>4, <2>7, <2>8
  <2>10. /\ Append(a, x) \in Seq(Package) /\ Len(Append(a, x)) = v + 1
         /\ \A i \in 1..v : Append(a, x)[i] = a[i]
         /\ Append(a, x)[v + 1] = x
    BY <2>3, <2>7, <2>9, AppendProperties
  <2>11. \A i \in 1..v : i \in 1..(v - 1 + 1) /\ 1 + i - 1 = i
    BY <1>1
  <2>12. \A i \in 1..v : a[i] = pkgs[i]
    BY <2>7, <2>11
  <2>13. <<y>> \in Seq(Package) /\ Len(<<y>>) = 1 /\ <<y>>[1] = y
    BY <2>3
  <2> DEFINE z == <<y>>
             u == z \o b
  <2> HIDE DEF z
  <2>14. /\ u \in Seq(Package) /\ Len(u) = 1 + (n - v - 1)
         /\ \A i \in 1..(1 + (n - v - 1)) : u[i] = IF i <= 1 THEN z[i] ELSE b[i - 1]
    BY <2>8, <2>9, <2>13, ConcatProperties DEF z
  <2> HIDE DEF u
  <2>15. Len(u) = n - v /\ DOMAIN u = 1..(n - v) /\ n - v >= 1
    BY <1>1, <2>9, <2>14, LenProperties
  <2>16. u[1] = y
    BY <1>1, <2>9, <2>13, <2>14 DEF z
  <2>17. \A j \in 1..(n - v) : j # 1 => u[j] = pkgs[v + j]
    <3> SUFFICES ASSUME NEW j \in 1..(n - v), j # 1 PROVE u[j] = pkgs[v + j]
      OBVIOUS
    <3>1. j \in 1..(1 + (n - v - 1)) /\ ~(j <= 1)
          /\ j - 1 \in 1..(n - m + 1) /\ m + (j - 1) - 1 = v + j
      BY <1>1
    <3> QED
      BY <2>8, <2>14, <3>1
  <2>18. DOMAIN Append(a, x) = 1..(v + 1)
    BY <2>10, LenProperties
  <2> QED
    BY <2>1, <2>4, <2>5, <2>10, <2>12, <2>15, <2>16, <2>17, <2>18 DEF u, z
<1>5. \/ \E w \in 0..n : /\ cut = CutAfter(pkgs, w)
                         /\ w = n \/ ~ample \/ (w > 0 /\ pkgs[w].kind \in cfg.fillers)
      \/ \E w \in 0..n : w # n /\
            \E k \in Parts(pkgs[w + 1], ample, w = 0) : cut = CutWithin(pkgs, w, k)
  BY DEF Cuts, n
<1>6. CASE \E w \in 0..n : /\ cut = CutAfter(pkgs, w)
                           /\ w = n \/ ~ample \/ (w > 0 /\ pkgs[w].kind \in cfg.fillers)
  <2>1. PICK w \in 0..n : /\ cut = CutAfter(pkgs, w)
                          /\ w = n \/ ~ample \/ (w > 0 /\ pkgs[w].kind \in cfg.fillers)
    BY <1>6
  <2>2. w \in 0..Len(pkgs) /\ w \in Nat
    BY <1>1 DEF n
  <2>3. CutIs(pkgs, cut, w, w)
    BY <1>3, <2>1 DEF n, CutIs
  <2>4. ~ample \/ MayStop(pkgs, w, w)
    BY <2>1, <2>2 DEF n, MayStop
  <2> QED
    BY <2>2, <2>3, <2>4
<1>7. CASE \E w \in 0..n : w # n /\
            \E k \in Parts(pkgs[w + 1], ample, w = 0) : cut = CutWithin(pkgs, w, k)
  <2>1. PICK v \in 0..n : v # n /\
            \E k \in Parts(pkgs[v + 1], ample, v = 0) : cut = CutWithin(pkgs, v, k)
    BY <1>7
  <2> DEFINE w == v + 1
  <2>2. /\ pkgs[w].kind \in {"Sync", "Map"}
        /\ Len(cut.written) = w /\ DOMAIN cut.written = 1..w
        /\ Len(cut.left) = n - v /\ DOMAIN cut.left = 1..(n - v)
        /\ \A i \in 1..v : cut.written[i] = pkgs[i]
        /\ cut.written[w].kind = pkgs[w].kind
        /\ cut.left[1].kind = pkgs[w].kind
        /\ \A j \in 1..(n - v) : j # 1 => cut.left[j] = pkgs[v + j]
    BY <1>4, <2>1
  <2>3. w \in 0..n /\ v \in Nat /\ v + 1 = w
    BY <1>8, <2>1
  <2>4. \A i \in 1..w : i \in 1..v \/ i = w
    BY <2>3
  <2> HIDE DEF w
  <2>5. \A i \in 1..w : /\ cut.written[i].kind = pkgs[i].kind
                        /\ cut.written[i] = pkgs[i] \/ pkgs[i].kind \in {"Sync", "Map"}
    BY <2>2, <2>4
  <2>6. \A j \in 1..(n - v) : /\ cut.left[j].kind = pkgs[v + j].kind
                              /\ cut.left[j] = pkgs[v + j] \/ pkgs[v + j].kind \in {"Sync", "Map"}
    BY <2>2, <2>3
  <2>7. w \in 0..Len(pkgs) /\ v \in Nat
    BY <2>3 DEF n
  <2>8. CutIs(pkgs, cut, w, v)
    BY <2>2, <2>3, <2>5, <2>6 DEF n, CutIs
  <2>9. MayStop(pkgs, w, v)
    BY <2>2, <2>3 DEF MayStop
  <2> QED
    BY <2>7, <2>8, <2>9
<1> QED
  BY <1>5, <1>6, <1>7

LEMMA CutShows ==
    ASSUME NEW pkgs \in Seq(Package), NEW ample, NEW cut \in Cuts(pkgs, ample)
    PROVE  /\ cut.written \in Seq(Package) /\ cut.left \in Seq(Package)
           /\ \A kind : Has(cut.written, kind) \/ Has(cut.left, kind) => Has(pkgs, kind)
           /\ NoAlerts(pkgs) => NoAlerts(cut.written) /\ NoAlerts(cut.left)
           /\ AllPlain(pkgs) => AllPlain(cut.written)
           /\ FinalIsLast(pkgs) => /\ FinalIsLast(cut.left)
                                   /\ Has(cut.written, "Final") => cut.left = <<>>
           /\ \A w : WarnedAll(w, pkgs) => /\ WarnedAll(w, cut.written)
                                           /\ WarnedAll(w, cut.left) \/ Warning(w, cut.written)
           /\ DevInfAhead(pkgs) => /\ DevInfAhead(cut.written) /\ DevInfAhead(cut.left)
                                   /\ Has(cut.left, "PutGet") => cut.written = <<>>
<1> DEFINE n == Len(pkgs)
           a == cut.written
           b == cut.left
<1>1. a \in Seq(Package) /\ b \in Seq(Package)
  BY CutsType
<1>2. n \in Nat /\ DOMAIN pkgs = 1..n
  BY LenProperties
<1>14. PICK w \in 0..n, o \in Nat : CutIs(pkgs, cut, w, o)
  BY CutPlaces
<1>3. /\ o = w \/ (o + 1 = w /\ pkgs[w].kind \in {"Sync", "Map"})
      /\ Len(a) = w /\ DOMAIN a = 1..w
      /\ Len(b) = n - o /\ DOMAIN b = 1..(n - o)
      /\ \A i \in 1..w : /\ a[i].kind = pkgs[i].kind
                         /\ a[i] = pkgs[i] \/ pkgs[i].kind \in {"Sync", "Map"}
      /\ \A j \in 1..(n - o) : /\ b[j].kind = pkgs[o + j].kind
                               /\ b[j] = pkgs[o + j] \/ pkgs[o + j].kind \in {"Sync", "Map"}
  BY <1>14, Zenon DEF CutIs
<1> HIDE DEF n, a, b
<1>4. \A i \in 1..w : i \in 1..n
  BY <1>2, <1>3
<1>5. \A j \in 1..(n - o) : o + j \in 1..n /\ j >= 1
  BY <1>2, <1>3
<1>6. ASSUME NEW kind, Has(a, kind) PROVE Has(pkgs, kind)
  <2>1. PICK i \in 1..w : a[i].kind = kind
    BY <1>3, <1>6 DEF Has
  <2>2. pkgs[i].kind = kind
    BY <1>3, <2>1
  <2> QED
    BY <1>2, <1>4, <2>2 DEF Has
<1>7. ASSUME NEW kind, Has(b, kind) PROVE Has(pkgs, kind)
  <2>1. PICK i \in 1..(n - o) : b[i].kind = kind
    BY <1>3, <1>7 DEF Has
  <2>2. pkgs[o + i].kind = kind
    BY <1>3, <2>1
  <2> QED
    BY <1>2, <1>5, <2>2 DEF Has
<1>8. ASSUME NoAlerts(pkgs) PROVE NoAlerts(a)
  <2> SUFFICES ASSUME NEW i \in 1..w PROVE ~Announces(a[i])
    BY <1>3 DEF NoAlerts
  <2>1. ~Announces(pkgs[i])
    BY <1>2, <1>4, <1>8 DEF NoAlerts
  <2> QED
    BY <1>3, <2>1 DEF Announces
<1>9. ASSUME NoAlerts(pkgs) PROVE NoAlerts(b)
  <2> SUFFICES ASSUME NEW i \in 1..(n - o) PROVE ~Announces(b[i])
    BY <1>3 DEF NoAlerts
  <2>1. ~Announces(pkgs[o + i])
    BY <1>2, <1>5, <1>9 DEF NoAlerts
  <2> QED
    BY <1>3, <2>1 DEF Announces
<1>10. ASSUME AllPlain(pkgs) PROVE AllPlain(a)
  <2> SUFFICES ASSUME NEW i \in 1..w PROVE Plain(a[i])
    BY <1>3 DEF AllPlain
  <2>1. Plain(pkgs[i])
    BY <1>2, <1>4, <1>10 DEF AllPlain
  <2> QED
    BY <1>3, <2>1 DEF Plain, Announces
<1>11. ASSUME FinalIsLast(pkgs)
       PROVE  FinalIsLast(b) /\ (Has(a, "Final") => b = <<>>)
  <2>1. FinalIsLast(b)
    <3> SUFFICES ASSUME NEW j \in DOMAIN b, b[j].kind = "Final" PROVE j = Len(b)
      BY DEF FinalIsLast
    <3>1. o + j = n
      BY <1>2, <1>3, <1>5, <1>11 DEF FinalIsLast, n
    <3> QED
      BY <1>2, <1>3, <3>1
  <2>2. ASSUME Has(a, "Final") PROVE b = <<>>
    <3>1. PICK i \in 1..w : a[i].kind = "Final"
      BY <1>3, <2>2 DEF Has
    <3>2. i = n /\ pkgs[i].kind = "Final"
      BY <1>2, <1>3, <1>4, <1>11, <3>1 DEF FinalIsLast, n
    <3>3. w = n
      BY <1>2, <1>3, <3>1, <3>2
    <3>4. o = n
      BY <1>3, <3>2, <3>3
    <3>5. Len(b) = 0
      BY <1>2, <1>3, <3>4
    <3> QED
      BY <1>1, <3>5, EmptySeq
  <2> QED
    BY <2>1, <2>2
<1>12. ASSUME NEW x, WarnedAll(x, pkgs)
       PROVE  WarnedAll(x, a) /\ (WarnedAll(x, b) \/ Warning(x, a))
  <2>1. \A i \in 1..w : Warns(x, pkgs[i]) => Warns(x, a[i])
    BY <1>3 DEF Warns, Announces
  <2>2. WarnedAll(x, a)
    <3> SUFFICES ASSUME NEW i \in DOMAIN a, a[i].kind = "Final"
                 PROVE  \E j \in DOMAIN a : j < i /\ Warns(x, a[j])
      BY DEF WarnedAll
    <3>1. PICK j \in DOMAIN pkgs : j < i /\ Warns(x, pkgs[j])
      BY <1>2, <1>3, <1>4, <1>12 DEF WarnedAll
    <3>2. j \in 1..w
      BY <1>2, <1>3, <3>1
    <3> QED
      BY <1>3, <2>1, <3>1, <3>2
  <2>3. ASSUME ~Warning(x, a) PROVE WarnedAll(x, b)
    <3> SUFFICES ASSUME NEW j \in DOMAIN b, b[j].kind = "Final"
                 PROVE  \E k \in DOMAIN b : k < j /\ Warns(x, b[k])
      BY DEF WarnedAll
    <3>1. o + j \in 1..n /\ pkgs[o + j].kind = "Final"
      BY <1>3, <1>5
    <3>2. PICK i \in 1..n : i < o + j /\ Warns(x, pkgs[i])
      BY <1>2, <1>12, <3>1 DEF WarnedAll
    <3>3. ~(i <= w)
      <4>1. i <= w => i \in 1..w
        BY <1>2, <1>3
      <4> QED
        BY <1>3, <2>1, <2>3, <3>2, <4>1 DEF Warning
    <3> DEFINE k == i - o
    <3>4. k \in 1..(n - o) /\ o + k = i /\ k < j
      BY <1>2, <1>3, <3>2, <3>3
    <3> HIDE DEF k
    <3>5. k # 1 \/ o = w
      BY <1>3, <3>3, <3>4
    <3>6. Warns(x, b[k])
      BY <1>3, <3>2, <3>4 DEF Warns, Announces
    <3> QED
      BY <1>3, <3>4, <3>6
  <2> QED
    BY <2>2, <2>3
<1>13. ASSUME DevInfAhead(pkgs)
       PROVE  DevInfAhead(a) /\ DevInfAhead(b) /\ (Has(b, "PutGet") => a = <<>>)
  <2>1. DevInfAhead(a)
    BY <1>2, <1>3, <1>4, <1>13 DEF DevInfAhead
  <2>2. ASSUME NEW j \in DOMAIN b, b[j].kind = "PutGet" PROVE j = 1 /\ w = 0
    <3>1. o + j = 1 /\ pkgs[o + j].kind = "PutGet" /\ j >= 1 /\ j \in Nat
      BY <1>2, <1>3, <1>5, <1>13, <2>2 DEF DevInfAhead
    <3>2. j = 1 /\ o = 0
      BY <1>3, <3>1
    <3>3. o + 1 # w
      BY <1>3, <3>1, <3>2
    <3> QED
      BY <1>3, <3>2, <3>3
  <2>3. w = 0 => a = <<>>
    BY <1>1, <1>3, EmptySeq
  <2> QED
    BY <2>1, <2>2, <2>3 DEF DevInfAhead, Has
<1> QED
  BY <1>1, <1>6, <1>7, <1>8, <1>9, <1>10, <1>11, <1>12, <1>13 DEF a, b

-----------------------------------------------------------------------------
(***************************************************************************)
(* The messages for a party, on their way or being handled.                *)
(***************************************************************************)
Coming(p) ==
    Range(net[p]) \cup Range(incoming[p]) \cup Range(parsed[p])
    \cup (IF processing[p] THEN {fragments[p]} ELSE {})

\* The message that a party handles is the last of its package
LastIn(p) == processing[p] /\ last[p]

cs    == syncState[Client]
ss    == syncState[Server]
cq    == packages[Client]
sq    == packages[Server]
toC   == Coming(Client)
toS   == Coming(Server)
lastC == LastIn(Client)
lastS == LastIn(Server)
cw    == syncWithoutInit[Client]

LEMMA TwoParties ==
    /\ Client \in Party /\ Server \in Party /\ Client # Server
    /\ Other(Client) = Server /\ Other(Server) = Client
    /\ \A p \in Party : p = Client \/ p = Server
  BY DEF Party, Client, Server, Other

LEMMA RangeOf ==
    /\ Range(<<>>) = {}
    /\ \A x : Range(<<x>>) = {x}
    /\ \A S, s : (s \in Seq(S) /\ Len(s) = 0) => s = <<>>
<1>1. Range(<<>>) = {}
  <2>1. DOMAIN <<>> = {}
    BY EmptySeq, LenProperties
  <2> QED
    BY <2>1 DEF Range
<1>2. ASSUME NEW x PROVE Range(<<x>>) = {x}
  <2>1. DOMAIN <<x>> = {1} /\ <<x>>[1] = x
    OBVIOUS
  <2> QED
    BY <2>1 DEF Range
<1> QED
  BY <1>1, <1>2, EmptySeq

LEMMA RangeOfTail ==
    ASSUME NEW S, NEW s \in Seq(S), s # <<>>
    PROVE  Range(Tail(s)) \subseteq Range(s) /\ Head(s) \in Range(s)
<1>1. /\ s[1] = Head(s) /\ 1 \in DOMAIN s
      /\ \A i \in DOMAIN Tail(s) : i + 1 \in DOMAIN s /\ Tail(s)[i] = s[i + 1]
  BY TailPlaces
<1> QED
  BY <1>1 DEF Range

LEMMA RangeOfAppend ==
    ASSUME NEW S, NEW s \in Seq(S), NEW x \in S
    PROVE  Range(Append(s, x)) \subseteq Range(s) \cup {x}
<1>1. /\ Append(s, x) \in Seq(S) /\ Len(Append(s, x)) = Len(s) + 1
      /\ \A i \in 1..Len(s) : Append(s, x)[i] = s[i]
      /\ Append(s, x)[Len(s) + 1] = x
  BY AppendProperties
<1>2. DOMAIN s = 1..Len(s) /\ Len(s) \in Nat /\ DOMAIN Append(s, x) = 1..(Len(s) + 1)
  BY <1>1, LenProperties
<1>3. \A i \in 1..(Len(s) + 1) : i \in 1..Len(s) \/ i = Len(s) + 1
  BY <1>2
<1> QED
  BY <1>1, <1>2, <1>3 DEF Range

\* While a message is handled there is no other
LEMMA Alone ==
    ASSUME TypeOK, Turns, NEW p \in Party, processing[p]
    PROVE  /\ \A q \in Party : net[q] = <<>> /\ incoming[q] = <<>> /\ parsed[q] = <<>>
           /\ ~processing[Other(p)]
           /\ Coming(p) = {fragments[p]} /\ Coming(Other(p)) = {}
           /\ ~LastIn(Other(p)) /\ (LastIn(p) <=> last[p])
<1>1. \A q \in Party : /\ Len(net[q]) \in Nat /\ Len(incoming[q]) \in Nat
                        /\ Len(parsed[q]) \in Nat /\ InHand(q) \in Nat
                        /\ Load(q) = Len(net[q]) + Len(incoming[q]) + Len(parsed[q]) + InHand(q)
  BY LoadType DEF Load
<1>2. InHand(p) = 1
  BY DEF InHand
<1>3. Load(p) + Load(Other(p)) <= 1
  BY LoadType, TwoParties DEF Turns, Traffic
<1>4. Other(p) \in Party /\ Other(p) # p /\ \A q \in Party : q = p \/ q = Other(p)
  BY TwoParties
<1>5. /\ Load(p) \in Nat /\ Load(Other(p)) \in Nat
      /\ Load(p) <= 1 /\ Load(Other(p)) <= 1 - Load(p)
  BY <1>3, <1>4, LoadType
<1>6. /\ \A q \in Party : Len(net[q]) = 0 /\ Len(incoming[q]) = 0 /\ Len(parsed[q]) = 0
      /\ InHand(Other(p)) = 0
  <2>1. ASSUME NEW q \in Party, NEW i \in Nat, Load(q) <= i, i <= InHand(q)
        PROVE  /\ Len(net[q]) = 0 /\ Len(incoming[q]) = 0 /\ Len(parsed[q]) = 0
               /\ InHand(q) = i
    <3> DEFINE a == Len(net[q])   b == Len(incoming[q])   c == Len(parsed[q])   d == InHand(q)
    <3>1. a \in Nat /\ b \in Nat /\ c \in Nat /\ d \in Nat /\ a + b + c + d <= i /\ i <= d
      BY <1>1, <2>1
    <3> HIDE DEF a, b, c, d
    <3>2. a = 0 /\ b = 0 /\ c = 0 /\ d = i
      BY <3>1
    <3> QED
      BY <3>2 DEF a, b, c, d
  <2> DEFINE x == Load(p)   y == Load(Other(p))   z == InHand(Other(p))   v == InHand(p)
  <2>2. x \in Nat /\ y \in Nat /\ z \in Nat /\ v = 1 /\ x <= 1 /\ y <= 1 - x /\ v <= x
    <3>1. v <= x
      <4> DEFINE a == Len(net[p])   b == Len(incoming[p])   c == Len(parsed[p])
      <4>1. a \in Nat /\ b \in Nat /\ c \in Nat /\ v \in Nat /\ x = a + b + c + v
        BY <1>1
      <4> HIDE DEF a, b, c, v, x
      <4> QED
        BY <4>1
    <3> QED
      BY <1>1, <1>2, <1>4, <1>5, <3>1
  <2> HIDE DEF x, y, z, v
  <2>3. x <= 1 /\ 1 <= v /\ y <= 0 /\ 0 <= z
    BY <2>2
  <2>4. /\ Len(net[p]) = 0 /\ Len(incoming[p]) = 0 /\ Len(parsed[p]) = 0
    BY <2>1, <2>3 DEF x, v
  <2>5. /\ Len(net[Other(p)]) = 0 /\ Len(incoming[Other(p)]) = 0 /\ Len(parsed[Other(p)]) = 0
        /\ InHand(Other(p)) = 0
    BY <1>4, <2>1, <2>3 DEF y, z
  <2>6. ASSUME NEW q \in Party
        PROVE  Len(net[q]) = 0 /\ Len(incoming[q]) = 0 /\ Len(parsed[q]) = 0
    <3>1. CASE q = p
      BY <2>4, <3>1
    <3>2. CASE q = Other(p)
      BY <2>5, <3>2
    <3> QED
      BY <1>4, <3>1, <3>2
  <2> QED
    BY <2>5, <2>6
<1>7. \A q \in Party : net[q] = <<>> /\ incoming[q] = <<>> /\ parsed[q] = <<>>
  <2>1. \A q \in Party : Len(net[q]) = 0 /\ Len(incoming[q]) = 0 /\ Len(parsed[q]) = 0
    BY <1>6
  <2>2. \A q \in Party : net[q] \in Seq(Message) /\ incoming[q] \in Seq(Message)
                         /\ parsed[q] \in Seq(Message)
    BY DEF TypeOK
  <2> QED
    BY <2>1, <2>2, EmptySeq
<1>8. ~processing[Other(p)]
  <2>1. InHand(Other(p)) = 0
    BY <1>6
  <2> QED
    BY <2>1 DEF InHand
<1> QED
  BY <1>4, <1>7, <1>8, RangeOf DEF Coming, LastIn

\* A fragment is dealt with
LEMMA ConsumedView ==
    ASSUME TypeOK, Turns, NEW p \in Party, processing[p],
           fragments' = [fragments EXCEPT ![p] = Tail(@)], UNCHANGED <<processing, link>>,
           last' \in [Party -> BOOLEAN], last'[Other(p)] = last[Other(p)]
    PROVE  /\ Coming(p) = {fragments[p]} /\ Coming(Other(p)) = {}
           /\ Coming(p)' = {Tail(fragments[p])} /\ Coming(Other(p))' = {}
           /\ ~LastIn(Other(p)) /\ ~LastIn(Other(p))'
           /\ (LastIn(p) <=> last[p]) /\ (LastIn(p)' <=> last'[p])
<1>1. /\ \A q \in Party : net[q] = <<>> /\ incoming[q] = <<>> /\ parsed[q] = <<>>
      /\ ~processing[Other(p)]
  BY Alone
<1>2. Other(p) \in Party /\ Other(p) # p /\ fragments'[p] = Tail(fragments[p])
  BY TwoParties DEF TypeOK
<1> QED
  BY <1>1, <1>2, Alone, RangeOf DEF Coming, LastIn, link

\* All of a message that was the last of its package is dealt with
LEMMA FinalView ==
    ASSUME TypeOK, Turns, NEW p \in Party, AtFinal(p), FinalHandled(p), UNCHANGED link
    PROVE  /\ Coming(p) = {<<>>} /\ Coming(Other(p)) = {}
           /\ Coming(p)' = {<<>>} /\ Coming(Other(p))' = {}
           /\ ~LastIn(Other(p)) /\ ~LastIn(Other(p))'
           /\ LastIn(p) /\ ~LastIn(p)'
<1>1. /\ \A q \in Party : net[q] = <<>> /\ incoming[q] = <<>> /\ parsed[q] = <<>>
      /\ ~processing[Other(p)] /\ processing[p] /\ fragments[p] = <<>> /\ last[p]
  BY Alone DEF AtFinal
<1>2. Other(p) \in Party /\ Other(p) # p /\ ~last'[p]
  BY TwoParties DEF TypeOK, FinalHandled
<1> QED
  BY <1>1, <1>2, Alone, RangeOf DEF Coming, LastIn, link, FinalHandled

\* A message was handled and is not answered
LEMMA IdleView ==
    ASSUME TypeOK, Turns, NEW p \in Party, AtEndOfMessage(p), MessageHandled(p), UNCHANGED link
    PROVE  /\ Coming(p) = {<<>>} /\ Coming(Other(p)) = {}
           /\ Coming(p)' = {} /\ Coming(Other(p))' = {}
           /\ \A q \in Party : ~LastIn(q) /\ ~LastIn(q)'
<1>1. /\ \A q \in Party : net[q] = <<>> /\ incoming[q] = <<>> /\ parsed[q] = <<>>
      /\ ~processing[Other(p)] /\ processing[p] /\ fragments[p] = <<>> /\ ~last[p]
  BY Alone DEF AtEndOfMessage
<1>2. Other(p) \in Party /\ Other(p) # p /\ \A q \in Party : q = p \/ q = Other(p)
  BY TwoParties
<1>3. processing'[p] = FALSE /\ processing'[Other(p)] = processing[Other(p)]
  BY <1>2 DEF TypeOK, MessageHandled
<1>4. \A q \in Party : ~processing'[q]
  BY <1>1, <1>2, <1>3
<1> QED
  BY <1>1, <1>2, <1>4, Alone, RangeOf DEF Coming, LastIn, link

\* What is written into a message before the packages
Top(p, k) == <<Header>> \o SubSeq(statuses[p], 1, k)

LEMMA TopShows ==
    ASSUME TypeOK, NEW p \in Party, NEW k \in 0..Len(statuses[p])
    PROVE  /\ Top(p, k) \in Seq(Fragment) /\ OnlyStatuses(Top(p, k))
           /\ NoAlerts(Top(p, k)) /\ (k = 0 => AllPlain(Top(p, k)))
           /\ \A kind : kind \notin {"Header", "Status"} => ~Has(Top(p, k), kind)
<1> DEFINE h == <<Header>>
           t == SubSeq(statuses[p], 1, k)
<1>1. /\ h \in Seq(Fragment) /\ OnlyStatuses(h) /\ NoAlerts(h) /\ AllPlain(h)
      /\ \A kind : kind \notin {"Header", "Status"} => ~Has(h, kind)
  <2>1. DOMAIN h = {1} /\ h[1] = [kind |-> "Header"] /\ h[1] \in Fragment
    BY DEF Header, Fragment
  <2>2. h \in Seq(Fragment)
    BY DEF Header, Fragment
  <2> HIDE DEF h
  <2> QED
    BY <2>1, <2>2 DEF OnlyStatuses, NoAlerts, Announces, AllPlain, Plain, Has
<1>2. t \in Seq(Status) /\ t \in Seq(Fragment)
  <2>1. t \in Seq(Status)
    BY SubSeqType DEF TypeOK
  <2> HIDE DEF t
  <2> QED
    BY <2>1, SeqMonotonic DEF Fragment
<1>3. k = 0 => t = <<>>
  BY SubSeqEmpty DEF TypeOK
<1> HIDE DEF h, t
<1>4. \A i \in DOMAIN t : t[i].kind = "Status"
  <2>1. \A i \in DOMAIN t : t[i] \in Status
    BY <1>2, ElementOfSeq, LenProperties
  <2> QED
    BY <2>1 DEF Status
<1>5. /\ OnlyStatuses(t) /\ NoAlerts(t)
      /\ \A kind : kind \notin {"Header", "Status"} => ~Has(t, kind)
  BY <1>4 DEF OnlyStatuses, NoAlerts, Announces, Has
<1>6. k = 0 => AllPlain(t)
  BY <1>3, EmptyShows
<1> DEFINE u == h \o t
<1>7. u \in Seq(Fragment)
  BY <1>1, <1>2, ConcatProperties
<1>8. /\ OnlyStatuses(u) /\ NoAlerts(u)
      /\ (AllPlain(h) /\ AllPlain(t)) => AllPlain(u)
  BY <1>1, <1>2, <1>5, JoinShows
<1>9. \A kind : kind \notin {"Header", "Status"} => ~Has(u, kind)
  BY <1>1, <1>2, <1>5, JoinShows
<1>10. u = Top(p, k)
  BY DEF Top, h, t
<1> HIDE DEF u
<1> QED
  BY <1>1, <1>6, <1>7, <1>8, <1>9, <1>10

\* A party sends, in answer to a message or to begin, while there is no other
LEMMA SentView ==
    ASSUME TypeOK, NEW p \in Party, NEW k \in 0..Len(statuses[p]), NEW cut,
           cut.written \in Seq(Package), Generate(p, k, cut),
           \A q \in Party : net[q] = <<>> /\ incoming[q] = <<>> /\ parsed[q] = <<>>,
           Receive(p) \/ UNCHANGED <<armed, incoming, parsed>>,
           \A q \in Party : ~processing'[q]
    PROVE  /\ Coming(p)' = {} /\ Coming(Other(p))' = {Top(p, k) \o cut.written}
           /\ \A q \in Party : ~LastIn(q)'
<1> DEFINE message == Top(p, k) \o cut.written
           o == Other(p)
<1>1. o \in Party /\ o # p /\ \A q \in Party : q = p \/ q = o
  BY TwoParties
<1>2. net' = [net EXCEPT ![o] = Append(@, message)]
  BY DEF Generate, Top
<1>3. \A q \in Party : incoming'[q] = <<>> /\ parsed'[q] = <<>>
  BY DEF Receive
<1> HIDE DEF message, o
<1>4. net'[p] = <<>> /\ net'[o] = Append(<<>>, message)
  BY <1>1, <1>2 DEF TypeOK
<1>5. Append(<<>>, message) = <<message>>
  OBVIOUS
<1>6. Coming(p)' = {}
  BY <1>1, <1>3, <1>4, RangeOf DEF Coming
<1>7. Coming(o)' = {message}
  BY <1>1, <1>3, <1>4, <1>5, RangeOf DEF Coming
<1> QED
  BY <1>6, <1>7 DEF message, o, LastIn

-----------------------------------------------------------------------------
(***************************************************************************)
(* The order of things: what the state of a session says of what is queued *)
(* and on its way, and of the state of the other one.                      *)
(***************************************************************************)
EarlyStates == {"NOT_PREPARED", "PREPARED", "REMOTE_INIT"}
GoneStates  == ErrorStates \cup {"SYNC_FINISHED"}

cinit  == cfg.mode.init = Client
closed == sessionClosed[Server]

\* A package of the server ends, or is about to end, for the client
EndingC == lastC \/ \E m \in toC : Has(m, "Final")

Unprepared ==
    /\ cs = "NOT_PREPARED" => cq = <<>> /\ toS = {} /\ (cinit => ss = "NOT_PREPARED")
    /\ ss = "NOT_PREPARED" => /\ sq = <<>> /\ toC = {} /\ ~Reverts
                              /\ ~cinit => cs = "NOT_PREPARED"

Preparing ==
    /\ cs = "PREPARED" => lastC /\ cq = <<>>
    /\ cs \in {"NOT_PREPARED", "PREPARED"} => ss \in {"NOT_PREPARED", "PREPARED"} \cup ErrorStates

NoSyncYet ==
    ss \in EarlyStates \cup {"LOCAL_INIT", "RECEIVING_ITEMS"} =>
        /\ ~Has(sq, "Sync")
        /\ \A m \in toC : ~Has(m, "Sync")
        /\ cs \notin {"RECEIVING_ITEMS", "SENDING_MAPPINGS", "FINALIZING", "SYNC_FINISHED"}

NoFinalYet ==
    ss \in EarlyStates \cup {"RECEIVING_ITEMS", "RECEIVING_MAPPINGS"} => ~Has(sq, "Final")

OneFinal ==
    ss \notin GoneStates =>
        /\ EndingC => ~Has(sq, "Final")
        /\ FinalIsLast(sq)

MappingsSent ==
    (cs = "SENDING_MAPPINGS" /\ ss # "SYNC_FINISHED") =>
        /\ ~EndingC
        /\ Has(sq, "Final") => ss \in ErrorStates \cup {"FINALIZING"}

Finalized == ss = "FINALIZING" => ~EndingC

ItemsSent ==
    (cs = "SENDING_ITEMS" /\ ss # "SYNC_FINISHED") =>
        /\ ~lastC
        /\ \A m \in toC : WarnedAll(cw, m)
        /\ (ss \notin ErrorStates \cup {"FINALIZING"} /\ ~WarnedAll(cw, sq)) =>
              (toS = {} /\ \A m \in toC : Warning(cw, m))

SavedFirst ==
    /\ cs \in {"FINALIZING", "SYNC_FINISHED"} => ss = "SYNC_FINISHED"
    /\ ss = "SYNC_FINISHED" => closed

Initialized ==
    ss = "LOCAL_INIT" =>
        /\ Has(sq, "Final") => \A m \in toS : ~Has(m, "Sync")
        /\ (Has(sq, "Final") \/ EndingC) => ~Has(cq, "Sync")

FirstTaken ==
    (cs = "SENDING_ITEMS" /\ ss \in EarlyStates) =>
        /\ cw /\ cinit /\ cfg.noInit
        /\ ss = "NOT_PREPARED" \/ lastS
        /\ ss = "REMOTE_INIT" => Reverts \/ \A m \in toS : Has(m, "Sync")
        /\ ss # "REMOTE_INIT" => \A m \in toS : Followed(m)

ChangesCut ==
    (ss \in EarlyStates /\ Has(cq, "Sync")) =>
        /\ cs = "SENDING_ITEMS" /\ ~MayRevert /\ ~Reverts
        /\ \A m \in toS : AllPlain(m)

DevInfFirst ==
    /\ ~Has(sq, "PutGet") /\ \A m \in toC : ~Has(m, "PutGet")
    /\ \A m \in toS : DevInfOnTop(m)
    /\ DevInfAhead(cq)
    /\ Has(cq, "PutGet") => \A m \in toS : OnlyStatuses(m)
    /\ (Has(cq, "PutGet") \/ \E m \in toS : Has(m, "PutGet")) =>
          ss \in {"NOT_PREPARED", "PREPARED"} \cup ErrorStates

Alerted ==
    ss \in EarlyStates =>
        /\ cs # "REMOTE_INIT"
        /\ NoAlerts(sq)
        /\ cs \in {"LOCAL_INIT", "SENDING_ITEMS"} => \A m \in toC : NoAlerts(m)

Ordered ==
    /\ Unprepared /\ Preparing /\ NoSyncYet /\ NoFinalYet /\ OneFinal /\ MappingsSent
    /\ Finalized /\ ItemsSent /\ SavedFirst /\ Initialized /\ FirstTaken /\ ChangesCut
    /\ DevInfFirst /\ Alerted

\* A session that was not prepared handles no message
Awake == \A p \in Party : processing[p] => syncState[p] # "NOT_PREPARED"

-----------------------------------------------------------------------------
(***************************************************************************)
(* Steps that change the state of one session at most, and bring nothing   *)
(* on its way.                                                             *)
(***************************************************************************)
SameConfig == cfg' = cfg
SameClient == cs' = cs /\ cq' = cq /\ cw' = cw
SameServer == ss' = ss /\ sq' = sq /\ (Reverts' <=> Reverts) /\ (closed' <=> closed)
SameEnds   == (lastC' <=> lastC) /\ (lastS' <=> lastS)
LessComing == toC' \subseteq toC /\ toS' \subseteq toS

LEMMA ConfigKept ==
    ASSUME SameConfig
    PROVE  /\ (cinit' <=> cinit) /\ (MayRevert' <=> MayRevert)
           /\ (cfg.noInit' <=> cfg.noInit) /\ (FirstPackageWhole' <=> FirstPackageWhole)
<1>1. /\ (cinit' <=> cinit) /\ (MayRevert' <=> MayRevert) /\ (cfg.noInit' <=> cfg.noInit)
  BY DEF SameConfig, cinit, MayRevert
<1>2. FirstPackageWhole' <=> FirstPackageWhole
  BY DEF SameConfig, MayRevert, FirstPackageWhole, FirstPackage, InitializationPackages,
         InitialTargets, Discovered, DiscoverLocalChanges, Discoverable, LocalChanges,
         Cuts, Parts, Fits
<1> QED
  BY <1>1, <1>2

\* A message moves on, or is lost
LEMMA QuietKeeps ==
    ASSUME Ordered, SameConfig, SameClient, SameServer, LessComing, SameEnds
    PROVE  Ordered'
<1>1. /\ (cinit' <=> cinit) /\ (MayRevert' <=> MayRevert) /\ (cfg.noInit' <=> cfg.noInit)
  BY ConfigKept
<1>2. EndingC' => EndingC
  BY DEF EndingC, LessComing, SameEnds
<1>3. Unprepared'
  BY <1>1 DEF Ordered, Unprepared, SameClient, SameServer, LessComing
<1>4. Preparing'
  BY DEF Ordered, Preparing, SameClient, SameServer, SameEnds
<1>5. NoSyncYet' /\ NoFinalYet'
  BY DEF Ordered, NoSyncYet, NoFinalYet, SameClient, SameServer, LessComing
<1>6. OneFinal' /\ MappingsSent' /\ Finalized'
  BY <1>2 DEF Ordered, OneFinal, MappingsSent, Finalized, SameClient, SameServer
<1>7. ItemsSent'
  BY DEF Ordered, ItemsSent, SameClient, SameServer, LessComing, SameEnds
<1>8. SavedFirst' /\ Initialized'
  BY <1>2 DEF Ordered, SavedFirst, Initialized, SameClient, SameServer, LessComing
<1>9. FirstTaken' /\ ChangesCut'
  BY <1>1 DEF Ordered, FirstTaken, ChangesCut, SameClient, SameServer, LessComing, SameEnds
<1>10. DevInfFirst' /\ Alerted'
  BY DEF Ordered, DevInfFirst, Alerted, SameClient, SameServer, LessComing
<1> QED
  BY <1>3, <1>4, <1>5, <1>6, <1>7, <1>8, <1>9, <1>10 DEF Ordered

\* The client gives up, or is done after the server
LEMMA ClientLeaves ==
    ASSUME Ordered, SameConfig, SameServer, LessComing, cw' = cw,
           cs' \in ErrorStates \/ (cs' = "SYNC_FINISHED" /\ ss = "SYNC_FINISHED"),
           ~cinit => cs # "NOT_PREPARED",
           cq' = <<>> \/ (cq' = cq /\ cs # "SENDING_ITEMS"),
           lastC' => lastC, lastS' <=> lastS
    PROVE  Ordered'
<1>1. /\ (cinit' <=> cinit) /\ (MayRevert' <=> MayRevert) /\ (cfg.noInit' <=> cfg.noInit)
  BY ConfigKept
<1>2. EndingC' => EndingC
  BY DEF EndingC, LessComing
<1>3. cs' \notin ProgressStates /\ cs' # "NOT_PREPARED"
  BY StatesDiffer DEF EndStates
<1>4. /\ cs' \notin {"NOT_PREPARED", "PREPARED", "RECEIVING_ITEMS", "SENDING_MAPPINGS", "FINALIZING"}
      /\ cs' \notin {"SENDING_ITEMS", "LOCAL_INIT", "REMOTE_INIT"}
      /\ cs' = "SYNC_FINISHED" => ss = "SYNC_FINISHED"
  BY <1>3 DEF ProgressStates, InitStates, ExchangeStates, ErrorStates
<1>5. Unprepared' /\ Preparing'
  BY <1>1, <1>4 DEF Ordered, Unprepared, Preparing, SameServer, LessComing
<1>6. NoSyncYet' /\ NoFinalYet'
  BY <1>4 DEF Ordered, NoSyncYet, NoFinalYet, SameServer, LessComing, EarlyStates
<1>7. OneFinal' /\ MappingsSent' /\ Finalized'
  BY <1>2, <1>4 DEF Ordered, OneFinal, MappingsSent, Finalized, SameServer
<1>8. ItemsSent' /\ SavedFirst'
  BY <1>4 DEF Ordered, ItemsSent, SavedFirst, SameServer
<1>9. Has(cq', "Sync") => Has(cq, "Sync") /\ cs # "SENDING_ITEMS"
  BY EmptyShows
<1>10. Initialized' /\ FirstTaken' /\ ChangesCut'
  BY <1>2, <1>4, <1>9 DEF Ordered, Initialized, FirstTaken, ChangesCut, SameServer, LessComing
<1>11. DevInfFirst'
  BY EmptyShows DEF Ordered, DevInfFirst, SameServer, LessComing
<1>12. Alerted'
  BY <1>4 DEF Ordered, Alerted, SameServer
<1> QED
  BY <1>5, <1>6, <1>7, <1>8, <1>10, <1>11, <1>12 DEF Ordered

\* The server gives up
LEMMA ServerLeaves ==
    ASSUME Ordered, SameConfig, SameClient, LessComing,
           ss # "SYNC_FINISHED", cinit => ss # "NOT_PREPARED",
           ss' \in ErrorStates, sq' = <<>> \/ sq' = sq, lastC' <=> lastC
    PROVE  Ordered'
<1>1. EndingC' => EndingC
  BY DEF EndingC, LessComing
<1>2. ss' \notin ProgressStates /\ ss' # "NOT_PREPARED" /\ ss' # "SYNC_FINISHED"
  BY StatesDiffer DEF EndStates
<1>3. /\ ss' \notin {"NOT_PREPARED", "PREPARED", "REMOTE_INIT", "LOCAL_INIT"}
      /\ ss' \notin {"RECEIVING_ITEMS", "RECEIVING_MAPPINGS", "FINALIZING"}
  BY <1>2 DEF ProgressStates, InitStates, ExchangeStates
<1>4. Has(sq', "PutGet") => Has(sq, "PutGet")
  BY EmptyShows
<1>5. Unprepared' /\ Preparing'
  BY <1>3, ConfigKept DEF Ordered, Unprepared, Preparing, SameClient, LessComing
<1>6. NoSyncYet' /\ NoFinalYet' /\ OneFinal'
  BY <1>3 DEF NoSyncYet, NoFinalYet, OneFinal, EarlyStates, GoneStates
<1>7. MappingsSent' /\ Finalized'
  BY <1>1, <1>3 DEF Ordered, MappingsSent, Finalized, SameClient
<1>8. ItemsSent' /\ SavedFirst'
  BY <1>2 DEF Ordered, ItemsSent, SavedFirst, SameClient, LessComing
<1>9. Initialized' /\ FirstTaken' /\ ChangesCut' /\ Alerted'
  BY <1>3 DEF Initialized, FirstTaken, ChangesCut, Alerted, EarlyStates
<1>10. DevInfFirst'
  BY <1>4 DEF Ordered, DevInfFirst, SameClient, LessComing
<1> QED
  BY <1>5, <1>6, <1>7, <1>8, <1>9, <1>10 DEF Ordered

\* A client takes the message that the server began with
LEMMA ClientServes ==
    ASSUME Ordered, SameConfig, SameServer, LessComing, toC # {},
           cs = "NOT_PREPARED", cs' = "PREPARED", cq' = cq, cw' = cw,
           lastC', lastS' <=> lastS
    PROVE  Ordered'
<1>1. /\ ss' = ss /\ ss \in {"NOT_PREPARED", "PREPARED"} \cup ErrorStates
      /\ cq' = <<>> /\ sq' = sq
  BY DEF Ordered, Preparing, Unprepared, SameServer
<1>2. ss \notin {"FINALIZING", "LOCAL_INIT", "RECEIVING_ITEMS", "REMOTE_INIT"}
  BY <1>1, StatesDiffer DEF EndStates, ProgressStates, InitStates, ExchangeStates
<1>3. ~Has(cq', "Sync") /\ ~Has(cq', "PutGet")
  BY <1>1, EmptyShows
<1>4. Unprepared' /\ Preparing'
  BY <1>1 DEF Ordered, Unprepared, Preparing, SameServer, LessComing
<1>5. NoSyncYet' /\ NoFinalYet'
  BY <1>1 DEF Ordered, NoSyncYet, NoFinalYet, SameServer, LessComing
<1>6. OneFinal'
  BY <1>1 DEF Ordered, OneFinal, NoFinalYet, EarlyStates, GoneStates
<1>7. MappingsSent' /\ Finalized' /\ ItemsSent' /\ FirstTaken'
  BY <1>1, <1>2 DEF MappingsSent, Finalized, ItemsSent, FirstTaken
<1>8. SavedFirst' /\ Initialized' /\ ChangesCut'
  BY <1>1, <1>2, <1>3 DEF Ordered, SavedFirst, Initialized, ChangesCut, SameServer
<1>9. DevInfFirst'
  BY <1>1 DEF Ordered, DevInfFirst, SameServer, LessComing
<1>10. Alerted'
  BY <1>1 DEF Ordered, Alerted, SameServer
<1> QED
  BY <1>4, <1>5, <1>6, <1>7, <1>8, <1>9, <1>10 DEF Ordered

\* A server takes the message that the client began with
LEMMA ServerServes ==
    ASSUME Ordered, SameConfig, SameClient, LessComing, toS # {},
           ss = "NOT_PREPARED", ss' = "PREPARED", sq' = sq,
           Reverts' <=> Reverts, closed' <=> closed, lastC' <=> lastC, lastS'
    PROVE  Ordered'
<1>1. sq' = <<>> /\ ~Reverts' /\ cs # "NOT_PREPARED"
  BY DEF Ordered, Unprepared
<1>2. EndingC' => EndingC
  BY DEF EndingC, LessComing
<1>3. Unprepared' /\ Preparing'
  BY <1>1 DEF Ordered, Unprepared, Preparing, SameClient, LessComing
<1>4. NoSyncYet' /\ NoFinalYet'
  BY <1>1 DEF Ordered, NoSyncYet, NoFinalYet, SameClient, LessComing, EarlyStates
<1>5. OneFinal'
  BY <1>1, EmptyShows DEF OneFinal
<1>6. MappingsSent' /\ Finalized'
  BY <1>2, <1>1, EmptyShows DEF Ordered, MappingsSent, Finalized, SameClient
<1>7. ItemsSent'
  BY <1>1, EmptyShows DEF Ordered, ItemsSent, SameClient, LessComing
<1>8. SavedFirst' /\ Initialized'
  BY DEF Ordered, SavedFirst, Initialized, SameClient
<1>9. FirstTaken'
  BY ConfigKept DEF Ordered, FirstTaken, SameClient, LessComing, EarlyStates
<1>10. ChangesCut'
  BY <1>1, ConfigKept DEF Ordered, ChangesCut, SameClient, LessComing, EarlyStates
<1>11. DevInfFirst'
  BY DEF Ordered, DevInfFirst, SameClient, LessComing
<1>12. Alerted'
  BY DEF Ordered, Alerted, SameClient, LessComing, EarlyStates
<1> QED
  BY <1>3, <1>4, <1>5, <1>6, <1>7, <1>8, <1>9, <1>10, <1>11, <1>12 DEF Ordered

-----------------------------------------------------------------------------
(***************************************************************************)
(* The client handles a fragment of the message m.                         *)
(***************************************************************************)
ClientReads(m) ==
    /\ toC = {m} /\ toC' = {Tail(m)} /\ toS = {} /\ toS' = {}
    /\ ~lastS /\ ~lastS'
    /\ cw' = cw /\ SameServer

LEMMA ClientReadsLess ==
    ASSUME NEW m \in Seq(Fragment), m # <<>>, ClientReads(m), lastC' => lastC
    PROVE  /\ EndingC' => EndingC
           /\ \A kind : Has(Tail(m), kind) => Has(m, kind)
<1>1. \A kind : Has(Tail(m), kind) => Has(m, kind)
  BY TailShows
<1> QED
  BY <1>1 DEF ClientReads, EndingC

\* It stays in its state, in which that fragment means no change
LEMMA ClientReadsOn ==
    ASSUME Ordered, SameConfig, NEW m \in Seq(Fragment), m # <<>>, ClientReads(m),
           cs' = cs, cq' = cq, lastC' <=> lastC,
           cs = "SENDING_ITEMS" => ~Warns(cw, Head(m))
    PROVE  Ordered'
<1> DEFINE h == Head(m)
           t == Tail(m)
<1>1. /\ EndingC' => EndingC
      /\ \A kind : Has(t, kind) => Has(m, kind)
  BY ClientReadsLess
<1>2. /\ WarnedAll(cw, m) => Warns(cw, h) \/ WarnedAll(cw, t)
      /\ Warning(cw, m) => Warns(cw, h) \/ Warning(cw, t)
      /\ NoAlerts(m) => NoAlerts(t)
  BY TailShows
<1>3. /\ toC = {m} /\ toC' = {t} /\ toS = {} /\ toS' = {} /\ ~lastS /\ ~lastS' /\ cw' = cw
      /\ ss' = ss /\ sq' = sq /\ (Reverts' <=> Reverts) /\ (closed' <=> closed)
      /\ cs = "SENDING_ITEMS" => ~Warns(cw, h)
  BY DEF ClientReads, SameServer
<1> HIDE DEF h, t
<1>4. Unprepared' /\ Preparing'
  BY <1>3, ConfigKept DEF Ordered, Unprepared, Preparing
<1>5. NoSyncYet' /\ NoFinalYet'
  BY <1>1, <1>3 DEF Ordered, NoSyncYet, NoFinalYet
<1>6. OneFinal' /\ MappingsSent' /\ Finalized'
  BY <1>1, <1>3 DEF Ordered, OneFinal, MappingsSent, Finalized
<1>7. ItemsSent'
  BY <1>2, <1>3 DEF Ordered, ItemsSent
<1>8. SavedFirst' /\ Initialized'
  BY <1>1, <1>3 DEF Ordered, SavedFirst, Initialized
<1>9. FirstTaken' /\ ChangesCut'
  BY <1>3, ConfigKept DEF Ordered, FirstTaken, ChangesCut
<1>10. DevInfFirst' /\ Alerted'
  BY <1>1, <1>2, <1>3 DEF Ordered, DevInfFirst, Alerted
<1> QED
  BY <1>4, <1>5, <1>6, <1>7, <1>8, <1>9, <1>10 DEF Ordered

\* The end of a package of the server
LEMMA ClientReadsFinal ==
    ASSUME Ordered, SameConfig, NEW m \in Seq(Fragment), m # <<>>, ClientReads(m),
           cs' = cs, cq' = cq, lastC', Head(m).kind = "Final"
    PROVE  Ordered'
<1> DEFINE t == Tail(m)
<1>1. /\ \A kind : Has(t, kind) => Has(m, kind)
      /\ NoAlerts(m) => NoAlerts(t)
      /\ Has(m, "Final") /\ ~WarnedAll(cw, m)
  BY TailShows
<1>2. /\ toC = {m} /\ toC' = {t} /\ toS = {} /\ toS' = {} /\ ~lastS /\ ~lastS' /\ cw' = cw
      /\ ss' = ss /\ sq' = sq /\ (Reverts' <=> Reverts) /\ (closed' <=> closed)
  BY DEF ClientReads, SameServer
<1> HIDE DEF t
<1>3. EndingC
  BY <1>1, <1>2 DEF EndingC
<1>4. Unprepared' /\ Preparing'
  BY <1>2, ConfigKept DEF Ordered, Unprepared, Preparing
<1>5. NoSyncYet' /\ NoFinalYet'
  BY <1>1, <1>2 DEF Ordered, NoSyncYet, NoFinalYet
<1>6. OneFinal' /\ MappingsSent' /\ Finalized'
  BY <1>2, <1>3 DEF Ordered, OneFinal, MappingsSent, Finalized
<1>7. ItemsSent'
  BY <1>1, <1>2 DEF Ordered, ItemsSent
<1>8. SavedFirst' /\ Initialized'
  BY <1>2, <1>3 DEF Ordered, SavedFirst, Initialized
<1>9. FirstTaken' /\ ChangesCut'
  BY <1>2, ConfigKept DEF Ordered, FirstTaken, ChangesCut
<1>10. DevInfFirst' /\ Alerted'
  BY <1>1, <1>2 DEF Ordered, DevInfFirst, Alerted
<1> QED
  BY <1>4, <1>5, <1>6, <1>7, <1>8, <1>9, <1>10 DEF Ordered

\* An alert of the server
LEMMA ClientReadsAlert ==
    ASSUME Ordered, SameConfig, NEW m \in Seq(Fragment), m # <<>>, ClientReads(m),
           cs' = "REMOTE_INIT", cq' = cq, lastC' <=> lastC, Announces(Head(m)),
           cs \in {"LOCAL_INIT", "REMOTE_INIT", "SENDING_ITEMS"}
    PROVE  Ordered'
<1> DEFINE t == Tail(m)
<1>1. /\ EndingC' => EndingC
      /\ \A kind : Has(t, kind) => Has(m, kind)
  BY ClientReadsLess
<1>2. ~NoAlerts(m)
  BY TailShows
<1>3. /\ toC = {m} /\ toC' = {t} /\ toS = {} /\ toS' = {} /\ ~lastS /\ ~lastS' /\ cw' = cw
      /\ ss' = ss /\ sq' = sq /\ (Reverts' <=> Reverts) /\ (closed' <=> closed)
  BY DEF ClientReads, SameServer
<1> HIDE DEF t
<1>4. ss \notin EarlyStates
  BY <1>2, <1>3 DEF Ordered, Alerted
<1>5. Unprepared' /\ Preparing'
  BY <1>3, <1>4 DEF Unprepared, Preparing, EarlyStates
<1>6. NoSyncYet' /\ NoFinalYet'
  BY <1>1, <1>3 DEF Ordered, NoSyncYet, NoFinalYet
<1>7. OneFinal' /\ MappingsSent' /\ Finalized' /\ ItemsSent'
  BY <1>1, <1>3 DEF Ordered, OneFinal, MappingsSent, Finalized, ItemsSent
<1>8. SavedFirst' /\ Initialized'
  BY <1>1, <1>3 DEF Ordered, SavedFirst, Initialized
<1>9. FirstTaken' /\ ChangesCut' /\ Alerted'
  BY <1>3, <1>4 DEF FirstTaken, ChangesCut, Alerted
<1>10. DevInfFirst'
  BY <1>1, <1>3 DEF Ordered, DevInfFirst
<1> QED
  BY <1>5, <1>6, <1>7, <1>8, <1>9, <1>10 DEF Ordered

\* Changes of the server: there may be mappings to send for them
LEMMA ClientReadsSync ==
    ASSUME Ordered, SameConfig, NEW m \in Seq(Fragment), m # <<>>, ClientReads(m),
           cs' = "RECEIVING_ITEMS", lastC' <=> lastC, Head(m).kind = "Sync",
           DevInfAhead(cq) => DevInfAhead(cq'), Has(cq', "PutGet") => Has(cq, "PutGet")
    PROVE  Ordered'
<1> DEFINE t == Tail(m)
<1>1. /\ EndingC' => EndingC
      /\ \A kind : Has(t, kind) => Has(m, kind)
  BY ClientReadsLess
<1>2. Has(m, "Sync")
  BY TailShows
<1>3. /\ toC = {m} /\ toC' = {t} /\ toS = {} /\ toS' = {} /\ ~lastS /\ ~lastS' /\ cw' = cw
      /\ ss' = ss /\ sq' = sq /\ (Reverts' <=> Reverts) /\ (closed' <=> closed)
  BY DEF ClientReads, SameServer
<1> HIDE DEF t
<1>4. ss \notin EarlyStates \cup {"LOCAL_INIT", "RECEIVING_ITEMS"}
  BY <1>2, <1>3 DEF Ordered, NoSyncYet
<1>5. Unprepared' /\ Preparing'
  BY <1>3, <1>4 DEF Unprepared, Preparing, EarlyStates
<1>6. NoSyncYet' /\ NoFinalYet'
  BY <1>1, <1>3, <1>4 DEF Ordered, NoSyncYet, NoFinalYet
<1>7. OneFinal' /\ MappingsSent' /\ Finalized' /\ ItemsSent'
  BY <1>1, <1>3 DEF Ordered, OneFinal, MappingsSent, Finalized, ItemsSent
<1>8. SavedFirst' /\ Initialized'
  BY <1>3, <1>4 DEF Ordered, SavedFirst, Initialized
<1>9. FirstTaken' /\ ChangesCut' /\ Alerted'
  BY <1>3, <1>4 DEF FirstTaken, ChangesCut, Alerted
<1>10. DevInfFirst'
  BY <1>1, <1>3 DEF Ordered, DevInfFirst
<1> QED
  BY <1>5, <1>6, <1>7, <1>8, <1>9, <1>10 DEF Ordered

-----------------------------------------------------------------------------
(***************************************************************************)
(* The server handles a fragment of the message m.                         *)
(***************************************************************************)
ServerReads(m) ==
    /\ toS = {m} /\ toS' = {Tail(m)} /\ toC = {} /\ toC' = {}
    /\ ~lastC /\ ~lastC'
    /\ SameClient /\ ss # "NOT_PREPARED" /\ (closed' <=> closed)

\* What the fragments that are left of the message still show
LEMMA ServerReadsLess ==
    ASSUME NEW m \in Seq(Fragment), m # <<>>, ServerReads(m)
    PROVE  /\ ~EndingC /\ ~EndingC'
           /\ \A kind : Has(Tail(m), kind) => Has(m, kind)
           /\ DevInfOnTop(m) => DevInfOnTop(Tail(m))
           /\ OnlyStatuses(m) => OnlyStatuses(Tail(m))
           /\ AllPlain(m) => AllPlain(Tail(m)) /\ Plain(Head(m))
           /\ Followed(m) => Followed(Tail(m))
<1>1. ~EndingC /\ ~EndingC'
  BY DEF ServerReads, EndingC
<1>2. /\ \A kind : Has(Tail(m), kind) => Has(m, kind)
      /\ OnlyStatuses(m) => OnlyStatuses(Tail(m))
      /\ AllPlain(m) => AllPlain(Tail(m)) /\ Plain(Head(m))
  BY TailShows
<1>3. /\ DevInfOnTop(m) => DevInfOnTop(Tail(m))
      /\ Followed(m) => Followed(Tail(m))
  BY TailOrder
<1> QED
  BY <1>1, <1>2, <1>3

\* It stays in its state
LEMMA ServerReadsOn ==
    ASSUME Ordered, SameConfig, NEW m \in Seq(Fragment), m # <<>>, ServerReads(m),
           ss' = ss, sq' = sq, lastS => lastS', Reverts => Reverts',
           (Reverts' /\ ss \in EarlyStates) => Reverts \/ Head(m).kind = "Status",
           (ss = "REMOTE_INIT" /\ Head(m).kind = "Sync") => Reverts
    PROVE  Ordered'
<1> DEFINE h == Head(m)
           t == Tail(m)
<1>1. /\ ~EndingC /\ ~EndingC'
      /\ \A kind : Has(t, kind) => Has(m, kind)
      /\ DevInfOnTop(m) => DevInfOnTop(t)
      /\ OnlyStatuses(m) => OnlyStatuses(t)
      /\ AllPlain(m) => AllPlain(t) /\ Plain(h)
      /\ Followed(m) => Followed(t)
  BY ServerReadsLess
<1>2. Has(m, "Sync") => h.kind = "Sync" \/ Has(t, "Sync")
  BY TailShows
<1>3. /\ toS = {m} /\ toS' = {t} /\ toC = {} /\ toC' = {} /\ ~lastC /\ ~lastC'
      /\ cs' = cs /\ cq' = cq /\ cw' = cw /\ ss # "NOT_PREPARED" /\ (closed' <=> closed)
  BY DEF ServerReads, SameClient
<1>4. /\ (Reverts' /\ ss \in EarlyStates) => Reverts \/ h.kind = "Status"
      /\ (ss = "REMOTE_INIT" /\ h.kind = "Sync") => Reverts
  OBVIOUS
<1> HIDE DEF h, t
<1>5. Unprepared' /\ Preparing'
  BY <1>3, ConfigKept DEF Ordered, Unprepared, Preparing
<1>6. NoSyncYet' /\ NoFinalYet'
  BY <1>3 DEF Ordered, NoSyncYet, NoFinalYet
<1>7. OneFinal' /\ MappingsSent' /\ Finalized'
  BY <1>1, <1>3 DEF Ordered, OneFinal, MappingsSent, Finalized
<1>8. ItemsSent'
  BY <1>3 DEF Ordered, ItemsSent
<1>9. SavedFirst' /\ Initialized'
  BY <1>1, <1>3 DEF Ordered, SavedFirst, Initialized
<1>10. FirstTaken'
  BY <1>1, <1>2, <1>3, <1>4, ConfigKept DEF Ordered, FirstTaken
<1>11. ChangesCut'
  BY <1>1, <1>3, <1>4, ConfigKept DEF Ordered, ChangesCut, Plain
<1>12. DevInfFirst'
  BY <1>1, <1>3 DEF Ordered, DevInfFirst
<1>13. Alerted'
  BY <1>3 DEF Ordered, Alerted
<1> QED
  BY <1>5, <1>6, <1>7, <1>8, <1>9, <1>10, <1>11, <1>12, <1>13 DEF Ordered

\* The device information of the client, which its own answers
LEMMA ServerReadsDevInf ==
    ASSUME Ordered, SameConfig, NEW m \in Seq(Fragment), m # <<>>, ServerReads(m),
           ss' = ss, sq \in Seq(Package), sq' = sq \o <<DevInfResults>>, lastS' <=> lastS,
           Reverts' <=> Reverts, Head(m).kind = "PutGet"
    PROVE  Ordered'
<1> DEFINE h == Head(m)
           t == Tail(m)
           results == <<DevInfResults>>
<1>1. /\ ~EndingC /\ ~EndingC'
      /\ \A kind : Has(t, kind) => Has(m, kind)
      /\ DevInfOnTop(m) => DevInfOnTop(t)
      /\ OnlyStatuses(m) => OnlyStatuses(t)
      /\ AllPlain(m) => AllPlain(t)
      /\ Followed(m) => Followed(t)
  BY ServerReadsLess
<1>2. /\ Has(m, "Sync") => Has(t, "Sync")
      /\ Has(m, "PutGet")
  BY TailShows
<1>3. /\ toS = {m} /\ toS' = {t} /\ toC = {} /\ toC' = {} /\ ~lastC /\ ~lastC'
      /\ cs' = cs /\ cq' = cq /\ cw' = cw /\ ss # "NOT_PREPARED" /\ (closed' <=> closed)
  BY DEF ServerReads, SameClient
<1>4. /\ results \in Seq(Package) /\ NoAlerts(results)
      /\ \A kind : Has(results, kind) <=> kind = "Results"
  <2>1. DOMAIN results = {1} /\ results[1].kind = "Results" /\ DevInfResults \in Package
    BY DEF DevInfResults, Package
  <2> HIDE DEF results
  <2>2. NoAlerts(results) /\ \A kind : Has(results, kind) <=> kind = "Results"
    BY <2>1 DEF NoAlerts, Announces, Has
  <2> QED
    BY <2>1, <2>2 DEF results
<1>5. sq' = sq \o results
  OBVIOUS
<1> HIDE DEF h, t, results
<1>6. /\ \A kind : Has(sq', kind) <=> Has(sq, kind) \/ Has(results, kind)
      /\ NoAlerts(sq) => NoAlerts(sq')
  BY <1>4, <1>5, JoinShows
<1>7. /\ Has(sq', "Sync") => Has(sq, "Sync")
      /\ Has(sq', "Final") => Has(sq, "Final")
      /\ Has(sq', "PutGet") => Has(sq, "PutGet")
  BY <1>4, <1>6
<1>8. ss = "PREPARED" \/ ss \in ErrorStates
  BY <1>2, <1>3 DEF Ordered, DevInfFirst
<1>9. ss = "PREPARED" => ~Has(sq', "Final")
  BY <1>7 DEF Ordered, NoFinalYet, EarlyStates
<1>10. ss = "PREPARED" => FinalIsLast(sq') /\ WarnedAll(cw, sq')
  BY <1>9 DEF FinalIsLast, WarnedAll, Has
<1>11. Unprepared' /\ Preparing'
  BY <1>3, ConfigKept DEF Ordered, Unprepared, Preparing
<1>12. NoSyncYet' /\ NoFinalYet'
  BY <1>3, <1>7 DEF Ordered, NoSyncYet, NoFinalYet
<1>13. OneFinal' /\ MappingsSent' /\ Finalized'
  BY <1>1, <1>3, <1>7, <1>8, <1>10
     DEF Ordered, OneFinal, MappingsSent, Finalized, GoneStates
<1>14. ItemsSent' /\ SavedFirst'
  BY <1>3, <1>8, <1>10 DEF Ordered, ItemsSent, SavedFirst
<1>15. ss # "LOCAL_INIT" /\ ss # "REMOTE_INIT"
  BY <1>8, StatesDiffer DEF EndStates, ProgressStates, InitStates
<1>16. Initialized' /\ FirstTaken' /\ ChangesCut'
  BY <1>1, <1>2, <1>3, <1>15, ConfigKept DEF Ordered, Initialized, FirstTaken, ChangesCut
<1>17. DevInfFirst'
  BY <1>1, <1>3, <1>7 DEF Ordered, DevInfFirst
<1>18. Alerted'
  BY <1>3, <1>6 DEF Ordered, Alerted
<1> QED
  BY <1>11, <1>12, <1>13, <1>14, <1>16, <1>17, <1>18 DEF Ordered

\* What the client may not send any more after that fragment
LEMMA ServerReadsCommand ==
    ASSUME Ordered, NEW m \in Seq(Fragment), m # <<>>, ServerReads(m),
           Head(m).kind \notin {"Header", "Status", "PutGet"}
    PROVE  /\ cs \notin {"NOT_PREPARED", "PREPARED"}
           /\ ~Has(cq, "PutGet") /\ ~Has(Tail(m), "PutGet")
<1>1. cs # "NOT_PREPARED" /\ cs # "PREPARED"
  BY DEF Ordered, Unprepared, Preparing, ServerReads
<1>2. DevInfOnTop(m) /\ (Has(cq, "PutGet") => OnlyStatuses(m))
  BY DEF Ordered, DevInfFirst, ServerReads
<1>3. OnlyStatuses(m) => Head(m).kind \in {"Header", "Status"}
  BY TailShows
<1>4. Head(m).kind \in {"Header", "Status"} \/ ~Has(Tail(m), "PutGet")
  BY <1>2, TailOrder
<1> QED
  BY <1>1, <1>2, <1>3, <1>4

\* An alert in the initialization: one more target, which may be reverted
LEMMA ServerReadsAlert ==
    ASSUME Ordered, SameConfig, NEW m \in Seq(Fragment), m # <<>>, ServerReads(m),
           ss \in {"PREPARED", "REMOTE_INIT"}, ss' = "REMOTE_INIT", sq' = sq,
           lastS' <=> lastS, Reverts => Reverts', Announces(Head(m)),
           (Reverts' /\ ~Reverts) => MayRevert \/ ~Plain(Head(m))
    PROVE  Ordered'
<1> DEFINE h == Head(m)
           t == Tail(m)
<1>1. /\ ~EndingC /\ ~EndingC'
      /\ \A kind : Has(t, kind) => Has(m, kind)
      /\ DevInfOnTop(m) => DevInfOnTop(t)
      /\ AllPlain(m) => AllPlain(t) /\ Plain(h)
  BY ServerReadsLess
<1>2. /\ Has(m, "Sync") => Has(t, "Sync")
      /\ Followed(m) => Has(t, "Sync")
  BY TailShows, TailOrder DEF Announces
<1>3. /\ toS = {m} /\ toS' = {t} /\ toC = {} /\ toC' = {} /\ ~lastC /\ ~lastC'
      /\ cs' = cs /\ cq' = cq /\ cw' = cw /\ (closed' <=> closed)
  BY DEF ServerReads, SameClient
<1>4. /\ cs \notin {"NOT_PREPARED", "PREPARED"}
      /\ ~Has(cq, "PutGet") /\ ~Has(t, "PutGet")
  BY ServerReadsCommand DEF Announces
<1>5. (Reverts' /\ ~Reverts) => MayRevert \/ ~Plain(h)
  OBVIOUS
<1> HIDE DEF h, t
<1>6. ss \in EarlyStates /\ ss' \in EarlyStates
  BY DEF EarlyStates
<1>7. Unprepared' /\ Preparing'
  BY <1>3, <1>4 DEF Unprepared, Preparing
<1>8. NoSyncYet' /\ NoFinalYet'
  BY <1>3, <1>6 DEF Ordered, NoSyncYet, NoFinalYet
<1>9. OneFinal' /\ MappingsSent' /\ Finalized'
  BY <1>1, <1>3, <1>6 DEF Ordered, OneFinal, NoFinalYet, MappingsSent, Finalized,
     EarlyStates, GoneStates, ErrorStates
<1>10. ItemsSent'
  BY <1>3 DEF Ordered, ItemsSent, ErrorStates
<1>11. SavedFirst' /\ Initialized'
  BY <1>3 DEF Ordered, SavedFirst, Initialized
<1>12. FirstTaken'
  BY <1>2, <1>3, <1>6, ConfigKept DEF Ordered, FirstTaken
<1>13. ChangesCut'
  BY <1>1, <1>3, <1>5, <1>6, ConfigKept DEF Ordered, ChangesCut
<1>14. DevInfFirst'
  BY <1>1, <1>3, <1>4 DEF Ordered, DevInfFirst
<1>15. Alerted'
  BY <1>3, <1>6 DEF Ordered, Alerted
<1> QED
  BY <1>7, <1>8, <1>9, <1>10, <1>11, <1>12, <1>13, <1>14, <1>15 DEF Ordered

\* Changes of the client
LEMMA ServerReadsSync ==
    ASSUME Ordered, SameConfig, NEW m \in Seq(Fragment), m # <<>>, ServerReads(m),
           ss \in {"REMOTE_INIT", "LOCAL_INIT", "RECEIVING_ITEMS"}, ss' = "RECEIVING_ITEMS",
           sq' = sq, Head(m).kind = "Sync"
    PROVE  Ordered'
<1> DEFINE h == Head(m)
           t == Tail(m)
<1>1. /\ ~EndingC /\ ~EndingC'
      /\ \A kind : Has(t, kind) => Has(m, kind)
      /\ DevInfOnTop(m) => DevInfOnTop(t)
  BY ServerReadsLess
<1>2. Has(m, "Sync")
  BY TailShows
<1>3. /\ toS = {m} /\ toS' = {t} /\ toC = {} /\ toC' = {} /\ ~lastC /\ ~lastC'
      /\ cs' = cs /\ cq' = cq /\ cw' = cw /\ (closed' <=> closed)
  BY DEF ServerReads, SameClient
<1>4. /\ cs \notin {"NOT_PREPARED", "PREPARED"}
      /\ ~Has(cq, "PutGet") /\ ~Has(t, "PutGet")
  BY ServerReadsCommand
<1> HIDE DEF h, t
<1>5. ss \in EarlyStates \cup {"LOCAL_INIT", "RECEIVING_ITEMS"} /\ ss' \notin EarlyStates
  BY DEF EarlyStates
<1>6. ~Has(sq, "Final")
  BY <1>2, <1>3, <1>5 DEF Ordered, NoFinalYet, Initialized, EarlyStates
<1>7. Unprepared' /\ Preparing'
  BY <1>3, <1>4 DEF Unprepared, Preparing
<1>8. NoSyncYet' /\ NoFinalYet'
  BY <1>3, <1>5, <1>6 DEF Ordered, NoSyncYet, NoFinalYet
<1>9. OneFinal' /\ MappingsSent' /\ Finalized'
  BY <1>1, <1>3, <1>5, <1>6
     DEF Ordered, OneFinal, MappingsSent, Finalized, FinalIsLast, Has
<1>10. ItemsSent'
  BY <1>3, <1>6 DEF Ordered, ItemsSent, WarnedAll, Has
<1>11. SavedFirst' /\ Initialized'
  BY <1>3 DEF Ordered, SavedFirst, Initialized
<1>12. FirstTaken' /\ ChangesCut' /\ Alerted'
  BY <1>5 DEF FirstTaken, ChangesCut, Alerted
<1>13. DevInfFirst'
  BY <1>1, <1>3, <1>4 DEF Ordered, DevInfFirst
<1> QED
  BY <1>7, <1>8, <1>9, <1>10, <1>11, <1>12, <1>13 DEF Ordered

\* Mappings of the client, after the last of what there was to send
LEMMA ServerReadsMap ==
    ASSUME Ordered, SameConfig, NEW m \in Seq(Fragment), m # <<>>, ServerReads(m),
           ss \in {"SENDING_ITEMS", "RECEIVING_MAPPINGS"}, ss' = "RECEIVING_MAPPINGS",
           sq = <<>>, sq' = sq, Head(m).kind = "Map"
    PROVE  Ordered'
<1> DEFINE h == Head(m)
           t == Tail(m)
<1>1. /\ ~EndingC /\ ~EndingC'
      /\ \A kind : Has(t, kind) => Has(m, kind)
      /\ DevInfOnTop(m) => DevInfOnTop(t)
  BY ServerReadsLess
<1>2. /\ toS = {m} /\ toS' = {t} /\ toC = {} /\ toC' = {} /\ ~lastC /\ ~lastC'
      /\ cs' = cs /\ cq' = cq /\ cw' = cw /\ (closed' <=> closed)
  BY DEF ServerReads, SameClient
<1>3. /\ cs \notin {"NOT_PREPARED", "PREPARED"}
      /\ ~Has(cq, "PutGet") /\ ~Has(t, "PutGet")
  BY ServerReadsCommand
<1> HIDE DEF h, t
<1>4. /\ \A kind : ~Has(sq', kind)
      /\ WarnedAll(cw, sq') /\ FinalIsLast(sq')
  BY EmptyShows
<1>5. ss' \notin EarlyStates \cup {"LOCAL_INIT", "RECEIVING_ITEMS", "FINALIZING", "SYNC_FINISHED"}
  BY DEF EarlyStates
<1>6. Unprepared' /\ Preparing'
  BY <1>2, <1>3 DEF Unprepared, Preparing
<1>7. NoSyncYet' /\ NoFinalYet' /\ OneFinal'
  BY <1>4, <1>5 DEF NoSyncYet, NoFinalYet, OneFinal
<1>8. MappingsSent' /\ Finalized'
  BY <1>1, <1>4, <1>5 DEF MappingsSent, Finalized
<1>9. ItemsSent'
  BY <1>2, <1>4 DEF ItemsSent
<1>10. SavedFirst' /\ Initialized'
  BY <1>2, <1>5 DEF Ordered, SavedFirst, Initialized
<1>11. FirstTaken' /\ ChangesCut' /\ Alerted'
  BY <1>5 DEF FirstTaken, ChangesCut, Alerted
<1>12. DevInfFirst'
  BY <1>1, <1>2, <1>3, <1>4 DEF Ordered, DevInfFirst
<1> QED
  BY <1>6, <1>7, <1>8, <1>9, <1>10, <1>11, <1>12 DEF Ordered

-----------------------------------------------------------------------------
(***************************************************************************)
(* The end of a package of the server, for the client.                     *)
(***************************************************************************)
ClientAtEnd ==
    /\ toC = {<<>>} /\ toC' = {<<>>} /\ toS = {} /\ toS' = {}
    /\ lastC /\ ~lastC' /\ ~lastS /\ ~lastS'
    /\ cw' = cw /\ SameServer

LEMMA ClientEndsLess ==
    ASSUME ClientAtEnd
    PROVE  /\ EndingC /\ ~EndingC'
           /\ toC # {} /\ \A kind : \A m \in toC' : ~Has(m, kind)
           /\ \A w : \A m \in toC' : WarnedAll(w, m) /\ ~Warning(w, m) /\ NoAlerts(m)
<1>1. /\ \A kind : \A m \in toC' : ~Has(m, kind)
      /\ \A w : \A m \in toC' : WarnedAll(w, m) /\ ~Warning(w, m) /\ NoAlerts(m)
  BY EmptyShows DEF ClientAtEnd
<1> QED
  BY <1>1 DEF ClientAtEnd, EndingC

\* The server began, and the client initializes the session
LEMMA ClientEndsAlert ==
    ASSUME Ordered, SameConfig, ClientAtEnd, cs = "PREPARED", cs' = "LOCAL_INIT",
           ~Has(cq', "Sync"), DevInfAhead(cq')
    PROVE  Ordered'
<1>1. /\ EndingC /\ ~EndingC'
      /\ toC # {} /\ \A kind : \A m \in toC' : ~Has(m, kind)
      /\ \A w : \A m \in toC' : WarnedAll(w, m) /\ ~Warning(w, m) /\ NoAlerts(m)
  BY ClientEndsLess
<1>2. /\ toS = {} /\ toS' = {} /\ ss' = ss /\ sq' = sq /\ (closed' <=> closed)
  BY DEF ClientAtEnd, SameServer
<1>3. ss \in {"NOT_PREPARED", "PREPARED"} \cup ErrorStates /\ ss # "NOT_PREPARED"
  BY <1>1 DEF Ordered, Preparing, Unprepared
<1>4. ss = "PREPARED" \/ ss \in ErrorStates
  BY <1>3
<1>5. ss \notin {"NOT_PREPARED", "LOCAL_INIT", "FINALIZING", "SYNC_FINISHED"}
  BY <1>4, StatesDiffer DEF EndStates, ProgressStates, InitStates, ExchangeStates
<1>6. Unprepared' /\ Preparing'
  BY <1>2, <1>3 DEF Unprepared, Preparing
<1>7. NoSyncYet' /\ NoFinalYet'
  BY <1>1, <1>2 DEF Ordered, NoSyncYet, NoFinalYet
<1>8. OneFinal' /\ MappingsSent' /\ Finalized' /\ ItemsSent'
  BY <1>1, <1>2 DEF Ordered, OneFinal, MappingsSent, Finalized, ItemsSent
<1>9. SavedFirst' /\ Initialized'
  BY <1>2, <1>5 DEF SavedFirst, Initialized
<1>10. FirstTaken' /\ ChangesCut'
  BY DEF FirstTaken, ChangesCut
<1>11. DevInfFirst'
  BY <1>1, <1>2, <1>4 DEF Ordered, DevInfFirst
<1>12. Alerted'
  BY <1>1, <1>2 DEF Ordered, Alerted
<1> QED
  BY <1>6, <1>7, <1>8, <1>9, <1>10, <1>11, <1>12 DEF Ordered

\* The client begins to send its changes
LEMMA ClientEndsInit ==
    ASSUME Ordered, SameConfig, ClientAtEnd, cs = "REMOTE_INIT", cs' = "SENDING_ITEMS",
           DevInfAhead(cq) => DevInfAhead(cq'), Has(cq', "PutGet") => Has(cq, "PutGet")
    PROVE  Ordered'
<1>1. /\ EndingC /\ ~EndingC'
      /\ toC # {} /\ \A kind : \A m \in toC' : ~Has(m, kind)
      /\ \A w : \A m \in toC' : WarnedAll(w, m) /\ ~Warning(w, m) /\ NoAlerts(m)
  BY ClientEndsLess
<1>2. /\ toS = {} /\ toS' = {} /\ ss' = ss /\ sq' = sq /\ (closed' <=> closed)
      /\ ~lastC'
  BY DEF ClientAtEnd, SameServer
<1>3. ss \notin EarlyStates
  BY DEF Ordered, Alerted
<1>4. ss \notin GoneStates => ~Has(sq, "Final")
  BY <1>1 DEF Ordered, OneFinal
<1>5. (ss \notin ErrorStates /\ ss # "SYNC_FINISHED") => WarnedAll(cw', sq')
  BY <1>2, <1>4 DEF GoneStates, WarnedAll, Has
<1>6. Unprepared' /\ Preparing'
  BY <1>2, <1>3 DEF Unprepared, Preparing, EarlyStates
<1>7. NoSyncYet' /\ NoFinalYet'
  BY <1>1, <1>2 DEF Ordered, NoSyncYet, NoFinalYet
<1>8. OneFinal' /\ MappingsSent' /\ Finalized'
  BY <1>1, <1>2 DEF Ordered, OneFinal, MappingsSent, Finalized
<1>9. ItemsSent'
  BY <1>1, <1>2, <1>5 DEF ItemsSent
<1>10. ss = "LOCAL_INIT" => ~Has(sq, "Final")
  BY <1>4, StatesDiffer DEF GoneStates, EndStates, ProgressStates, InitStates
<1>11. SavedFirst' /\ Initialized'
  BY <1>1, <1>2, <1>10 DEF Ordered, SavedFirst, Initialized
<1>12. FirstTaken' /\ ChangesCut' /\ Alerted'
  BY <1>2, <1>3 DEF FirstTaken, ChangesCut, Alerted
<1>13. DevInfFirst'
  BY <1>1, <1>2 DEF Ordered, DevInfFirst
<1> QED
  BY <1>6, <1>7, <1>8, <1>9, <1>11, <1>12, <1>13 DEF Ordered

\* The client begins to send its mappings
LEMMA ClientEndsItems ==
    ASSUME Ordered, SameConfig, ClientAtEnd, cs = "RECEIVING_ITEMS", cs' = "SENDING_MAPPINGS",
           DevInfAhead(cq) => DevInfAhead(cq'), Has(cq', "PutGet") => Has(cq, "PutGet")
    PROVE  Ordered'
<1>1. /\ EndingC /\ ~EndingC'
      /\ toC # {} /\ \A kind : \A m \in toC' : ~Has(m, kind)
  BY ClientEndsLess
<1>2. /\ toS = {} /\ toS' = {} /\ ss' = ss /\ sq' = sq /\ (closed' <=> closed)
  BY DEF ClientAtEnd, SameServer
<1>3. ss \notin EarlyStates \cup {"LOCAL_INIT", "RECEIVING_ITEMS"}
  BY DEF Ordered, NoSyncYet
<1>4. ss \notin GoneStates => ~Has(sq, "Final")
  BY <1>1 DEF Ordered, OneFinal
<1>5. Unprepared' /\ Preparing'
  BY <1>2, <1>3 DEF Unprepared, Preparing, EarlyStates
<1>6. NoSyncYet' /\ NoFinalYet'
  BY <1>2, <1>3 DEF Ordered, NoSyncYet, NoFinalYet
<1>7. OneFinal' /\ Finalized' /\ ItemsSent'
  BY <1>1, <1>2 DEF Ordered, OneFinal, Finalized, ItemsSent
<1>8. MappingsSent'
  BY <1>1, <1>2, <1>4 DEF MappingsSent, GoneStates
<1>9. SavedFirst' /\ Initialized'
  BY <1>2, <1>3 DEF Ordered, SavedFirst, Initialized
<1>10. FirstTaken' /\ ChangesCut' /\ Alerted'
  BY <1>2, <1>3 DEF FirstTaken, ChangesCut, Alerted
<1>11. DevInfFirst'
  BY <1>1, <1>2 DEF Ordered, DevInfFirst
<1> QED
  BY <1>5, <1>6, <1>7, <1>8, <1>9, <1>10, <1>11 DEF Ordered

\* The last package of the server: it has saved the session
LEMMA ClientEndsLast ==
    ASSUME Ordered, SameConfig, ClientAtEnd, cs \in {"SENDING_ITEMS", "SENDING_MAPPINGS"},
           cs' = "FINALIZING", cq' = cq
    PROVE  Ordered'
<1>1. /\ EndingC /\ ~EndingC'
      /\ toC # {} /\ \A kind : \A m \in toC' : ~Has(m, kind)
  BY ClientEndsLess
<1>2. /\ toS = {} /\ toS' = {} /\ ss' = ss /\ sq' = sq /\ (closed' <=> closed) /\ lastC
  BY DEF ClientAtEnd, SameServer
<1>3. ss = "SYNC_FINISHED"
  BY <1>1, <1>2 DEF Ordered, ItemsSent, MappingsSent
<1>4. ss \notin EarlyStates \cup {"LOCAL_INIT", "RECEIVING_ITEMS"}
  BY <1>3 DEF EarlyStates
<1>5. Unprepared' /\ Preparing' /\ NoSyncYet' /\ NoFinalYet'
  BY <1>2, <1>3 DEF Ordered, Unprepared, Preparing, NoSyncYet, NoFinalYet, EarlyStates
<1>6. OneFinal' /\ Finalized' /\ ItemsSent' /\ MappingsSent'
  BY <1>1, <1>2, <1>3 DEF OneFinal, Finalized, ItemsSent, MappingsSent, GoneStates
<1>7. SavedFirst' /\ Initialized'
  BY <1>2, <1>3 DEF Ordered, SavedFirst, Initialized
<1>8. FirstTaken' /\ ChangesCut' /\ Alerted'
  BY <1>2, <1>4 DEF FirstTaken, ChangesCut, Alerted
<1>9. DevInfFirst'
  BY <1>1, <1>2 DEF Ordered, DevInfFirst
<1> QED
  BY <1>5, <1>6, <1>7, <1>8, <1>9 DEF Ordered

-----------------------------------------------------------------------------
(***************************************************************************)
(* The end of a package of the client, for the server.                     *)
(***************************************************************************)
ServerAtEnd ==
    /\ toS = {<<>>} /\ toS' = {<<>>} /\ toC = {} /\ toC' = {}
    /\ lastS /\ ~lastS' /\ ~lastC /\ ~lastC'
    /\ SameClient /\ (closed' <=> closed) /\ ss # "NOT_PREPARED"

LEMMA ServerEndsLess ==
    ASSUME Ordered, ServerAtEnd
    PROVE  /\ ~EndingC /\ ~EndingC'
           /\ cs' = cs /\ cq' = cq /\ cw' = cw /\ cs \notin {"NOT_PREPARED", "PREPARED"}
           /\ toC' = {} /\ toS' # {} /\ \A m \in toS' : DevInfOnTop(m) /\ OnlyStatuses(m)
           /\ \A kind : \A m \in toS' : ~Has(m, kind)
<1>1. ~EndingC /\ ~EndingC'
  BY DEF ServerAtEnd, EndingC
<1>2. /\ cs' = cs /\ cq' = cq /\ cw' = cw /\ cs \notin {"NOT_PREPARED", "PREPARED"}
  BY DEF Ordered, ServerAtEnd, SameClient, Unprepared, Preparing
<1>3. /\ \A m \in toS' : DevInfOnTop(m) /\ OnlyStatuses(m)
      /\ \A kind : \A m \in toS' : ~Has(m, kind)
  BY EmptyShows DEF ServerAtEnd
<1> QED
  BY <1>1, <1>2, <1>3 DEF ServerAtEnd

\* Nothing follows from it
LEMMA ServerEndsEarly ==
    ASSUME Ordered, SameConfig, ServerAtEnd, ss \notin EarlyStates, ss' = ss, sq' = sq
    PROVE  Ordered'
<1>1. /\ ~EndingC /\ ~EndingC'
      /\ cs' = cs /\ cq' = cq /\ cw' = cw /\ cs \notin {"NOT_PREPARED", "PREPARED"}
      /\ toC' = {} /\ toS' # {} /\ \A m \in toS' : DevInfOnTop(m) /\ OnlyStatuses(m)
      /\ \A kind : \A m \in toS' : ~Has(m, kind)
  BY ServerEndsLess
<1>2. Unprepared' /\ Preparing'
  BY <1>1 DEF Unprepared, Preparing, EarlyStates
<1>3. NoSyncYet' /\ NoFinalYet'
  BY <1>1 DEF Ordered, NoSyncYet, NoFinalYet
<1>4. OneFinal' /\ MappingsSent' /\ Finalized'
  BY <1>1 DEF Ordered, OneFinal, MappingsSent, Finalized
<1>5. ItemsSent'
  <2>1. toS # {} /\ ~lastC'
    BY DEF ServerAtEnd
  <2> QED
    BY <1>1, <2>1 DEF Ordered, ItemsSent
<1>6. SavedFirst' /\ Initialized'
  BY <1>1 DEF Ordered, SavedFirst, Initialized, ServerAtEnd
<1>7. FirstTaken' /\ ChangesCut' /\ Alerted'
  BY DEF FirstTaken, ChangesCut, Alerted
<1>8. DevInfFirst'
  BY <1>1 DEF Ordered, DevInfFirst
<1> QED
  BY <1>2, <1>3, <1>4, <1>5, <1>6, <1>7, <1>8 DEF Ordered

\* The server answers the initialization of the client
LEMMA ServerEndsInit ==
    ASSUME Ordered, SameConfig, ServerAtEnd, ss = "REMOTE_INIT", ss' = "LOCAL_INIT",
           Has(sq', "Sync") => Has(sq, "Sync"), Has(sq', "PutGet") => Has(sq, "PutGet"),
           ~Has(sq, "Final") => FinalIsLast(sq'),
           (~Has(sq, "Final") /\ Reverts /\ cw) => WarnedAll(cw, sq')
    PROVE  Ordered'
<1>1. /\ ~EndingC /\ ~EndingC'
      /\ cs' = cs /\ cq' = cq /\ cw' = cw /\ cs \notin {"NOT_PREPARED", "PREPARED"}
      /\ toC' = {} /\ toS' # {} /\ \A m \in toS' : DevInfOnTop(m) /\ OnlyStatuses(m)
      /\ \A kind : \A m \in toS' : ~Has(m, kind)
  BY ServerEndsLess
<1>2. toS = {<<>>} /\ toS # {} /\ (closed' <=> closed) /\ ~lastC'
  BY DEF ServerAtEnd
<1>3. ss \in EarlyStates
  BY DEF EarlyStates
<1>4. ~Has(sq, "Final")
  BY <1>3 DEF Ordered, NoFinalYet
<1>5. cs = "SENDING_ITEMS" => Reverts /\ cw
  <2>1. ~Has(<<>>, "Sync")
    BY EmptyShows
  <2> QED
    BY <1>2, <1>3, <2>1 DEF Ordered, FirstTaken
<1>6. Unprepared' /\ Preparing' /\ NoFinalYet'
  BY <1>1 DEF Unprepared, Preparing, NoFinalYet, EarlyStates
<1>7. NoSyncYet'
  BY <1>1, <1>3 DEF Ordered, NoSyncYet
<1>8. OneFinal' /\ MappingsSent' /\ Finalized'
  BY <1>1, <1>3, <1>4 DEF Ordered, OneFinal, MappingsSent, Finalized, NoSyncYet
<1>9. ItemsSent'
  BY <1>1, <1>2, <1>4, <1>5 DEF ItemsSent
<1>10. ~Has(cq, "Sync")
  BY <1>3, <1>5 DEF Ordered, ChangesCut
<1>11. SavedFirst' /\ Initialized'
  BY <1>1, <1>2, <1>10 DEF Ordered, SavedFirst, Initialized
<1>12. FirstTaken' /\ ChangesCut' /\ Alerted'
  BY DEF FirstTaken, ChangesCut, Alerted, EarlyStates
<1>13. ~Has(cq, "PutGet")
  BY DEF Ordered, DevInfFirst, ErrorStates
<1>14. DevInfFirst'
  BY <1>1, <1>13 DEF Ordered, DevInfFirst
<1> QED
  BY <1>6, <1>7, <1>8, <1>9, <1>11, <1>12, <1>14 DEF Ordered

\* The server sends its changes
LEMMA ServerEndsItems ==
    ASSUME Ordered, SameConfig, ServerAtEnd, ss = "RECEIVING_ITEMS", ss' = "SENDING_ITEMS",
           Has(sq', "PutGet") => Has(sq, "PutGet"),
           ~Has(sq, "Final") => FinalIsLast(sq') /\ WarnedAll(cw, sq')
    PROVE  Ordered'
<1>1. /\ ~EndingC /\ ~EndingC'
      /\ cs' = cs /\ cq' = cq /\ cw' = cw /\ cs \notin {"NOT_PREPARED", "PREPARED"}
      /\ toC' = {} /\ toS' # {} /\ \A m \in toS' : DevInfOnTop(m) /\ OnlyStatuses(m)
      /\ \A kind : \A m \in toS' : ~Has(m, kind)
  BY ServerEndsLess
<1>2. (closed' <=> closed) /\ ~lastC'
  BY DEF ServerAtEnd
<1>3. ss' \notin EarlyStates
  BY DEF EarlyStates
<1>4. ~Has(sq, "Final")
  BY DEF Ordered, NoFinalYet
<1>5. Unprepared' /\ Preparing' /\ NoFinalYet' /\ NoSyncYet'
  BY <1>1 DEF Unprepared, Preparing, NoFinalYet, NoSyncYet, EarlyStates
<1>6. OneFinal' /\ MappingsSent' /\ Finalized'
  BY <1>1, <1>4 DEF Ordered, OneFinal, MappingsSent, Finalized, NoSyncYet
<1>7. ItemsSent'
  BY <1>1, <1>2, <1>4 DEF ItemsSent
<1>8. SavedFirst' /\ Initialized'
  BY <1>1 DEF Ordered, SavedFirst, Initialized
<1>9. FirstTaken' /\ ChangesCut' /\ Alerted'
  BY <1>3 DEF FirstTaken, ChangesCut, Alerted
<1>10. ~Has(cq, "PutGet")
  BY DEF Ordered, DevInfFirst, ErrorStates
<1>11. DevInfFirst'
  BY <1>1, <1>10 DEF Ordered, DevInfFirst
<1> QED
  BY <1>5, <1>6, <1>7, <1>8, <1>9, <1>11 DEF Ordered

\* The server has nothing more to say than that all is well
LEMMA ServerEndsLast ==
    ASSUME Ordered, SameConfig, ServerAtEnd, ss' = "FINALIZING",
           \/ ss \in {"RECEIVING_ITEMS", "RECEIVING_MAPPINGS"}
           \/ ss = "SENDING_ITEMS" /\ sq = <<>>,
           Has(sq', "PutGet") => Has(sq, "PutGet"),
           ~Has(sq, "Final") => FinalIsLast(sq')
    PROVE  Ordered'
<1>1. /\ ~EndingC /\ ~EndingC'
      /\ cs' = cs /\ cq' = cq /\ cw' = cw /\ cs \notin {"NOT_PREPARED", "PREPARED"}
      /\ toC' = {} /\ toS' # {} /\ \A m \in toS' : DevInfOnTop(m) /\ OnlyStatuses(m)
      /\ \A kind : \A m \in toS' : ~Has(m, kind)
  BY ServerEndsLess
<1>2. (closed' <=> closed) /\ ~lastC'
  BY DEF ServerAtEnd
<1>3. ~Has(sq, "Final")
  BY EmptyShows DEF Ordered, NoFinalYet
<1>4. Unprepared' /\ Preparing' /\ NoFinalYet' /\ NoSyncYet'
  BY <1>1 DEF Unprepared, Preparing, NoFinalYet, NoSyncYet, EarlyStates
<1>5. OneFinal' /\ MappingsSent' /\ Finalized' /\ ItemsSent'
  BY <1>1, <1>2, <1>3 DEF OneFinal, MappingsSent, Finalized, ItemsSent
<1>6. SavedFirst' /\ Initialized'
  BY <1>1 DEF Ordered, SavedFirst, Initialized
<1>7. FirstTaken' /\ ChangesCut' /\ Alerted'
  BY DEF FirstTaken, ChangesCut, Alerted, EarlyStates
<1>8. ~Has(cq, "PutGet")
  BY DEF Ordered, DevInfFirst, ErrorStates
<1>9. DevInfFirst'
  BY <1>1, <1>8 DEF Ordered, DevInfFirst
<1> QED
  BY <1>4, <1>5, <1>6, <1>7, <1>9 DEF Ordered

-----------------------------------------------------------------------------
(***************************************************************************)
(* A message is answered.                                                  *)
(***************************************************************************)
\* The alerts that ask for more, sent when no package is queued
LEMMA AlertsShow ==
    ASSUME NEW s \in Seq(Package), \A i \in DOMAIN s : s[i].kind = "Alert"
    PROVE  /\ \A kind : Has(s, kind) => kind = "Alert"
           /\ FinalIsLast(s) /\ DevInfAhead(s)
           /\ \A w : WarnedAll(w, s)
  BY DEF Has, FinalIsLast, DevInfAhead, WarnedAll

LEMMA QueueShows ==
    ASSUME TypeOK, NEW p \in Party
    PROVE  /\ Queue(p) \in Seq(Package)
           /\ \A kind : Has(Queue(p), kind) => kind = "Alert" \/ Has(packages[p], kind)
           /\ FinalIsLast(packages[p]) => FinalIsLast(Queue(p))
           /\ \A w : WarnedAll(w, packages[p]) => WarnedAll(w, Queue(p))
           /\ NoAlerts(packages[p]) => NoAlerts(Queue(p))
           /\ DevInfAhead(packages[p]) => DevInfAhead(Queue(p))
<1>1. CASE packages[p] # <<>>
  BY <1>1 DEF Queue, TypeOK
<1>2. CASE packages[p] = <<>>
  <2> DEFINE n == Len(targets[p])
             f == NextMessageAlerts(p)
  <2>1. targets[p] \in Seq(Target) /\ n \in Nat /\ DOMAIN targets[p] = 1..n
    BY LenProperties DEF TypeOK
  <2>2. \A i \in 1..n : targets[p][i] \in Target
    BY <2>1, ElementOfSeq
  <2>3. \A i \in 1..n : Alert(NEXT_MESSAGE, targets[p][i].db) \in Package
    BY <2>2 DEF Target, Alert, Package
  <2>4. f = [i \in 1..n |-> Alert(NEXT_MESSAGE, targets[p][i].db)]
    BY <2>1 DEF NextMessageAlerts
  <2> HIDE DEF n, f
  <2>5. f \in [1..n -> Package] /\ \A i \in 1..n : f[i] = Alert(NEXT_MESSAGE, targets[p][i].db)
    BY <2>3, <2>4
  <2>6. f \in Seq(Package) /\ DOMAIN f = 1..n
    BY <2>1, <2>5, ListType
  <2>7. \A i \in DOMAIN f : f[i].kind = "Alert" /\ f[i].code = NEXT_MESSAGE
    BY <2>5, <2>6 DEF Alert
  <2>8. NoAlerts(f)
    BY <2>7 DEF NoAlerts, Announces, SyncCodes, NEXT_MESSAGE
  <2>9. Queue(p) = f
    BY <1>2 DEF Queue, f
  <2> QED
    BY <2>6, <2>7, <2>8, <2>9, AlertsShow
<1> QED
  BY <1>1, <1>2

\* What the packages cut from a queue say of the message they are written in
LEMMA WrittenShows ==
    ASSUME TypeOK, NEW p \in Party, NEW k \in 0..Len(statuses[p]),
           NEW pkgs \in Seq(Package), NEW ample, NEW cut \in Cuts(pkgs, ample),
           NEW m, m = Top(p, k) \o cut.written
    PROVE  /\ m \in Seq(Fragment) /\ cut.left \in Seq(Package)
           /\ \A kind : Has(m, kind) => kind \in {"Header", "Status"} \/ Has(pkgs, kind)
           /\ \A kind : Has(cut.left, kind) => Has(pkgs, kind)
           /\ FinalIsLast(pkgs) => /\ FinalIsLast(cut.left)
                                   /\ Has(m, "Final") => cut.left = <<>>
           /\ \A w : WarnedAll(w, pkgs) => /\ WarnedAll(w, m)
                                           /\ WarnedAll(w, cut.left) \/ Warning(w, m)
           /\ NoAlerts(pkgs) => NoAlerts(m) /\ NoAlerts(cut.left)
           /\ (k = 0 /\ AllPlain(pkgs)) => AllPlain(m)
           /\ DevInfAhead(pkgs) => /\ DevInfOnTop(m) /\ DevInfAhead(cut.left)
                                   /\ Has(cut.left, "PutGet") => OnlyStatuses(m)
           /\ Followed(cut.written) => Followed(m)
<1> DEFINE a == Top(p, k)
           b == cut.written
           c == cut.left
<1>1. /\ a \in Seq(Fragment) /\ OnlyStatuses(a)
      /\ NoAlerts(a) /\ (k = 0 => AllPlain(a))
      /\ \A kind : kind \notin {"Header", "Status"} => ~Has(a, kind)
  BY TopShows
<1>2. /\ b \in Seq(Package) /\ c \in Seq(Package)
      /\ \A kind : Has(b, kind) \/ Has(c, kind) => Has(pkgs, kind)
      /\ NoAlerts(pkgs) => NoAlerts(b) /\ NoAlerts(c)
      /\ AllPlain(pkgs) => AllPlain(b)
      /\ FinalIsLast(pkgs) => /\ FinalIsLast(c)
                              /\ Has(b, "Final") => c = <<>>
      /\ \A w : WarnedAll(w, pkgs) => /\ WarnedAll(w, b)
                                      /\ WarnedAll(w, c) \/ Warning(w, b)
      /\ DevInfAhead(pkgs) => /\ DevInfAhead(b) /\ DevInfAhead(c)
                              /\ Has(c, "PutGet") => b = <<>>
  BY CutShows
<1>3. m = a \o b
  OBVIOUS
<1> HIDE DEF a, b, c
<1>4. b \in Seq(Fragment)
  BY <1>2, SeqMonotonic DEF Fragment
<1>5. m \in Seq(Fragment)
  BY <1>1, <1>3, <1>4, ConcatProperties
<1>6. /\ \A kind : Has(m, kind) <=> Has(a, kind) \/ Has(b, kind)
      /\ \A w : Warning(w, a) \/ Warning(w, b) => Warning(w, m)
      /\ \A w : (~Has(a, "Final") /\ (Warning(w, a) \/ WarnedAll(w, b))) => WarnedAll(w, m)
      /\ (NoAlerts(a) /\ NoAlerts(b)) => NoAlerts(m)
      /\ (AllPlain(a) /\ AllPlain(b)) => AllPlain(m)
      /\ (OnlyStatuses(a) /\ DevInfAhead(b)) => DevInfOnTop(m)
      /\ (OnlyStatuses(a) /\ OnlyStatuses(b)) => OnlyStatuses(m)
      /\ (NoAlerts(a) /\ Followed(b)) => Followed(m)
  BY <1>1, <1>3, <1>4, JoinShows
<1>7. /\ \A kind : Has(m, kind) => kind \in {"Header", "Status"} \/ Has(pkgs, kind)
      /\ \A kind : Has(c, kind) => Has(pkgs, kind)
  BY <1>1, <1>2, <1>6
<1>8. ~Has(a, "Final")
  BY <1>1
<1>9. FinalIsLast(pkgs) => FinalIsLast(c) /\ (Has(m, "Final") => c = <<>>)
  BY <1>2, <1>6, <1>8
<1>10. \A w : WarnedAll(w, pkgs) => WarnedAll(w, m) /\ (WarnedAll(w, c) \/ Warning(w, m))
  BY <1>2, <1>6, <1>8
<1>11. /\ NoAlerts(pkgs) => NoAlerts(m) /\ NoAlerts(c)
       /\ (k = 0 /\ AllPlain(pkgs)) => AllPlain(m)
  BY <1>1, <1>2, <1>6
<1>12. DevInfAhead(pkgs) => /\ DevInfOnTop(m) /\ DevInfAhead(c)
                            /\ Has(c, "PutGet") => OnlyStatuses(m)
  BY <1>1, <1>2, <1>6, EmptyShows
<1>13. Followed(b) => Followed(m)
  BY <1>1, <1>6
<1> QED
  BY <1>2, <1>5, <1>7, <1>9, <1>10, <1>11, <1>12, <1>13 DEF b, c

\* The message of a party that answers, and what it leaves in its queue
LEMMA AnswerShows ==
    ASSUME TypeOK, NEW p \in Party, NEW s \in Sendable(p),
           NEW m, m = Top(p, s.k) \o s.cut.written
    PROVE  /\ \A kind \in {"Sync", "Final", "PutGet"} :
                 Has(m, kind) \/ Has(s.cut.left, kind) => Has(packages[p], kind)
           /\ FinalIsLast(packages[p]) => /\ FinalIsLast(s.cut.left)
                                          /\ Has(m, "Final") => s.cut.left = <<>>
           /\ \A w : WarnedAll(w, packages[p]) => /\ WarnedAll(w, m)
                                                  /\ WarnedAll(w, s.cut.left) \/ Warning(w, m)
           /\ NoAlerts(packages[p]) => NoAlerts(m) /\ NoAlerts(s.cut.left)
           /\ DevInfAhead(packages[p]) => /\ DevInfOnTop(m) /\ DevInfAhead(s.cut.left)
                                          /\ Has(s.cut.left, "PutGet") => OnlyStatuses(m)
<1> DEFINE pkgs == Queue(p)
           ample == Len(statuses[p]) <= cfg.room
           k == s.k
           cut == s.cut
<1>1. k \in 0..Len(statuses[p]) /\ cut \in Cuts(pkgs, ample)
  BY SendableType DEF Sendable
<1>2. /\ pkgs \in Seq(Package)
      /\ \A kind : Has(pkgs, kind) => kind = "Alert" \/ Has(packages[p], kind)
      /\ FinalIsLast(packages[p]) => FinalIsLast(pkgs)
      /\ \A w : WarnedAll(w, packages[p]) => WarnedAll(w, pkgs)
      /\ NoAlerts(packages[p]) => NoAlerts(pkgs)
      /\ DevInfAhead(packages[p]) => DevInfAhead(pkgs)
  BY QueueShows
<1>3. m = Top(p, k) \o cut.written
  OBVIOUS
<1> HIDE DEF pkgs, ample, k, cut
<1>4. /\ m \in Seq(Fragment) /\ cut.left \in Seq(Package)
      /\ \A kind : Has(m, kind) => kind \in {"Header", "Status"} \/ Has(pkgs, kind)
      /\ \A kind : Has(cut.left, kind) => Has(pkgs, kind)
      /\ FinalIsLast(pkgs) => /\ FinalIsLast(cut.left)
                              /\ Has(m, "Final") => cut.left = <<>>
      /\ \A w : WarnedAll(w, pkgs) => /\ WarnedAll(w, m)
                                      /\ WarnedAll(w, cut.left) \/ Warning(w, m)
      /\ NoAlerts(pkgs) => NoAlerts(m) /\ NoAlerts(cut.left)
      /\ (k = 0 /\ AllPlain(pkgs)) => AllPlain(m)
      /\ DevInfAhead(pkgs) => /\ DevInfOnTop(m) /\ DevInfAhead(cut.left)
                              /\ Has(cut.left, "PutGet") => OnlyStatuses(m)
      /\ Followed(cut.written) => Followed(m)
  BY <1>1, <1>2, <1>3, WrittenShows
<1>5. \A kind \in {"Sync", "Final", "PutGet"} :
         Has(m, kind) \/ Has(cut.left, kind) => Has(packages[p], kind)
  BY <1>2, <1>4
<1> QED
  BY <1>2, <1>4, <1>5 DEF cut

\* The client answers the server
LEMMA ClientAnswersMessage ==
    ASSUME Ordered, SameConfig, SameServer, cs' = cs, cw' = cw,
           cs \in {"PREPARED", "LOCAL_INIT", "REMOTE_INIT", "SENDING_ITEMS",
                   "RECEIVING_ITEMS", "SENDING_MAPPINGS"},
           NEW m, toC = {<<>>}, toC' = {}, toS = {}, toS' = {m},
           ~lastC, ~lastC', ~lastS, ~lastS',
           \A kind \in {"Sync", "Final", "PutGet"} : Has(m, kind) \/ Has(cq', kind) => Has(cq, kind),
           DevInfAhead(cq) => /\ DevInfOnTop(m) /\ DevInfAhead(cq')
                              /\ Has(cq', "PutGet") => OnlyStatuses(m)
    PROVE  Ordered'
<1>1. /\ ss' = ss /\ sq' = sq /\ (Reverts' <=> Reverts) /\ (closed' <=> closed)
      /\ ss # "NOT_PREPARED" /\ cs # "PREPARED" /\ cs # "NOT_PREPARED"
      /\ ~EndingC'
  BY DEF Ordered, Unprepared, Preparing, SameServer, EndingC
<1>2. /\ Has(m, "Sync") \/ Has(cq', "Sync") => Has(cq, "Sync")
      /\ Has(m, "PutGet") \/ Has(cq', "PutGet") => Has(cq, "PutGet")
  OBVIOUS
<1>3. ~(cs = "SENDING_ITEMS" /\ ss \in EarlyStates)
  BY <1>1 DEF Ordered, FirstTaken
<1>4. Unprepared' /\ Preparing'
  BY <1>1 DEF Unprepared, Preparing
<1>5. NoSyncYet' /\ NoFinalYet'
  BY <1>1 DEF Ordered, NoSyncYet, NoFinalYet
<1>6. OneFinal' /\ MappingsSent' /\ Finalized'
  BY <1>1 DEF Ordered, OneFinal, MappingsSent, Finalized
<1>7. ItemsSent'
  <2>1. \A w : ~Warning(w, <<>>)
    BY EmptyShows
  <2> QED
    BY <1>1, <2>1 DEF Ordered, ItemsSent
<1>8. SavedFirst' /\ Initialized'
  BY <1>1, <1>2 DEF Ordered, SavedFirst, Initialized
<1>9. FirstTaken' /\ ChangesCut'
  BY <1>1, <1>2, <1>3 DEF Ordered, FirstTaken, ChangesCut
<1>10. DevInfFirst'
  BY <1>1, <1>2 DEF Ordered, DevInfFirst
<1>11. Alerted'
  BY <1>1 DEF Ordered, Alerted
<1> QED
  BY <1>4, <1>5, <1>6, <1>7, <1>8, <1>9, <1>10, <1>11 DEF Ordered

\* The server answers the client
LEMMA ServerAnswersMessage ==
    ASSUME Ordered, SameConfig, SameClient, ss' = ss, Reverts' <=> Reverts, closed' <=> closed,
           ss \in InitStates \cup {"RECEIVING_ITEMS", "SENDING_ITEMS", "RECEIVING_MAPPINGS"},
           NEW m, toS = {<<>>}, toS' = {}, toC = {}, toC' = {m},
           ~lastC, ~lastC', ~lastS, ~lastS',
           \A kind \in {"Sync", "Final", "PutGet"} : Has(m, kind) \/ Has(sq', kind) => Has(sq, kind),
           FinalIsLast(sq) => FinalIsLast(sq') /\ (Has(m, "Final") => sq' = <<>>),
           \A w : WarnedAll(w, sq) => WarnedAll(w, m) /\ (WarnedAll(w, sq') \/ Warning(w, m)),
           NoAlerts(sq) => NoAlerts(m) /\ NoAlerts(sq')
    PROVE  Ordered'
<1>1. /\ cs' = cs /\ cq' = cq /\ cw' = cw
      /\ cs # "PREPARED" /\ cs # "NOT_PREPARED"
      /\ EndingC' <=> Has(m, "Final")
  BY DEF Ordered, Unprepared, Preparing, SameClient, EndingC
<1>2. /\ Has(m, "Sync") \/ Has(sq', "Sync") => Has(sq, "Sync")
      /\ Has(m, "Final") \/ Has(sq', "Final") => Has(sq, "Final")
      /\ Has(m, "PutGet") \/ Has(sq', "PutGet") => Has(sq, "PutGet")
  OBVIOUS
<1>3. ss \notin GoneStates \cup {"FINALIZING", "NOT_PREPARED"}
  BY DEF GoneStates, InitStates, ErrorStates
<1>4. ~(cs = "SENDING_ITEMS" /\ ss \in EarlyStates)
  BY <1>3 DEF Ordered, FirstTaken
<1>5. Unprepared' /\ Preparing'
  BY <1>1, <1>3 DEF Unprepared, Preparing
<1>6. NoSyncYet' /\ NoFinalYet'
  BY <1>1, <1>2 DEF Ordered, NoSyncYet, NoFinalYet
<1>7. OneFinal'
  BY <1>1, <1>3, EmptyShows DEF Ordered, OneFinal
<1>8. MappingsSent' /\ Finalized'
  BY <1>1, <1>2, <1>3 DEF Ordered, MappingsSent, Finalized, GoneStates
<1>9. ItemsSent'
  <2>1. cs = "SENDING_ITEMS" => WarnedAll(cw, sq)
    BY <1>3 DEF Ordered, ItemsSent, GoneStates
  <2> QED
    BY <1>1, <2>1 DEF ItemsSent
<1>10. SavedFirst' /\ Initialized'
  BY <1>1, <1>2 DEF Ordered, SavedFirst, Initialized, EndingC
<1>11. FirstTaken' /\ ChangesCut'
  BY <1>1, <1>4 DEF Ordered, FirstTaken, ChangesCut
<1>12. DevInfFirst'
  BY <1>1, <1>2 DEF Ordered, DevInfFirst
<1>13. Alerted'
  BY <1>1 DEF Ordered, Alerted
<1> QED
  BY <1>5, <1>6, <1>7, <1>8, <1>9, <1>10, <1>11, <1>12, <1>13 DEF Ordered

\* The server sends of its last package what the message has room for: it is
\* done when that is all
LEMMA ServerSendsLast ==
    ASSUME Ordered, SameConfig, SameClient, ss = "FINALIZING",
           \/ ss' = "FINALIZING" /\ sq' # <<>> /\ (closed' <=> closed)
           \/ ss' = "SYNC_FINISHED" /\ sq' = <<>> /\ closed',
           NEW m, toS = {<<>>}, toS' = {}, toC = {}, toC' = {m},
           ~lastC, ~lastC', ~lastS, ~lastS',
           \A kind \in {"Sync", "Final", "PutGet"} : Has(m, kind) \/ Has(sq', kind) => Has(sq, kind),
           FinalIsLast(sq) => FinalIsLast(sq') /\ (Has(m, "Final") => sq' = <<>>)
    PROVE  Ordered'
<1>1. /\ cs' = cs /\ cq' = cq /\ cw' = cw
      /\ cs # "PREPARED" /\ cs # "NOT_PREPARED"
      /\ EndingC' <=> Has(m, "Final")
  BY DEF Ordered, Unprepared, Preparing, SameClient, EndingC
<1>2. /\ ~Has(m, "PutGet") /\ ~Has(sq', "PutGet") /\ ~Has(cq, "PutGet")
  BY DEF Ordered, DevInfFirst, ErrorStates
<1>3. FinalIsLast(sq) /\ cs \notin {"FINALIZING", "SYNC_FINISHED"}
  BY DEF Ordered, OneFinal, SavedFirst, GoneStates, ErrorStates
<1>4. ss' = "FINALIZING" => ~Has(m, "Final")
  BY <1>3
<1>5. ss' # "SYNC_FINISHED" => WarnedAll(cw, m)
  BY <1>4 DEF WarnedAll, Has
<1>6. ss' \notin EarlyStates \cup {"LOCAL_INIT", "RECEIVING_ITEMS", "RECEIVING_MAPPINGS"}
  BY DEF EarlyStates
<1>7. Unprepared' /\ Preparing' /\ NoSyncYet' /\ NoFinalYet'
  BY <1>1, <1>6 DEF Unprepared, Preparing, NoSyncYet, NoFinalYet, EarlyStates
<1>8. OneFinal' /\ MappingsSent' /\ Finalized'
  BY <1>1, <1>3, <1>4 DEF OneFinal, MappingsSent, Finalized, GoneStates
<1>9. ItemsSent'
  BY <1>1, <1>5 DEF ItemsSent
<1>10. SavedFirst' /\ Initialized'
  BY <1>1, <1>3, <1>6 DEF SavedFirst, Initialized
<1>11. FirstTaken' /\ ChangesCut' /\ Alerted'
  BY <1>6 DEF FirstTaken, ChangesCut, Alerted
<1>12. DevInfFirst'
  BY <1>1, <1>2 DEF Ordered, DevInfFirst
<1> QED
  BY <1>7, <1>8, <1>9, <1>10, <1>11, <1>12 DEF Ordered

-----------------------------------------------------------------------------
(***************************************************************************)
(* The packages that the two sessions queue.                               *)
(***************************************************************************)
LEMMA JoinAhead ==
    ASSUME NEW S, NEW s \in Seq(S), NEW t \in Seq(S), DevInfAhead(s), ~Has(t, "PutGet")
    PROVE  DevInfAhead(s \o t)
<1> DEFINE u == s \o t
           a == Len(s)
<1>1. /\ \A i \in DOMAIN s : u[i] = s[i]
      /\ \A j \in DOMAIN t : u[a + j] = t[j]
      /\ \A i \in DOMAIN u : i \in DOMAIN s \/ \E j \in DOMAIN t : i = a + j
  BY JoinPlaces
<1> HIDE DEF u, a
<1> SUFFICES ASSUME NEW i \in DOMAIN u, u[i].kind = "PutGet"
             PROVE  i = 1
  BY DEF DevInfAhead, u
<1>2. CASE i \in DOMAIN s
  BY <1>1, <1>2 DEF DevInfAhead
<1>3. CASE \E j \in DOMAIN t : i = a + j
  BY <1>1, <1>3 DEF Has
<1> QED
  BY <1>1, <1>2, <1>3

LEMMA SameLength ==
    ASSUME NEW S, NEW s \in Seq(S), NEW T, NEW t \in Seq(T), DOMAIN s = DOMAIN t
    PROVE  Len(s) = Len(t)
<1> DEFINE m == Len(s)
           n == Len(t)
<1>1. m \in Nat /\ n \in Nat /\ DOMAIN s = 1..m /\ DOMAIN t = 1..n
  BY LenProperties
<1> HIDE DEF m, n
<1>2. m # 0 => m \in 1..n
  <2>1. m # 0 => m \in 1..m
    BY <1>1
  <2> QED
    BY <1>1, <2>1
<1>3. n # 0 => n \in 1..m
  <2>1. n # 0 => n \in 1..n
    BY <1>1
  <2> QED
    BY <1>1, <2>1
<1>4. m = n
  BY <1>1, <1>2, <1>3
<1> QED
  BY <1>4 DEF m, n

\* An alert for each target
LEMMA AlertsOf ==
    ASSUME NEW tgts \in Seq(Target), NEW s, s = InitializationAlerts(tgts)
    PROVE  /\ s \in Seq(Package) /\ Len(s) = Len(tgts) /\ DOMAIN s = DOMAIN tgts
           /\ \A i \in DOMAIN s : s[i].kind = "Alert"
           /\ \A kind : Has(s, kind) => kind = "Alert"
           /\ DevInfAhead(s)
           /\ tgts # <<>> => Warning(TRUE, s)
           /\ (\A i \in DOMAIN tgts : tgts[i].mode.type # "SLOW") => AllPlain(s)
<1>1. s \in Seq(Package)
  BY AlertsType
<1>2. /\ DOMAIN s = DOMAIN tgts
      /\ \A i \in DOMAIN s : s[i] = Alert(ToSyncMLCode(tgts[i].mode), tgts[i].db)
  BY DEF InitializationAlerts
<1>3. \A i \in DOMAIN tgts : tgts[i] \in Target /\ tgts[i].mode \in AlertMode
  <2>1. \A i \in DOMAIN tgts : tgts[i] \in Target
    BY ElementOfSeq, LenProperties
  <2> QED
    BY <2>1 DEF Target
<1>5. Len(s) = Len(tgts)
  BY <1>1, <1>2, SameLength
<1>6. \A i \in DOMAIN s : s[i].kind = "Alert" /\ s[i].code = ToSyncMLCode(tgts[i].mode)
  BY <1>2 DEF Alert
<1>7. \A i \in DOMAIN s : Announces(s[i])
  BY <1>2, <1>3, <1>6, ToSyncMLCodeType DEF Announces
<1>8. (\A kind : Has(s, kind) => kind = "Alert") /\ DevInfAhead(s)
  BY <1>1, <1>6, AlertsShow
<1>9. tgts # <<>> => Warning(TRUE, s)
  <2>1. tgts # <<>> => 1 \in DOMAIN s
    BY <1>2, TailPlaces
  <2> QED
    BY <1>7, <2>1 DEF Warning, Warns
<1>10. ASSUME \A i \in DOMAIN tgts : tgts[i].mode.type # "SLOW"
       PROVE  AllPlain(s)
  <2> SUFFICES ASSUME NEW i \in DOMAIN s PROVE Plain(s[i])
    BY DEF AllPlain
  <2>1. tgts[i].mode \in AlertMode /\ tgts[i].mode.type # "SLOW"
    BY <1>2, <1>3, <1>10
  <2>2. \A mode \in AlertMode : mode.type # "SLOW" => ModeOf(ToSyncMLCode(mode)).type # "SLOW"
    BY DEF ModeOf, ToSyncMLCode, OneWayCode, AlertMode, SyncMode, Directions, Initiators, Types
  <2> QED
    BY <1>6, <2>1, <2>2 DEF Plain
<1> QED
  BY <1>1, <1>2, <1>5, <1>6, <1>8, <1>9, <1>10

\* A package of changes for each target
LEMMA ChangesOf ==
    ASSUME NEW tgts \in Seq(Target), NEW s, s = LocalChangesPackages(tgts)
    PROVE  /\ s \in Seq(Package) /\ Len(s) = Len(tgts) /\ DOMAIN s = DOMAIN tgts
           /\ \A i \in DOMAIN s : s[i].kind = "Sync"
           /\ \A kind : Has(s, kind) => kind = "Sync"
           /\ NoAlerts(s) /\ AllPlain(s)
           /\ tgts # <<>> => \A w : Warning(w, s)
<1>1. s \in Seq(Package)
  BY ChangesPackagesType
<1>2. /\ DOMAIN s = DOMAIN tgts
      /\ \A i \in DOMAIN s : s[i].kind = "Sync"
  BY DEF LocalChangesPackages, Changes
<1>4. Len(s) = Len(tgts)
  BY <1>1, <1>2, SameLength
<1>5. NoAlerts(s) /\ AllPlain(s) /\ \A kind : Has(s, kind) => kind = "Sync"
  BY <1>2 DEF NoAlerts, AllPlain, Plain, Announces, Has
<1>6. tgts # <<>> => 1 \in DOMAIN s
  BY <1>2, TailPlaces
<1>7. tgts # <<>> => \A w : Warning(w, s)
  BY <1>2, <1>6 DEF Warning, Warns
<1> QED
  BY <1>1, <1>2, <1>4, <1>5, <1>7

\* Packages that are ended
LEMMA EndedShows ==
    ASSUME NEW s \in Seq(Package), NEW t, t = s \o <<FinalPackage>>
    PROVE  /\ t \in Seq(Package)
           /\ \A kind : Has(t, kind) <=> Has(s, kind) \/ kind = "Final"
           /\ ~Has(s, "Final") => FinalIsLast(t)
           /\ \A w : (~Has(s, "Final") /\ Warning(w, s)) => WarnedAll(w, t)
           /\ DevInfAhead(s) => DevInfAhead(t)
           /\ AllPlain(s) => AllPlain(t)
<1> DEFINE f == <<FinalPackage>>
<1>1. f \in Seq(Package)
  BY FinalType
<1>2. /\ \A kind : Has(f, kind) <=> kind = "Final"
      /\ FinalIsLast(f) /\ NoAlerts(f)
  BY FinalShows
<1>3. AllPlain(f)
  BY FinalShows DEF AllPlain, Plain, Announces, FinalPackage
<1> HIDE DEF f
<1>4. t = s \o f
  BY DEF f
<1>5. t \in Seq(Package)
  BY <1>1, <1>4, ConcatProperties
<1>6. /\ \A kind : Has(t, kind) <=> Has(s, kind) \/ Has(f, kind)
      /\ \A w : (~Has(s, "Final") /\ (Warning(w, s) \/ WarnedAll(w, f))) => WarnedAll(w, t)
      /\ (~Has(s, "Final") /\ FinalIsLast(f)) => FinalIsLast(t)
      /\ (AllPlain(s) /\ AllPlain(f)) => AllPlain(t)
  BY <1>1, <1>4, JoinShows
<1>7. DevInfAhead(s) => DevInfAhead(t)
  BY <1>1, <1>2, <1>4, JoinAhead
<1>8. \A kind : Has(t, kind) <=> Has(s, kind) \/ kind = "Final"
  BY <1>2, <1>6
<1> QED
  BY <1>2, <1>3, <1>5, <1>6, <1>7, <1>8

\* What the server adds at the end of a package
LEMMA ServerAdds ==
    ASSUME TypeOK, NEW t \in Seq(Package), NEW q, q = sq \o t,
           ~Has(t, "PutGet"), FinalIsLast(t)
    PROVE  /\ Has(q, "PutGet") => Has(sq, "PutGet")
           /\ (Has(q, "Sync") /\ ~Has(t, "Sync")) => Has(sq, "Sync")
           /\ ~Has(sq, "Final") => FinalIsLast(q)
           /\ \A w : (~Has(sq, "Final") /\ WarnedAll(w, t)) => WarnedAll(w, q)
<1>1. sq \in Seq(Package)
  BY TwoParties DEF TypeOK, sq
<1>2. /\ \A kind : Has(q, kind) <=> Has(sq, kind) \/ Has(t, kind)
      /\ \A w : (~Has(sq, "Final") /\ (Warning(w, sq) \/ WarnedAll(w, t))) => WarnedAll(w, q)
      /\ (~Has(sq, "Final") /\ FinalIsLast(t)) => FinalIsLast(q)
  BY <1>1, JoinShows
<1>3. /\ Has(q, "PutGet") <=> Has(sq, "PutGet") \/ Has(t, "PutGet")
      /\ Has(q, "Sync") <=> Has(sq, "Sync") \/ Has(t, "Sync")
  BY <1>2
<1> QED
  BY <1>2, <1>3

\* What the client adds to its packages
LEMMA ClientAdds ==
    ASSUME TypeOK, NEW t \in Seq(Package), NEW q, q = cq \o t, ~Has(t, "PutGet")
    PROVE  /\ DevInfAhead(cq) => DevInfAhead(q)
           /\ Has(q, "PutGet") => Has(cq, "PutGet")
<1>1. cq \in Seq(Package)
  BY TwoParties DEF TypeOK, cq
<1>2. \A kind : Has(q, kind) <=> Has(cq, kind) \/ Has(t, kind)
  BY <1>1, JoinShows
<1>3. Has(q, "PutGet") <=> Has(cq, "PutGet") \/ Has(t, "PutGet")
  BY <1>2
<1>4. DevInfAhead(cq) => DevInfAhead(q)
  BY <1>1, JoinAhead
<1> QED
  BY <1>3, <1>4

\* A mapping package
LEMMA MappingsShow ==
    ASSUME TypeOK, NEW list \in IF cfg.fastMaps THEN {<<>>} ELSE Ascending(Mapped)
    PROVE  /\ UpdateStatusPackages(list) \in Seq(Package)
           /\ ~Has(UpdateStatusPackages(list), "PutGet")
<1> DEFINE s == [i \in DOMAIN list |-> Mappings(targets[Client][list[i]].db,
                                                targets[Client][list[i]].mapped)]
           u == UpdateStatusPackages(list)
<1>1. u \in Seq(Package)
  BY UpdateStatusType
<1>2. DOMAIN s = DOMAIN list /\ \A i \in DOMAIN s : s[i].kind = "Map"
  BY DEF Mappings
<1>3. s \in Seq(Package)
  BY MappingListType
<1>4. ~Has(s, "PutGet")
  BY <1>2 DEF Has
<1>5. u = s \o <<FinalPackage>>
  BY DEF UpdateStatusPackages
<1> HIDE DEF s, u
<1>6. ~Has(u, "PutGet")
  BY <1>3, <1>4, <1>5, EndedShows
<1> QED
  BY <1>1, <1>6 DEF u

\* The packages of the initialization
LEMMA InitializationShows ==
    ASSUME NEW tgts \in Seq(Target), NEW noInit \in BOOLEAN,
           NEW u, u = InitializationPackages(tgts, noInit)
    PROVE  /\ u \in Seq(Package) /\ DevInfAhead(u) /\ FinalIsLast(u)
           /\ ~noInit => ~Has(u, "Sync")
           /\ (\A i \in DOMAIN tgts : tgts[i].mode.type # "SLOW") => AllPlain(u)
<1> DEFINE d == <<DevInf>>
           a == InitializationAlerts(tgts)
           c == IF noInit THEN LocalChangesPackages(tgts) ELSE <<>>
           da == d \o a
           dac == da \o c
           slow == \E i \in DOMAIN tgts : tgts[i].mode.type = "SLOW"
<1>1. /\ d \in Seq(Package) /\ DevInfAhead(d) /\ AllPlain(d)
      /\ ~Has(d, "Sync") /\ ~Has(d, "Final")
  <2>1. DOMAIN d = {1} /\ d[1].kind = "PutGet" /\ d \in Seq(Package)
    BY DEF DevInf, Package
  <2> HIDE DEF d
  <2> QED
    BY <2>1 DEF DevInfAhead, AllPlain, Plain, Announces, Has
<1>2. /\ a \in Seq(Package)
      /\ \A kind : Has(a, kind) => kind = "Alert"
      /\ ~slow => AllPlain(a)
  BY AlertsOf
<1>3. /\ c \in Seq(Package) /\ AllPlain(c)
      /\ ~Has(c, "PutGet") /\ ~Has(c, "Final")
      /\ ~noInit => ~Has(c, "Sync")
  <2>1. CASE noInit
    BY <2>1, ChangesOf
  <2>2. CASE ~noInit
    BY <2>2, EmptyShows
  <2> QED
    BY <2>1, <2>2
<1>4. u = dac \o <<FinalPackage>>
  BY DEF InitializationPackages
<1>5. ~slow <=> \A i \in DOMAIN tgts : tgts[i].mode.type # "SLOW"
  OBVIOUS
<1> HIDE DEF d, a, c, da, dac, slow
<1>6. /\ da \in Seq(Package) /\ DevInfAhead(da)
      /\ ~slow => AllPlain(da)
      /\ ~Has(da, "Sync") /\ ~Has(da, "Final")
  <2>1. ~Has(a, "PutGet") /\ ~Has(a, "Sync") /\ ~Has(a, "Final")
    BY <1>2
  <2>2. DevInfAhead(da) /\ da \in Seq(Package)
    BY <1>1, <1>2, <2>1, JoinAhead, ConcatProperties DEF da
  <2>3. /\ \A kind : Has(da, kind) <=> Has(d, kind) \/ Has(a, kind)
        /\ (AllPlain(d) /\ AllPlain(a)) => AllPlain(da)
    BY <1>1, <1>2, JoinShows DEF da
  <2> QED
    BY <1>1, <1>2, <2>1, <2>2, <2>3
<1>7. /\ dac \in Seq(Package) /\ DevInfAhead(dac)
      /\ ~slow => AllPlain(dac)
      /\ ~noInit => ~Has(dac, "Sync")
      /\ ~Has(dac, "Final")
  <2>1. DevInfAhead(dac) /\ dac \in Seq(Package)
    BY <1>3, <1>6, JoinAhead, ConcatProperties DEF dac
  <2>2. /\ \A kind : Has(dac, kind) <=> Has(da, kind) \/ Has(c, kind)
        /\ (AllPlain(da) /\ AllPlain(c)) => AllPlain(dac)
    BY <1>3, <1>6, JoinShows DEF dac
  <2> QED
    BY <1>3, <1>6, <2>1, <2>2
<1>8. /\ u \in Seq(Package)
      /\ \A kind : Has(u, kind) <=> Has(dac, kind) \/ kind = "Final"
      /\ ~Has(dac, "Final") => FinalIsLast(u)
      /\ DevInfAhead(dac) => DevInfAhead(u)
      /\ AllPlain(dac) => AllPlain(u)
  BY <1>4, <1>7, EndedShows
<1> QED
  BY <1>5, <1>7, <1>8

-----------------------------------------------------------------------------
(***************************************************************************)
(* The first message of a session.                                         *)
(***************************************************************************)
\* Alerts are cut off from what follows them by no message that has room
LEMMA FirstCut ==
    ASSUME NEW s \in Seq(Package), NEW t \in Seq(Package),
           \A i \in DOMAIN s : s[i].kind \in {"PutGet", "Alert"},
           t # <<>>, t[1].kind = "Sync", ~Has(t, "Alert"),
           cfg.fillers \cap {"PutGet", "Alert"} = {}, NEW cut \in Cuts(s \o t, TRUE)
    PROVE  Followed(cut.written)
<1> DEFINE a == Len(s)
           b == Len(t)
           u == s \o t
           c == cut.written
           n == Len(u)
<1>1. /\ a \in Nat /\ n = a + b
      /\ \A i \in DOMAIN s : i \in 1..a /\ u[i] = s[i]
      /\ \A j \in DOMAIN t : j \in 1..b /\ a + j \in DOMAIN u /\ u[a + j] = t[j]
      /\ \A i \in DOMAIN u : i \in DOMAIN s \/ \E j \in DOMAIN t : i = a + j
  BY JoinPlaces
<1>2. u \in Seq(Package)
  BY ConcatProperties
<1>3. /\ b \in Nat /\ DOMAIN t = 1..b /\ DOMAIN u = 1..n /\ DOMAIN s = 1..a
      /\ b # 0
  BY <1>2, LenProperties, EmptySeq
<1>4. PICK w \in 0..n, o \in Nat : CutIs(u, cut, w, o) /\ MayStop(u, w, o)
  BY <1>2, CutPlaces DEF u
<1>5. /\ DOMAIN c = 1..w
      /\ \A i \in 1..w : /\ c[i].kind = u[i].kind
                         /\ c[i] = u[i] \/ u[i].kind \in {"Sync", "Map"}
  BY <1>4 DEF CutIs
<1>6. w = n \/ (w # 0 /\ u[w].kind \in cfg.fillers \cup {"Sync", "Map"})
  BY <1>4 DEF MayStop, n
<1> HIDE DEF a, b, c, n, u
<1>7. a + 1 \in 1..w
  <2>1. CASE w = n
    BY <1>1, <1>3, <2>1
  <2>2. CASE w # 0 /\ u[w].kind \in cfg.fillers \cup {"Sync", "Map"}
    <3>1. ASSUME w \in 1..a PROVE FALSE
      <4>1. u[w] = s[w] /\ w \in DOMAIN s
        BY <1>1, <1>3, <3>1
      <4>2. u[w].kind \in {"PutGet", "Alert"}
        BY <4>1
      <4> QED
        BY <2>2, <4>2
    <3> QED
      BY <1>1, <1>3, <2>2, <3>1
  <2> QED
    BY <1>6, <2>1, <2>2
<1>8. c[a + 1].kind = "Sync"
  BY <1>1, <1>3, <1>5, <1>7
<1>9. ASSUME NEW i \in DOMAIN c, Announces(c[i])
      PROVE  a + 1 > i
  <2>1. c[i].kind = "Alert" /\ i \in 1..w
    BY <1>5, <1>9 DEF Announces
  <2>2. u[i].kind = "Alert" /\ i \in DOMAIN u
    BY <1>1, <1>3, <1>4, <1>5, <2>1
  <2>3. i \in DOMAIN s
    BY <1>1, <2>2 DEF Has
  <2> QED
    BY <1>1, <2>3
<1> QED
  BY <1>5, <1>7, <1>8, <1>9 DEF Followed, c

LEMMA FirstFollowed ==
    ASSUME NEW tgts \in Seq(Target), cfg.fillers \cap {"PutGet", "Alert"} = {},
           NEW cut \in Cuts(InitializationPackages(tgts, TRUE), TRUE)
    PROVE  Followed(cut.written)
<1> DEFINE d == <<DevInf>>
           a == InitializationAlerts(tgts)
           c == LocalChangesPackages(tgts)
           f == <<FinalPackage>>
           s == d \o a
           t == c \o f
           u == InitializationPackages(tgts, TRUE)
<1>1. d \in Seq(Package) /\ f \in Seq(Package) /\ d[1].kind = "PutGet" /\ DOMAIN d = {1}
  BY FinalType DEF DevInf, Package
<1>2. /\ a \in Seq(Package) /\ DOMAIN a = DOMAIN tgts
      /\ \A i \in DOMAIN a : a[i].kind = "Alert"
  BY AlertsOf
<1>3. /\ c \in Seq(Package) /\ DOMAIN c = DOMAIN tgts
      /\ \A i \in DOMAIN c : c[i].kind = "Sync"
      /\ ~Has(c, "Alert")
  BY ChangesOf
<1>4. u = (s \o c) \o f
  BY DEF InitializationPackages
<1> HIDE DEF d, a, c, f, u
<1>5. s \in Seq(Package)
  BY <1>1, <1>2, ConcatProperties
<1>6. \A i \in DOMAIN s : s[i].kind \in {"PutGet", "Alert"}
  <2> SUFFICES ASSUME NEW i \in DOMAIN s PROVE s[i].kind \in {"PutGet", "Alert"}
    OBVIOUS
  <2>1. \A kind : Has(d \o a, kind) <=> Has(d, kind) \/ Has(a, kind)
    BY <1>1, <1>2, JoinShows
  <2>2. \A kind : Has(d, kind) \/ Has(a, kind) => kind \in {"PutGet", "Alert"}
    BY <1>1, <1>2 DEF Has
  <2> HIDE DEF s
  <2>3. Has(s, s[i].kind)
    BY DEF Has
  <2> QED
    BY <2>1, <2>2, <2>3 DEF s
<1> HIDE DEF s
<1>7. t \in Seq(Package) /\ u = s \o t
  BY <1>1, <1>3, <1>4, <1>5, ConcatProperties, ConcatAssociative
<1>8. ~Has(t, "Alert")
  <2>1. Has(t, "Alert") <=> Has(c, "Alert") \/ "Alert" = "Final"
    BY <1>3, EndedShows DEF f
  <2> QED
    BY <1>3, <2>1
<1>9. CASE tgts = <<>>
  <2>1. a = <<>>
    BY <1>2, <1>9, SameLength, EmptySeq
  <2>2. NoAlerts(u)
    <3>1. NoAlerts(s)
      <4>1. NoAlerts(d) /\ NoAlerts(a)
        BY <1>1, <2>1, EmptyShows DEF NoAlerts, Announces
      <4> QED
        BY <1>1, <1>2, <4>1, JoinShows DEF s
    <3>2. NoAlerts(t)
      BY <1>8 DEF NoAlerts, Announces, Has
    <3> QED
      BY <1>5, <1>7, <3>1, <3>2, JoinShows
  <2>3. u \in Seq(Package)
    BY <1>5, <1>7, ConcatProperties
  <2>4. NoAlerts(cut.written)
    BY <2>2, <2>3, CutShows DEF u
  <2> QED
    BY <2>4 DEF NoAlerts, Followed
<1>10. CASE tgts # <<>>
  <2>1. 1 \in DOMAIN c
    BY <1>3, <1>10, TailPlaces
  <2> DEFINE l == Len(c)
  <2>2. \A i \in DOMAIN c : t[i] = c[i] /\ i \in DOMAIN t
    BY <1>1, <1>3, JoinPlaces
  <2> HIDE DEF t, l
  <2>3. t[1].kind = "Sync" /\ t # <<>>
    BY <1>3, <1>7, <2>1, <2>2, EmptySeq, LenProperties
  <2> QED
    BY <1>5, <1>6, <1>7, <1>8, <2>3, FirstCut DEF u
<1> QED
  BY <1>9, <1>10

\* The server alerts the client of all databases at once
LEMMA ServerFirst ==
    ASSUME TypeOK, cfg.fillers \cap {"PutGet", "Alert"} = {},
           NEW cut \in Cuts(ServerAlerts \o <<FinalPackage>>, TRUE)
    PROVE  /\ cut.left = <<>>
           /\ \A kind : Has(cut.written, kind) => kind \in {"Alert", "Final"}
<1> DEFINE s == ServerAlerts
           u == s \o <<FinalPackage>>
           n == Len(u)
<1>1. s \in Seq(Package)
  BY ServerAlertsType
<1>2. \A kind : Has(s, kind) => kind = "Alert"
  BY DEF ServerAlerts, Alert, Has
<1> HIDE DEF s
<1>3. /\ u \in Seq(Package)
      /\ \A kind : Has(u, kind) <=> Has(s, kind) \/ kind = "Final"
      /\ ~Has(s, "Final") => FinalIsLast(u)
  BY <1>1, EndedShows
<1> HIDE DEF u
<1>4. \A kind : Has(u, kind) => kind \in {"Alert", "Final"}
  BY <1>2, <1>3
<1>5. FinalIsLast(u)
  BY <1>2, <1>3
<1>6. n \in Nat /\ DOMAIN u = 1..n
  BY <1>3, LenProperties
<1>7. PICK w \in 0..n, o \in Nat : CutIs(u, cut, w, o) /\ MayStop(u, w, o)
  BY <1>3, CutPlaces DEF s, u
<1>8. w = n /\ o = w
  <2>1. CASE w # 0 /\ u[w].kind \in cfg.fillers \cup {"Sync", "Map"}
    <3>1. w \in DOMAIN u
      BY <1>6, <2>1
    <3>2. u[w].kind \in {"Alert", "Final"}
      BY <1>4, <3>1 DEF Has
    <3>3. u[w].kind = "Final"
      BY <2>1, <3>2
    <3>4. w = n
      BY <1>5, <3>1, <3>3 DEF FinalIsLast
    <3>5. o = w
      BY <1>7, <3>3 DEF CutIs
    <3> QED
      BY <3>4, <3>5
  <2> QED
    BY <1>7, <2>1 DEF MayStop
<1>9. Len(cut.left) = 0
  BY <1>6, <1>7, <1>8 DEF CutIs
<1>10. /\ cut.left \in Seq(Package)
       /\ \A kind : Has(cut.written, kind) \/ Has(cut.left, kind) => Has(u, kind)
  BY <1>3, CutShows DEF s, u
<1> QED
  BY <1>4, <1>9, <1>10, EmptySeq

\* The client initiates the session
LEMMA ClientBegins ==
    ASSUME Ordered, SameConfig, SameServer, cinit, cs = "NOT_PREPARED",
           cs' = IF cfg.noInit THEN "SENDING_ITEMS" ELSE "LOCAL_INIT", cw' <=> cfg.noInit,
           NEW m, toC' = {}, toS' = {m}, ~lastC', ~lastS',
           DevInfOnTop(m), DevInfAhead(cq'), Has(cq', "PutGet") => OnlyStatuses(m),
           cfg.noInit => Followed(m),
           Has(cq', "Sync") => cfg.noInit /\ ~MayRevert /\ AllPlain(m)
    PROVE  Ordered'
<1>1. /\ ss' = ss /\ sq' = sq /\ (Reverts' <=> Reverts) /\ (closed' <=> closed)
      /\ ss = "NOT_PREPARED" /\ sq = <<>> /\ ~Reverts /\ ~EndingC'
  BY DEF Ordered, Unprepared, SameServer, EndingC
<1>2. /\ \A kind : ~Has(sq', kind)
      /\ FinalIsLast(sq') /\ NoAlerts(sq') /\ \A w : WarnedAll(w, sq')
  BY <1>1, EmptyShows
<1>3. cs' = "SENDING_ITEMS" \/ cs' = "LOCAL_INIT"
  OBVIOUS
<1>4. Unprepared' /\ Preparing'
  BY <1>1, <1>3, ConfigKept DEF Unprepared, Preparing
<1>5. NoSyncYet' /\ NoFinalYet' /\ OneFinal'
  BY <1>1, <1>2, <1>3 DEF NoSyncYet, NoFinalYet, OneFinal
<1>6. MappingsSent' /\ Finalized' /\ SavedFirst' /\ Initialized'
  BY <1>1, <1>3 DEF MappingsSent, Finalized, SavedFirst, Initialized
<1>7. ItemsSent'
  BY <1>1, <1>2 DEF ItemsSent
<1>8. FirstTaken'
  BY <1>1, ConfigKept DEF FirstTaken
<1>9. ChangesCut'
  BY <1>1, ConfigKept DEF ChangesCut
<1>10. DevInfFirst'
  BY <1>1, <1>2 DEF DevInfFirst
<1>11. Alerted'
  BY <1>2, <1>3 DEF Alerted
<1> QED
  BY <1>4, <1>5, <1>6, <1>7, <1>8, <1>9, <1>10, <1>11 DEF Ordered

\* The server alerts the client
LEMMA ServerBegins ==
    ASSUME Ordered, SameConfig, SameClient, ~cinit, ss = "NOT_PREPARED", ss' = "PREPARED",
           sq' = <<>>, closed' <=> closed, Reverts' <=> Reverts,
           NEW m, toC' = {m}, toS' = {}, ~lastC', ~lastS', ~Has(m, "Sync"), ~Has(m, "PutGet")
    PROVE  Ordered'
<1>1. cs' = cs /\ cq' = cq /\ cw' = cw /\ cs = "NOT_PREPARED" /\ cq = <<>>
  BY DEF Ordered, Unprepared, SameClient
<1>2. /\ \A kind : ~Has(sq', kind) /\ ~Has(cq', kind)
      /\ FinalIsLast(sq') /\ NoAlerts(sq') /\ DevInfAhead(cq')
  BY <1>1, EmptyShows
<1>3. Unprepared' /\ Preparing'
  BY <1>1, ConfigKept DEF Unprepared, Preparing
<1>4. NoSyncYet' /\ NoFinalYet' /\ OneFinal'
  BY <1>1, <1>2 DEF NoSyncYet, NoFinalYet, OneFinal
<1>5. MappingsSent' /\ Finalized' /\ ItemsSent' /\ SavedFirst' /\ Initialized'
  BY <1>1 DEF MappingsSent, Finalized, ItemsSent, SavedFirst, Initialized
<1>6. FirstTaken' /\ ChangesCut' /\ DevInfFirst' /\ Alerted'
  BY <1>1, <1>2 DEF FirstTaken, ChangesCut, DevInfFirst, Alerted
<1> QED
  BY <1>3, <1>4, <1>5, <1>6 DEF Ordered

-----------------------------------------------------------------------------
(***************************************************************************)
(* The initiator starts.                                                   *)
(***************************************************************************)
\* Before it does there is no message at all
LEMMA NothingComing ==
    ASSUME TypeOK, Turns, Unstarted
    PROVE  \A q \in Party : /\ net[q] = <<>> /\ incoming[q] = <<>> /\ parsed[q] = <<>>
                            /\ ~processing[q]
<1>1. Traffic = 0
  BY DEF Turns
<1>2. \A q \in Party : Load(q) \in Nat
  BY LoadType
<1>3. Load(Client) = 0 /\ Load(Server) = 0
  <2> DEFINE a == Load(Client)
             b == Load(Server)
  <2>1. a \in Nat /\ b \in Nat /\ a + b = 0
    BY <1>1, <1>2, TwoParties DEF Traffic
  <2> HIDE DEF a, b
  <2>2. a = 0 /\ b = 0
    BY <2>1
  <2> QED
    BY <2>2 DEF a, b
<1> SUFFICES ASSUME NEW q \in Party
             PROVE  /\ net[q] = <<>> /\ incoming[q] = <<>> /\ parsed[q] = <<>>
                    /\ ~processing[q]
  OBVIOUS
<1>4. Load(q) = 0
  BY <1>3, TwoParties
<1>5. Len(net[q]) = 0 /\ Len(incoming[q]) = 0 /\ Len(parsed[q]) = 0 /\ InHand(q) = 0
  <2> DEFINE a == Len(net[q])   b == Len(incoming[q])   c == Len(parsed[q])   d == InHand(q)
  <2>1. a \in Nat /\ b \in Nat /\ c \in Nat /\ d \in Nat /\ a + b + c + d = 0
    BY <1>4, LoadType DEF Load
  <2> HIDE DEF a, b, c, d
  <2>2. a = 0 /\ b = 0 /\ c = 0 /\ d = 0
    BY <2>1
  <2> QED
    BY <2>2 DEF a, b, c, d
<1>6. net[q] \in Seq(Message) /\ incoming[q] \in Seq(Message) /\ parsed[q] \in Seq(Message)
  BY DEF TypeOK
<1> QED
  BY <1>5, <1>6, EmptySeq DEF InHand

\* The targets of a client that has no reason to revert them
LEMMA FirstTargets ==
    ASSUME TypeOK, ~MayRevert,
           NEW tgts, tgts = InitialTargets \/ tgts = Discovered(InitialTargets)
    PROVE  \A i \in DOMAIN tgts : tgts[i].mode.type # "SLOW"
<1>1. InitialTargets \in Seq(Target)
  BY InitialTargetsType
<1>2. \A i \in DOMAIN InitialTargets : InitialTargets[i] \in Target
  BY <1>1, ElementOfSeq, LenProperties
<1>3. \A i \in DOMAIN InitialTargets : InitialTargets[i].mode.type # "SLOW"
  BY DEF MayRevert, InitialTargets, NewTarget
<1> HIDE DEF InitialTargets
<1>4. ASSUME NEW t \in Target
      PROVE  DiscoverLocalChanges(Client, t).mode = t.mode
  BY DEF DiscoverLocalChanges, Target
<1>5. \A i \in DOMAIN Discovered(InitialTargets) :
          /\ i \in DOMAIN InitialTargets
          /\ Discovered(InitialTargets)[i].mode = InitialTargets[i].mode
  BY <1>2, <1>4 DEF Discovered
<1> QED
  BY <1>3, <1>5

\* What the first message of a session shows
LEMMA FirstShows ==
    ASSUME TypeOK, NEW p \in Party, NEW pkgs \in Seq(Package), NEW cut \in Cuts(pkgs, TRUE),
           NEW m, m = Top(p, 0) \o cut.written
    PROVE  /\ \A kind : Has(cut.left, kind) => Has(pkgs, kind)
           /\ DevInfAhead(pkgs) => /\ DevInfOnTop(m) /\ DevInfAhead(cut.left)
                                   /\ Has(cut.left, "PutGet") => OnlyStatuses(m)
           /\ Followed(cut.written) => Followed(m)
<1>1. PICK k \in 0..Len(statuses[p]) : k = 0
  BY LenProperties DEF TypeOK
<1>2. m = Top(p, k) \o cut.written
  BY <1>1
<1>3. PICK ample : ample /\ cut \in Cuts(pkgs, ample)
  OBVIOUS
<1>4. /\ m \in Seq(Fragment) /\ cut.left \in Seq(Package)
      /\ \A kind : Has(m, kind) => kind \in {"Header", "Status"} \/ Has(pkgs, kind)
      /\ \A kind : Has(cut.left, kind) => Has(pkgs, kind)
      /\ FinalIsLast(pkgs) => /\ FinalIsLast(cut.left)
                              /\ Has(m, "Final") => cut.left = <<>>
      /\ \A w : WarnedAll(w, pkgs) => /\ WarnedAll(w, m)
                                      /\ WarnedAll(w, cut.left) \/ Warning(w, m)
      /\ NoAlerts(pkgs) => NoAlerts(m) /\ NoAlerts(cut.left)
      /\ (k = 0 /\ AllPlain(pkgs)) => AllPlain(m)
      /\ DevInfAhead(pkgs) => /\ DevInfOnTop(m) /\ DevInfAhead(cut.left)
                              /\ Has(cut.left, "PutGet") => OnlyStatuses(m)
      /\ Followed(cut.written) => Followed(m)
  BY <1>2, <1>3, WrittenShows
<1> QED
  BY <1>1, <1>4

LEMMA FirstPlain ==
    ASSUME TypeOK, NEW p \in Party, NEW pkgs \in Seq(Package), NEW cut \in Cuts(pkgs, TRUE),
           NEW m, m = Top(p, 0) \o cut.written, AllPlain(pkgs)
    PROVE  AllPlain(m)
<1>1. PICK k \in 0..Len(statuses[p]) : k = 0
  BY LenProperties DEF TypeOK
<1>2. m = Top(p, k) \o cut.written
  BY <1>1
<1>3. PICK ample : ample /\ cut \in Cuts(pkgs, ample)
  OBVIOUS
<1>4. /\ m \in Seq(Fragment) /\ cut.left \in Seq(Package)
      /\ \A kind : Has(m, kind) => kind \in {"Header", "Status"} \/ Has(pkgs, kind)
      /\ \A kind : Has(cut.left, kind) => Has(pkgs, kind)
      /\ FinalIsLast(pkgs) => /\ FinalIsLast(cut.left)
                              /\ Has(m, "Final") => cut.left = <<>>
      /\ \A w : WarnedAll(w, pkgs) => /\ WarnedAll(w, m)
                                      /\ WarnedAll(w, cut.left) \/ Warning(w, m)
      /\ NoAlerts(pkgs) => NoAlerts(m) /\ NoAlerts(cut.left)
      /\ (k = 0 /\ AllPlain(pkgs)) => AllPlain(m)
      /\ DevInfAhead(pkgs) => /\ DevInfOnTop(m) /\ DevInfAhead(cut.left)
                              /\ Has(cut.left, "PutGet") => OnlyStatuses(m)
      /\ Followed(cut.written) => Followed(m)
  BY <1>2, <1>3, WrittenShows
<1> QED
  BY <1>1, <1>4

LEMMA InitiateClientOrdered ==
    ASSUME TypeOK, Turns, Ordered, FirstPackageWhole, InitiateClientSync
    PROVE  Ordered'
<1> DEFINE tgts == IF cfg.noInit THEN Discovered(InitialTargets) ELSE InitialTargets
           pkgs == InitializationPackages(tgts, cfg.noInit)
<1>1. /\ cfg.mode.init = Client /\ syncState[Client] = "NOT_PREPARED"
      /\ Client \in Party /\ Server \in Party /\ Client # Server /\ Other(Client) = Server
      /\ cfg.noInit \in BOOLEAN
  BY TwoParties, ConfigType DEF InitiateClientSync
<1>2. tgts \in Seq(Target)
  BY InitialTargetsType, DiscoveredType
<1>3. PICK cut \in Cuts(pkgs, TRUE) :
          /\ Generate(Client, 0, cut)
          /\ packages' = [packages EXCEPT ![Client] = cut.left]
  BY DEF InitiateClientSync
<1>4. /\ syncWithoutInit' = [syncWithoutInit EXCEPT ![Client] = cfg.noInit]
      /\ SetSyncState(Client, IF cfg.noInit THEN "SENDING_ITEMS" ELSE "LOCAL_INIT")
      /\ targets' = [targets EXCEPT ![Client] = tgts]
      /\ Receive(Client)
      /\ UNCHANGED <<cfg, peer, reading, storage, faults>>
  BY DEF InitiateClientSync
<1>5. ~MayRevert => \A i \in DOMAIN tgts : tgts[i].mode.type # "SLOW"
  BY FirstTargets
<1>6. cfg.noInit => tgts = Discovered(InitialTargets)
  OBVIOUS
<1>7. pkgs = InitializationPackages(tgts, cfg.noInit)
  OBVIOUS
<1> HIDE DEF tgts, pkgs
<1>8. /\ pkgs \in Seq(Package) /\ DevInfAhead(pkgs)
      /\ ~cfg.noInit => ~Has(pkgs, "Sync")
      /\ ~MayRevert => AllPlain(pkgs)
  BY <1>1, <1>2, <1>5, <1>7, InitializationShows
<1>m. PICK m : m = Top(Client, 0) \o cut.written
  OBVIOUS
<1>9. 0 \in 0..Len(statuses[Client]) /\ cut.written \in Seq(Package)
  <2>1. Len(statuses[Client]) \in Nat
    BY <1>1, LenProperties DEF TypeOK
  <2>2. cut.written \in Seq(Package)
    BY <1>8, CutsType
  <2> QED
    BY <2>1, <2>2
<1>10. /\ \A kind : Has(cut.left, kind) => Has(pkgs, kind)
       /\ AllPlain(pkgs) => AllPlain(m)
       /\ DevInfOnTop(m) /\ DevInfAhead(cut.left)
       /\ Has(cut.left, "PutGet") => OnlyStatuses(m)
       /\ Followed(cut.written) => Followed(m)
  <2>1. /\ Client \in Party /\ pkgs \in Seq(Package) /\ cut \in Cuts(pkgs, TRUE)
        /\ m = Top(Client, 0) \o cut.written
    BY <1>m, <1>1, <1>8
  <2>2. AllPlain(pkgs) => AllPlain(m)
    BY <2>1, FirstPlain
  <2>3. \A kind : Has(cut.left, kind) => Has(pkgs, kind)
    BY <2>1, FirstShows
  <2>4. /\ DevInfOnTop(m) /\ DevInfAhead(cut.left)
        /\ Has(cut.left, "PutGet") => OnlyStatuses(m)
    BY <1>8, <2>1, FirstShows
  <2>5. Followed(cut.written) => Followed(m)
    BY <2>1, FirstShows
  <2> QED
    BY <2>2, <2>3, <2>4, <2>5
<1>11. \A q \in Party : /\ net[q] = <<>> /\ incoming[q] = <<>> /\ parsed[q] = <<>>
                        /\ ~processing[q]
  BY <1>1, NothingComing DEF Unstarted
<1>12. /\ Coming(Client)' = {} /\ Coming(Server)' = {m}
       /\ \A q \in Party : ~LastIn(q)'
  <2>1. \A q \in Party : ~processing'[q]
    BY <1>4, <1>11 DEF reading
  <2> QED
    BY <1>1, <1>3, <1>4, <1>9, <1>11, <2>1, <1>m, SentView
<1>13. /\ cs' = IF cfg.noInit THEN "SENDING_ITEMS" ELSE "LOCAL_INIT"
       /\ (cw' <=> cfg.noInit) /\ cq' = cut.left
  BY <1>1, <1>3, <1>4 DEF cs, cw, cq, SetSyncState, TypeOK
<1>14. SameServer /\ SameConfig
  <2>1. ss' = ss /\ sq' = sq /\ closed' = closed
    BY <1>1, <1>3, <1>4 DEF ss, sq, closed, SetSyncState, TypeOK
  <2>2. targets'[Server] = targets[Server]
    BY <1>1, <1>4 DEF TypeOK
  <2> QED
    BY <1>4, <2>1, <2>2 DEF SameServer, SameConfig, Reverts
<1>15. cfg.noInit => Followed(m)
  <2>1. cfg.fillers \cap {"PutGet", "Alert"} = {}
    BY DEF FirstPackageWhole
  <2>2. cfg.noInit => cut \in Cuts(InitializationPackages(tgts, TRUE), TRUE)
    BY <1>7
  <2>3. cfg.noInit => Followed(cut.written)
    BY <1>2, <2>1, <2>2, FirstFollowed
  <2> QED
    BY <1>10, <2>3
<1>16. Has(cut.left, "Sync") => cfg.noInit /\ ~MayRevert /\ AllPlain(m)
  <2>1. Has(cut.left, "Sync") => cfg.noInit
    BY <1>8, <1>10
  <2>2. (cfg.noInit /\ MayRevert) => cut.left = <<>>
    BY <1>1, <1>6, <1>7 DEF FirstPackageWhole, FirstPackage
  <2> QED
    BY <1>8, <1>10, <2>1, <2>2, EmptyShows
<1>17. /\ toC' = {} /\ toS' = {m} /\ ~lastC' /\ ~lastS'
       /\ DevInfOnTop(m) /\ DevInfAhead(cq') /\ (Has(cq', "PutGet") => OnlyStatuses(m))
       /\ (Has(cq', "Sync") => cfg.noInit /\ ~MayRevert /\ AllPlain(m))
  <2>1. toC' = {} /\ toS' = {m} /\ ~lastC' /\ ~lastS'
    BY <1>1, <1>12 DEF toC, toS, lastC, lastS
  <2> QED
    BY <1>8, <1>10, <1>13, <1>16, <2>1
<1>18. cinit /\ cs = "NOT_PREPARED"
  BY <1>1 DEF cinit, cs
<1> QED
  BY <1>13, <1>14, <1>15, <1>17, <1>18, ClientBegins

LEMMA InitiateServerOrdered ==
    ASSUME TypeOK, Turns, Ordered, FirstPackageWhole, InitiateServerSync
    PROVE  Ordered'
<1> DEFINE pkgs == ServerAlerts \o <<FinalPackage>>
<1>1. /\ cfg.mode.init = Server /\ syncState[Server] = "NOT_PREPARED"
      /\ Client \in Party /\ Server \in Party /\ Client # Server /\ Other(Server) = Client
  BY TwoParties DEF InitiateServerSync
<1>2. PICK cut \in Cuts(pkgs, TRUE) :
          /\ Generate(Server, 0, cut)
          /\ packages' = [packages EXCEPT ![Server] = cut.left]
  BY DEF InitiateServerSync
<1>3. /\ syncWithoutInit' = [syncWithoutInit EXCEPT ![Server] = cfg.noInit]
      /\ SetSyncState(Server, "PREPARED")
      /\ Receive(Server)
      /\ UNCHANGED <<cfg, peer, targets, reading, storage, faults>>
  BY DEF InitiateServerSync
<1>4. /\ cut.left = <<>>
      /\ \A kind : Has(cut.written, kind) => kind \in {"Alert", "Final"}
  BY ServerFirst DEF FirstPackageWhole
<1>5. pkgs \in Seq(Package)
  BY ServerAlertsType, FinalType, ConcatProperties
<1> HIDE DEF pkgs
<1>m. PICK m : m = Top(Server, 0) \o cut.written
  OBVIOUS
<1>6. 0 \in 0..Len(statuses[Server]) /\ cut.written \in Seq(Package)
  <2>1. Len(statuses[Server]) \in Nat
    BY <1>1, LenProperties DEF TypeOK
  <2>2. cut.written \in Seq(Package)
    BY <1>5, CutsType
  <2> QED
    BY <2>1, <2>2
<1>7. /\ Top(Server, 0) \in Seq(Fragment) /\ cut.written \in Seq(Fragment)
      /\ ~Has(Top(Server, 0), "Sync") /\ ~Has(Top(Server, 0), "PutGet")
  BY <1>1, <1>6, TopShows, SeqMonotonic DEF Fragment
<1>8. ~Has(m, "Sync") /\ ~Has(m, "PutGet")
  <2>1. \A kind : Has(m, kind) <=> Has(Top(Server, 0), kind) \/ Has(cut.written, kind)
    BY <1>m, <1>7, JoinShows
  <2>2. ~Has(cut.written, "Sync") /\ ~Has(cut.written, "PutGet")
    BY <1>4
  <2> QED
    BY <1>7, <2>1, <2>2
<1>9. \A q \in Party : /\ net[q] = <<>> /\ incoming[q] = <<>> /\ parsed[q] = <<>>
                       /\ ~processing[q]
  BY <1>1, NothingComing DEF Unstarted
<1>10. /\ Coming(Server)' = {} /\ Coming(Client)' = {m}
       /\ \A q \in Party : ~LastIn(q)'
  <2>1. \A q \in Party : ~processing'[q]
    BY <1>3, <1>9 DEF reading
  <2> QED
    BY <1>1, <1>2, <1>3, <1>6, <1>9, <2>1, <1>m, SentView
<1>11. ss' = "PREPARED" /\ sq' = <<>> /\ (closed' <=> closed) /\ (Reverts' <=> Reverts)
  BY <1>1, <1>2, <1>3, <1>4 DEF ss, sq, closed, SetSyncState, TypeOK, Reverts
<1>12. SameClient /\ SameConfig
  BY <1>1, <1>2, <1>3 DEF SameClient, SameConfig, cs, cq, cw, SetSyncState, TypeOK
<1>13. toC' = {m} /\ toS' = {} /\ ~lastC' /\ ~lastS'
  BY <1>1, <1>10 DEF toC, toS, lastC, lastS
<1>14. ~cinit /\ ss = "NOT_PREPARED"
  BY <1>1 DEF cinit, ss
<1> QED
  BY <1>8, <1>11, <1>12, <1>13, <1>14, ServerBegins

-----------------------------------------------------------------------------
(***************************************************************************)
(* The fragments that both sessions handle in the same way.                *)
(***************************************************************************)
LEMMA ServerUntouched ==
    ASSUME syncState'[Server] = syncState[Server], packages'[Server] = packages[Server],
           targets'[Server] = targets[Server], sessionClosed'[Server] = sessionClosed[Server]
    PROVE  SameServer
  BY DEF SameServer, ss, sq, Reverts, closed

LEMMA ClientUntouched ==
    ASSUME syncState'[Client] = syncState[Client], packages'[Client] = packages[Client],
           syncWithoutInit'[Client] = syncWithoutInit[Client]
    PROVE  SameClient
  BY DEF SameClient, cs, cq, cw

LEMMA ClientFragment ==
    ASSUME TypeOK, Turns, NEW kind, Reading(Client, kind), SameServer,
           fragments' = [fragments EXCEPT ![Client] = Tail(@)], UNCHANGED <<processing, link>>,
           last' \in [Party -> BOOLEAN], last'[Server] = last[Server],
           syncWithoutInit' = syncWithoutInit
    PROVE  /\ fragments[Client] \in Seq(Fragment) /\ fragments[Client] # <<>>
           /\ Head(fragments[Client]).kind = kind
           /\ ClientReads(fragments[Client])
           /\ (lastC <=> last[Client]) /\ (lastC' <=> last'[Client])
<1>1. /\ processing[Client] /\ fragments[Client] # <<>> /\ Head(fragments[Client]).kind = kind
      /\ fragments[Client] \in Seq(Fragment)
      /\ Client \in Party /\ Other(Client) = Server
  BY TwoParties DEF Reading, TypeOK, Message
<1>2. /\ Coming(Client) = {fragments[Client]} /\ Coming(Server) = {}
      /\ Coming(Client)' = {Tail(fragments[Client])} /\ Coming(Server)' = {}
      /\ ~LastIn(Server) /\ ~LastIn(Server)'
      /\ (LastIn(Client) <=> last[Client]) /\ (LastIn(Client)' <=> last'[Client])
  BY <1>1, ConsumedView
<1>3. ClientReads(fragments[Client])
  BY <1>2 DEF ClientReads, toC, toS, lastS, cw
<1> QED
  BY <1>1, <1>2, <1>3 DEF lastC

LEMMA ServerFragment ==
    ASSUME TypeOK, Turns, Awake, NEW kind, Reading(Server, kind), SameClient,
           fragments' = [fragments EXCEPT ![Server] = Tail(@)], UNCHANGED <<processing, link>>,
           last' \in [Party -> BOOLEAN], last'[Client] = last[Client],
           sessionClosed' = sessionClosed
    PROVE  /\ fragments[Server] \in Seq(Fragment) /\ fragments[Server] # <<>>
           /\ Head(fragments[Server]).kind = kind
           /\ ServerReads(fragments[Server])
           /\ (lastS <=> last[Server]) /\ (lastS' <=> last'[Server])
<1>1. /\ processing[Server] /\ fragments[Server] # <<>> /\ Head(fragments[Server]).kind = kind
      /\ fragments[Server] \in Seq(Fragment)
      /\ Server \in Party /\ Other(Server) = Client
  BY TwoParties DEF Reading, TypeOK, Message
<1>2. /\ Coming(Server) = {fragments[Server]} /\ Coming(Client) = {}
      /\ Coming(Server)' = {Tail(fragments[Server])} /\ Coming(Client)' = {}
      /\ ~LastIn(Client) /\ ~LastIn(Client)'
      /\ (LastIn(Server) <=> last[Server]) /\ (LastIn(Server)' <=> last'[Server])
  BY <1>1, ConsumedView
<1>3. ss # "NOT_PREPARED"
  BY <1>1 DEF Awake, ss
<1>4. ServerReads(fragments[Server])
  BY <1>2, <1>3 DEF ServerReads, toC, toS, lastC, closed
<1> QED
  BY <1>1, <1>2, <1>4 DEF lastS

\* Fragments that change no state
LEMMA ClientFragmentOrdered ==
    ASSUME TypeOK, Turns, Ordered,
           HandleHeader(Client) \/ HandleStatus(Client) \/ HandleResults(Client)
           \/ HandleNextMessageAlert(Client)
    PROVE  Ordered'
<1>1. Client \in Party /\ Server \in Party /\ Client # Server
  BY TwoParties
<1>2. PICK kind : /\ Reading(Client, kind) /\ kind # "Sync"
                  /\ kind = "Alert" => Head(fragments[Client]).code = NEXT_MESSAGE
  BY DEF HandleHeader, HandleStatus, HandleResults, HandleNextMessageAlert
<1>3. /\ UNCHANGED <<cfg, control, syncWithoutInit, packages, link>> /\ Consume(Client)
      /\ targets'[Server] = targets[Server]
  BY <1>1 DEF HandleHeader, HandleStatus, HandleResults, HandleNextMessageAlert, WithTarget, TypeOK
<1>4. SameServer
  BY <1>3, ServerUntouched DEF control
<1>5. /\ fragments[Client] \in Seq(Fragment) /\ fragments[Client] # <<>>
      /\ Head(fragments[Client]).kind = kind
      /\ ClientReads(fragments[Client])
      /\ (lastC <=> last[Client]) /\ (lastC' <=> last'[Client])
  BY <1>2, <1>3, <1>4, ClientFragment DEF Consume, TypeOK
<1>6. ~Warns(cw, Head(fragments[Client]))
  BY <1>2, <1>5 DEF Warns, Announces, SyncCodes, NEXT_MESSAGE
<1>7. cs' = cs /\ cq' = cq /\ (lastC' <=> lastC) /\ SameConfig
  BY <1>3, <1>5 DEF cs, cq, control, Consume, SameConfig
<1> QED
  BY <1>5, <1>6, <1>7, ClientReadsOn

LEMMA ClientFinalElementOrdered ==
    ASSUME TypeOK, Turns, Ordered, HandleFinalElement(Client)
    PROVE  Ordered'
<1>1. Client \in Party /\ Server \in Party /\ Client # Server
  BY TwoParties
<1>2. /\ UNCHANGED <<cfg, control, syncWithoutInit, packages, targets, processing, link>>
      /\ fragments' = [fragments EXCEPT ![Client] = Tail(@)]
      /\ last' = [last EXCEPT ![Client] = TRUE]
      /\ Reading(Client, "Final")
  BY DEF HandleFinalElement
<1>3. SameServer
  BY <1>2, ServerUntouched DEF control
<1>4. last' \in [Party -> BOOLEAN] /\ last'[Server] = last[Server] /\ last'[Client]
  BY <1>1, <1>2 DEF TypeOK
<1>5. /\ fragments[Client] \in Seq(Fragment) /\ fragments[Client] # <<>>
      /\ Head(fragments[Client]).kind = "Final"
      /\ ClientReads(fragments[Client])
      /\ (lastC <=> last[Client]) /\ (lastC' <=> last'[Client])
  BY <1>2, <1>3, <1>4, ClientFragment
<1>6. cs' = cs /\ cq' = cq /\ SameConfig
  BY <1>2 DEF cs, cq, control, SameConfig
<1> QED
  BY <1>4, <1>5, <1>6, ClientReadsFinal

\* No server asks a client for its device information
LEMMA ClientDevInfOrdered ==
    ASSUME TypeOK, Turns, Ordered, HandleDevInf(Client)
    PROVE  Ordered'
<1>1. /\ Client \in Party /\ processing[Client] /\ fragments[Client] # <<>>
      /\ Head(fragments[Client]).kind = "PutGet"
      /\ fragments[Client] \in Seq(Fragment)
  BY TwoParties DEF HandleDevInf, Reading, TypeOK, Message
<1>2. fragments[Client] \in toC
  BY <1>1 DEF toC, Coming
<1>3. Has(fragments[Client], "PutGet")
  BY <1>1, TailPlaces DEF Has
<1> QED
  BY <1>2, <1>3 DEF Ordered, DevInfFirst

LEMMA RevertsGrow ==
    ASSUME TypeOK, NEW f, DOMAIN f = DOMAIN targets[Server],
           targets' = [targets EXCEPT ![Server] = f],
           \A i \in DOMAIN targets[Server] : targets[Server][i].reverted => f[i].reverted
    PROVE  Reverts => Reverts'
  BY TwoParties DEF Reverts, TypeOK

LEMMA StatusReverts ==
    ASSUME TypeOK, HandleStatus(Server)
    PROVE  Reverts => Reverts'
<1> DEFINE db == Head(fragments[Server]).db
           f == [i \in DOMAIN targets[Server] |->
                    IF targets[Server][i].db = db THEN RevertSyncMode(targets[Server][i])
                    ELSE targets[Server][i]]
<1>1. targets' = targets \/ targets' = [targets EXCEPT ![Server] = f]
  BY TwoParties DEF HandleStatus, WithTarget, TypeOK
<1>2. \A i \in DOMAIN targets[Server] : targets[Server][i] \in Target
  BY TwoParties, ElementType
<1>3. \A t \in Target : t.reverted => RevertSyncMode(t).reverted
  BY DEF RevertSyncMode, Target
<1>4. /\ DOMAIN f = DOMAIN targets[Server]
      /\ \A i \in DOMAIN targets[Server] : targets[Server][i].reverted => f[i].reverted
  BY <1>2, <1>3
<1> HIDE DEF f
<1>5. CASE targets' = targets
  BY <1>5 DEF Reverts
<1>6. CASE targets' = [targets EXCEPT ![Server] = f]
  BY <1>4, <1>6, RevertsGrow
<1> QED
  BY <1>1, <1>5, <1>6

LEMMA ServerFragmentOrdered ==
    ASSUME TypeOK, Turns, Awake, Ordered,
           HandleHeader(Server) \/ HandleStatus(Server) \/ HandleResults(Server)
           \/ HandleNextMessageAlert(Server)
    PROVE  Ordered'
<1>1. Client \in Party /\ Server \in Party /\ Client # Server
  BY TwoParties
<1>2. PICK kind : /\ Reading(Server, kind) /\ kind # "Sync"
                  /\ kind = "Status" \/ targets' = targets
  BY DEF HandleHeader, HandleStatus, HandleResults, HandleNextMessageAlert
<1>3. UNCHANGED <<cfg, control, syncWithoutInit, packages, link>> /\ Consume(Server)
  BY DEF HandleHeader, HandleStatus, HandleResults, HandleNextMessageAlert
<1>4. SameClient
  BY <1>3, ClientUntouched DEF control
<1>5. /\ fragments[Server] \in Seq(Fragment) /\ fragments[Server] # <<>>
      /\ Head(fragments[Server]).kind = kind
      /\ ServerReads(fragments[Server])
      /\ (lastS <=> last[Server]) /\ (lastS' <=> last'[Server])
  BY <1>2, <1>3, <1>4, ServerFragment DEF Consume, TypeOK, control
<1>6. Reverts => Reverts'
  <2>1. CASE HandleStatus(Server)
    BY <2>1, StatusReverts
  <2>2. CASE targets' = targets
    BY <2>2 DEF Reverts
  <2> QED
    BY <2>1, <2>2 DEF HandleHeader, HandleResults, HandleNextMessageAlert
<1>7. Reverts' => Reverts \/ kind = "Status"
  BY <1>2 DEF Reverts
<1>8. ss' = ss /\ sq' = sq /\ (lastS' <=> lastS) /\ SameConfig
  BY <1>3, <1>5 DEF ss, sq, control, Consume, SameConfig
<1> QED
  BY <1>2, <1>5, <1>6, <1>7, <1>8, ServerReadsOn

LEMMA ServerFinalElementOrdered ==
    ASSUME TypeOK, Turns, Awake, Ordered, HandleFinalElement(Server)
    PROVE  Ordered'
<1>1. Client \in Party /\ Server \in Party /\ Client # Server
  BY TwoParties
<1>2. /\ UNCHANGED <<cfg, control, syncWithoutInit, packages, targets, processing, link>>
      /\ fragments' = [fragments EXCEPT ![Server] = Tail(@)]
      /\ last' = [last EXCEPT ![Server] = TRUE]
      /\ Reading(Server, "Final")
  BY DEF HandleFinalElement
<1>3. SameClient
  BY <1>2, ClientUntouched DEF control
<1>4. last' \in [Party -> BOOLEAN] /\ last'[Client] = last[Client] /\ last'[Server]
  BY <1>1, <1>2 DEF TypeOK
<1>5. /\ fragments[Server] \in Seq(Fragment) /\ fragments[Server] # <<>>
      /\ Head(fragments[Server]).kind = "Final"
      /\ ServerReads(fragments[Server])
      /\ (lastS <=> last[Server]) /\ (lastS' <=> last'[Server])
  BY <1>2, <1>3, <1>4, ServerFragment DEF control
<1>6. ss' = ss /\ sq' = sq /\ SameConfig /\ (Reverts' <=> Reverts)
  BY <1>2 DEF ss, sq, control, SameConfig, Reverts
<1> QED
  BY <1>4, <1>5, <1>6, ServerReadsOn

LEMMA ServerDevInfOrdered ==
    ASSUME TypeOK, Turns, Awake, Ordered, HandleDevInf(Server)
    PROVE  Ordered'
<1>1. Client \in Party /\ Server \in Party /\ Client # Server
  BY TwoParties
<1>2. /\ UNCHANGED <<cfg, control, syncWithoutInit, targets, link>> /\ Consume(Server)
      /\ packages' = [packages EXCEPT ![Server] = @ \o <<DevInfResults>>]
      /\ Reading(Server, "PutGet")
  BY DEF HandleDevInf, AddPackages
<1>3. sq \in Seq(Package) /\ sq' = sq \o <<DevInfResults>> /\ packages'[Client] = packages[Client]
  BY <1>1, <1>2 DEF sq, TypeOK
<1>4. SameClient
  BY <1>2, <1>3, ClientUntouched DEF control
<1>5. /\ fragments[Server] \in Seq(Fragment) /\ fragments[Server] # <<>>
      /\ Head(fragments[Server]).kind = "PutGet"
      /\ ServerReads(fragments[Server])
      /\ (lastS <=> last[Server]) /\ (lastS' <=> last'[Server])
  BY <1>2, <1>4, ServerFragment DEF Consume, TypeOK, control
<1>6. ss' = ss /\ SameConfig /\ (Reverts' <=> Reverts) /\ (lastS' <=> lastS)
  BY <1>2, <1>5 DEF ss, control, SameConfig, Reverts, Consume
<1> QED
  BY <1>3, <1>5, <1>6, ServerReadsDevInf

-----------------------------------------------------------------------------
(***************************************************************************)
(* Messages move on.                                                       *)
(***************************************************************************)
LEMMA TakeView ==
    ASSUME TypeOK, NEW p \in Party, NEW isLast \in BOOLEAN, parsed[p] # <<>>,
           TakeMessage(p, isLast), UNCHANGED <<incoming, net>>
    PROVE  /\ \A q \in Party : Coming(q)' \subseteq Coming(q)
           /\ Coming(p) # {}
           /\ (LastIn(p)' <=> isLast)
           /\ \A q \in Party \ {p} : (LastIn(q)' <=> LastIn(q))
<1>1. /\ processing'[p] /\ fragments'[p] = Head(parsed[p]) /\ (last'[p] <=> isLast)
      /\ parsed'[p] = Tail(parsed[p])
      /\ \A q \in Party \ {p} : /\ processing'[q] = processing[q]
                                /\ fragments'[q] = fragments[q]
                                /\ last'[q] = last[q] /\ parsed'[q] = parsed[q]
  BY DEF TakeMessage, TypeOK
<1>2. Range(Tail(parsed[p])) \subseteq Range(parsed[p]) /\ Head(parsed[p]) \in Range(parsed[p])
  BY RangeOfTail DEF TypeOK
<1>3. Coming(p)' \subseteq Coming(p) /\ Coming(p) # {}
  BY <1>1, <1>2 DEF Coming
<1>4. \A q \in Party \ {p} : Coming(q)' = Coming(q)
  BY <1>1 DEF Coming
<1> QED
  BY <1>1, <1>3, <1>4 DEF LastIn

LEMMA BeginOrdered ==
    ASSUME TypeOK, Ordered, NEW p \in Party, BeginMessage(p)
    PROVE  Ordered'
<1>1. /\ parsed[p] # <<>> /\ ~processing[p] /\ TakeMessage(p, FALSE)
      /\ UNCHANGED <<cfg, control, syncWithoutInit, packages, targets, incoming, net>>
  BY DEF BeginMessage
<1>2. /\ \A q \in Party : Coming(q)' \subseteq Coming(q)
      /\ ~LastIn(p)'
      /\ \A q \in Party \ {p} : (LastIn(q)' <=> LastIn(q))
  BY <1>1, TakeView
<1>3. ~LastIn(p)
  BY <1>1 DEF LastIn
<1>4. LessComing /\ SameEnds
  BY <1>2, <1>3, TwoParties DEF LessComing, SameEnds, toC, toS, lastC, lastS
<1>5. SameClient /\ SameServer /\ SameConfig
  BY <1>1, ClientUntouched, ServerUntouched DEF control, SameConfig
<1> QED
  BY <1>4, <1>5, QuietKeeps

LEMMA ServeOrdered ==
    ASSUME TypeOK, Ordered, NEW p \in Party, ServeRequest(p)
    PROVE  Ordered'
<1>1. /\ parsed[p] # <<>> /\ syncState[p] = "NOT_PREPARED"
      /\ SetSyncState(p, "PREPARED") /\ TakeMessage(p, TRUE)
      /\ UNCHANGED <<cfg, syncWithoutInit, packages, targets, incoming, net>>
  BY DEF ServeRequest
<1>2. /\ \A q \in Party : Coming(q)' \subseteq Coming(q)
      /\ Coming(p) # {} /\ LastIn(p)'
      /\ \A q \in Party \ {p} : (LastIn(q)' <=> LastIn(q))
  BY <1>1, TakeView
<1>3. /\ Client \in Party /\ Server \in Party /\ Client # Server
      /\ p = Client \/ p = Server
  BY TwoParties
<1>4. /\ syncState'[p] = "PREPARED" /\ sessionClosed' = sessionClosed
      /\ \A q \in Party \ {p} : syncState'[q] = syncState[q]
  BY <1>1 DEF SetSyncState, TypeOK
<1>5. LessComing /\ SameConfig
  BY <1>1, <1>2, <1>3 DEF LessComing, toC, toS, SameConfig
<1>6. CASE p = Client
  <2>1. SameServer
    BY <1>1, <1>3, <1>4, <1>6, ServerUntouched
  <2>2. cs = "NOT_PREPARED" /\ cs' = "PREPARED" /\ cq' = cq /\ cw' = cw
    BY <1>1, <1>4, <1>6 DEF cs, cq, cw
  <2>3. toC # {} /\ lastC' /\ (lastS' <=> lastS)
    BY <1>2, <1>3, <1>6 DEF toC, lastC, lastS
  <2> QED
    BY <1>5, <2>1, <2>2, <2>3, ClientServes
<1>7. CASE p = Server
  <2>1. SameClient
    BY <1>1, <1>3, <1>4, <1>7, ClientUntouched
  <2>2. ss = "NOT_PREPARED" /\ ss' = "PREPARED" /\ sq' = sq
        /\ (Reverts' <=> Reverts) /\ (closed' <=> closed)
    BY <1>1, <1>4, <1>7 DEF ss, sq, Reverts, closed
  <2>3. toS # {} /\ lastS' /\ (lastC' <=> lastC)
    BY <1>2, <1>3, <1>7 DEF toS, lastC, lastS
  <2> QED
    BY <1>5, <2>1, <2>2, <2>3, ServerServes
<1> QED
  BY <1>3, <1>6, <1>7

\* A message leaves the network
LEMMA LeaveView ==
    ASSUME TypeOK, NEW p \in Party, net[p] # <<>>, net' = [net EXCEPT ![p] = Tail(@)],
           UNCHANGED reading,
           \/ UNCHANGED <<incoming, parsed>>
           \/ parsed' = [parsed EXCEPT ![p] = Append(@, Head(net[p]))] /\ UNCHANGED incoming
           \/ incoming' = [incoming EXCEPT ![p] = <<Head(net[p])>>] /\ UNCHANGED parsed
    PROVE  LessComing /\ SameEnds
<1>1. /\ net'[p] = Tail(net[p]) /\ net[p] \in Seq(Message) /\ parsed[p] \in Seq(Message)
      /\ \A q \in Party \ {p} : /\ net'[q] = net[q] /\ incoming'[q] = incoming[q]
                                /\ parsed'[q] = parsed[q]
  BY DEF TypeOK
<1>2. Range(Tail(net[p])) \subseteq Range(net[p]) /\ Head(net[p]) \in Range(net[p])
  BY <1>1, RangeOfTail
<1>3. Head(net[p]) \in Message
  BY <1>1, HeadTailProperties
<1>4. Range(parsed'[p]) \subseteq Range(parsed[p]) \cup Range(net[p])
      /\ Range(incoming'[p]) \subseteq Range(incoming[p]) \cup Range(net[p])
  <2>1. CASE UNCHANGED <<incoming, parsed>>
    BY <2>1
  <2>2. CASE parsed' = [parsed EXCEPT ![p] = Append(@, Head(net[p]))] /\ UNCHANGED incoming
    <3>1. parsed'[p] = Append(parsed[p], Head(net[p])) /\ incoming'[p] = incoming[p]
      BY <2>2 DEF TypeOK
    <3>2. Range(Append(parsed[p], Head(net[p]))) \subseteq Range(parsed[p]) \cup {Head(net[p])}
      BY <1>1, <1>3, RangeOfAppend
    <3> QED
      BY <1>2, <3>1, <3>2
  <2>3. CASE incoming' = [incoming EXCEPT ![p] = <<Head(net[p])>>] /\ UNCHANGED parsed
    <3>1. parsed'[p] = parsed[p] /\ incoming'[p] = <<Head(net[p])>>
      BY <2>3 DEF TypeOK
    <3>2. Range(<<Head(net[p])>>) = {Head(net[p])}
      BY RangeOf
    <3> QED
      BY <1>2, <3>1, <3>2
  <2> QED
    BY <2>1, <2>2, <2>3
<1>5. Coming(p)' \subseteq Coming(p)
  BY <1>1, <1>2, <1>4 DEF Coming, reading
<1>6. \A q \in Party \ {p} : Coming(q)' = Coming(q)
  BY <1>1 DEF Coming, reading
<1>7. \A q \in Party : LastIn(q)' <=> LastIn(q)
  BY DEF LastIn, reading
<1> QED
  BY <1>5, <1>6, <1>7, TwoParties DEF LessComing, SameEnds, toC, toS, lastC, lastS

LEMMA LeaveOrdered ==
    ASSUME TypeOK, Ordered, NEW p \in Party, Deliver(p) \/ LoseMessage(p)
    PROVE  Ordered'
<1>1. /\ net[p] # <<>> /\ net' = [net EXCEPT ![p] = Tail(@)]
      /\ UNCHANGED <<cfg, control, syncWithoutInit, packages, targets, reading>>
  BY DEF Deliver, LoseMessage
<1>2. \/ UNCHANGED <<incoming, parsed>>
      \/ parsed' = [parsed EXCEPT ![p] = Append(@, Head(net[p]))] /\ UNCHANGED incoming
      \/ incoming' = [incoming EXCEPT ![p] = <<Head(net[p])>>] /\ UNCHANGED parsed
  BY DEF Deliver, LoseMessage
<1>3. LessComing /\ SameEnds
  BY <1>1, <1>2, LeaveView
<1>4. SameClient /\ SameServer /\ SameConfig
  BY <1>1, ClientUntouched, ServerUntouched DEF control, SameConfig
<1> QED
  BY <1>3, <1>4, QuietKeeps

-----------------------------------------------------------------------------
(***************************************************************************)
(* A session that the user, the transport or a message ends.               *)
(***************************************************************************)
LEMMA AbortOrdered ==
    ASSUME TypeOK, Ordered, SameConfig, NEW p \in Party, NEW state \in ErrorStates,
           AbortSync(p, state), UNCHANGED <<syncWithoutInit, reading>>,
           LessComing, SameEnds, syncState[p] # "NOT_PREPARED" \/ p = cfg.mode.init
    PROVE  Ordered'
<1>1. /\ Client \in Party /\ Server \in Party /\ Client # Server
      /\ p = Client \/ p = Server
  BY TwoParties
<1>2. /\ ~sessionClosed[p] /\ syncState'[p] = state
      /\ packages'[p] = <<>> /\ targets'[p] = <<>> /\ sessionClosed'[p]
      /\ \A q \in Party \ {p} : /\ syncState'[q] = syncState[q]
                                /\ packages'[q] = packages[q] /\ targets'[q] = targets[q]
                                /\ sessionClosed'[q] = sessionClosed[q]
  BY DEF AbortSync, ExitSync, TypeOK
<1>3. CASE p = Client
  <2>1. SameServer
    BY <1>1, <1>2, <1>3, ServerUntouched
  <2>2. cs' \in ErrorStates /\ cq' = <<>> /\ cw' = cw
    BY <1>2, <1>3 DEF cs, cq, cw
  <2>3. ~cinit => cs # "NOT_PREPARED"
    BY <1>3 DEF cinit, cs
  <2> QED
    BY <2>1, <2>2, <2>3, ClientLeaves DEF SameEnds
<1>4. CASE p = Server
  <2>1. SameClient
    BY <1>1, <1>2, <1>4, ClientUntouched
  <2>2. ss' \in ErrorStates /\ sq' = <<>>
    BY <1>2, <1>4 DEF ss, sq
  <2>3. cinit => ss # "NOT_PREPARED"
    BY <1>1, <1>4 DEF cinit, ss
  <2>4. ss # "SYNC_FINISHED"
    BY <1>2, <1>4 DEF Ordered, SavedFirst, ss, closed
  <2> QED
    BY <2>1, <2>2, <2>3, <2>4, ServerLeaves DEF SameEnds
<1> QED
  BY <1>1, <1>3, <1>4

LEMMA QuietView ==
    ASSUME UNCHANGED <<reading, link>>
    PROVE  LessComing /\ SameEnds
  BY DEF LessComing, SameEnds, toC, toS, lastC, lastS, Coming, LastIn, reading, link

LEMMA EnvironmentOrdered ==
    ASSUME TypeOK, Ordered, Environment
    PROVE  Ordered'
<1>1. ASSUME NEW p \in Party, LoseMessage(p)
      PROVE  Ordered'
  BY <1>1, LeaveOrdered
<1>2. ASSUME NEW p \in Party, GarbledMessage(p)
      PROVE  Ordered'
  <2>1. /\ net[p] # <<>> /\ net' = [net EXCEPT ![p] = Tail(@)] /\ syncState[p] # "NOT_PREPARED"
        /\ UNCHANGED <<cfg, syncWithoutInit, reading, incoming, parsed>>
        /\ AbortSync(p, "INVALID_SYNCML_MESSAGE")
    BY <1>2 DEF GarbledMessage, InSession
  <2>2. LessComing /\ SameEnds
    BY <2>1, LeaveView
  <2> QED
    BY <2>1, <2>2, AbortOrdered DEF ErrorStates, SameConfig
<1>3. ASSUME NEW p \in Party, UserAbort(p)
      PROVE  Ordered'
  <2>1. /\ UNCHANGED <<cfg, syncWithoutInit, reading, link>> /\ syncState[p] # "NOT_PREPARED"
        /\ AbortSync(p, "ABORTED")
    BY <1>3 DEF UserAbort, InSession
  <2> QED
    BY <2>1, QuietView, AbortOrdered DEF ErrorStates, SameConfig
<1>4. ASSUME NEW p \in Party, NEW event \in {"invalid", "connection", "rejected", "sent"},
             SetTransportStatus(p, event)
      PROVE  Ordered'
  <2>1. /\ UNCHANGED <<cfg, syncWithoutInit, reading, link>> /\ syncState[p] # "NOT_PREPARED"
        /\ AbortSync(p, StateAfterEvent(p, event))
    BY <1>4 DEF SetTransportStatus, InSession
  <2>2. /\ StateAfterEvent(p, "invalid") \in ErrorStates
        /\ StateAfterEvent(p, "connection") \in ErrorStates
        /\ StateAfterEvent(p, "rejected") \in ErrorStates
        /\ StateAfterEvent(p, "sent") \in ErrorStates
    BY DEF StateAfterEvent, ErrorStates
  <2>3. StateAfterEvent(p, event) \in ErrorStates
    BY <2>2
  <2> QED
    BY <2>1, <2>3, QuietView, AbortOrdered DEF SameConfig
<1>5. ASSUME NEW state \in {"INTERNAL_ERROR", "DATABASE_FAILURE", "CONNECTION_ERROR"},
             StartupFailure(state)
      PROVE  Ordered'
  <2>1. cfg.mode.init \in Party
    BY ConfigType DEF AlertMode, SyncMode, Initiators, Party, Client, Server
  <2>2. /\ UNCHANGED <<cfg, syncWithoutInit, reading, link>>
        /\ AbortSync(cfg.mode.init, state)
    BY <1>5 DEF StartupFailure
  <2>3. state \in ErrorStates
    BY DEF ErrorStates
  <2> QED
    BY <2>1, <2>2, <2>3, QuietView, AbortOrdered DEF SameConfig
<1> QED
  BY <1>1, <1>2, <1>3, <1>4, <1>5 DEF Environment

-----------------------------------------------------------------------------
(***************************************************************************)
(* The client: alerts and changes.                                         *)
(***************************************************************************)
LEMMA ClientAlertOrdered ==
    ASSUME TypeOK, Turns, Ordered, HandleClientAlert
    PROVE  Ordered'
<1>1. Client \in Party /\ Server \in Party /\ Client # Server
  BY TwoParties
<1>2. /\ UNCHANGED <<cfg, syncWithoutInit, packages, link>> /\ Consume(Client)
      /\ Reading(Client, "Alert") /\ Head(fragments[Client]).code \in SyncCodes
  BY DEF HandleClientAlert
<1>3. /\ targets'[Server] = targets[Server]
      /\ UNCHANGED control \/ (ClientMayAcknowledge /\ SetSyncState(Client, "REMOTE_INIT"))
  BY <1>1 DEF HandleClientAlert, SetupTargetByServer, AcknowledgeTargetOfClient, WithTarget, TypeOK
<1>4. UNCHANGED control => syncState[Client] = "PREPARED" \/ ~ClientMayAcknowledge
                           \/ SetSyncState(Client, "REMOTE_INIT")
  BY DEF HandleClientAlert
<1>5. syncState'[Server] = syncState[Server] /\ sessionClosed' = sessionClosed
  BY <1>1, <1>3 DEF control, SetSyncState, TypeOK
<1>6. SameServer
  BY <1>2, <1>3, <1>5, ServerUntouched
<1>7. /\ fragments[Client] \in Seq(Fragment) /\ fragments[Client] # <<>>
      /\ Head(fragments[Client]).kind = "Alert"
      /\ ClientReads(fragments[Client])
      /\ (lastC <=> last[Client]) /\ (lastC' <=> last'[Client])
  BY <1>2, <1>6, ClientFragment DEF Consume, TypeOK
<1>8. (lastC' <=> lastC) /\ SameConfig /\ cq' = cq
  BY <1>2, <1>7 DEF Consume, SameConfig, cq
<1>9. CASE ClientMayAcknowledge /\ SetSyncState(Client, "REMOTE_INIT")
  <2>1. cs' = "REMOTE_INIT" /\ cs \in {"LOCAL_INIT", "REMOTE_INIT", "SENDING_ITEMS"}
    BY <1>1, <1>9 DEF ClientMayAcknowledge, SetSyncState, TypeOK, cs
  <2>2. Announces(Head(fragments[Client]))
    BY <1>2, <1>7 DEF Announces
  <2> QED
    BY <1>7, <1>8, <2>1, <2>2, ClientReadsAlert
<1>10. CASE UNCHANGED control /\ (syncState[Client] = "PREPARED" \/ ~ClientMayAcknowledge)
  <2>1. cs' = cs
    BY <1>10 DEF control, cs
  <2>2. cs = "SENDING_ITEMS" => ~Warns(cw, Head(fragments[Client]))
    BY <1>7, <1>10 DEF cs, cw, Warns, ClientMayAcknowledge
  <2> QED
    BY <1>7, <1>8, <2>1, <2>2, ClientReadsOn
<1> QED
  BY <1>9, <1>10 DEF HandleClientAlert

LEMMA ClientSyncOrdered ==
    ASSUME TypeOK, Turns, Ordered, HandleClientSync
    PROVE  Ordered'
<1> DEFINE m == fragments[Client]
           sync == Head(m)
<1>1. Client \in Party /\ Server \in Party /\ Client # Server
  BY TwoParties
<1>2. /\ UNCHANGED <<cfg, syncWithoutInit, link>> /\ Consume(Client)
      /\ Reading(Client, "Sync") /\ HandleSyncElement(Client, ClientAcceptsSync)
  BY DEF HandleClientSync
<1>3. /\ packages' = packages \/ AddPackages(Client, <<Mappings(sync.db, sync.items)>>)
      /\ targets'[Server] = targets[Server]
      /\ ~ClientAcceptsSync => packages' = packages
  BY <1>1, <1>2 DEF HandleSyncElement, RejectSync, CommitSync, WithTarget, TypeOK
<1>4. /\ syncState'[Server] = syncState[Server] /\ sessionClosed' = sessionClosed
      /\ packages'[Server] = packages[Server]
  BY <1>1, <1>3 DEF HandleClientSync, control, SetSyncState, TypeOK, AddPackages
<1>5. SameServer
  BY <1>3, <1>4, ServerUntouched
<1>6. /\ m \in Seq(Fragment) /\ m # <<>>
      /\ sync.kind = "Sync"
      /\ ClientReads(m)
      /\ (lastC <=> last[Client]) /\ (lastC' <=> last'[Client])
  BY <1>2, <1>5, ClientFragment DEF Consume, TypeOK
<1>7. (lastC' <=> lastC) /\ SameConfig
  BY <1>2, <1>6 DEF Consume, SameConfig
<1>8. CASE ClientAcceptsSync
  <2>1. cs' = "RECEIVING_ITEMS"
    BY <1>1, <1>8 DEF HandleClientSync, SetSyncState, cs, TypeOK
  <2>2. (DevInfAhead(cq) => DevInfAhead(cq')) /\ (Has(cq', "PutGet") => Has(cq, "PutGet"))
    <3>1. CASE packages' = packages
      BY <3>1 DEF cq
    <3>2. CASE AddPackages(Client, <<Mappings(sync.db, sync.items)>>)
      <4> DEFINE t == <<Mappings(sync.db, sync.items)>>
      <4>1. sync.db \in Db /\ sync.items \in Seq(Item)
        BY <1>1, <1>2, KindType
      <4>2. t \in Seq(Package)
        BY <4>1 DEF Mappings, Package
      <4>3. ~Has(t, "PutGet")
        BY DEF Has, Mappings
      <4>4. cq' = cq \o t
        BY <1>1, <3>2 DEF AddPackages, cq, TypeOK
      <4> HIDE DEF t
      <4> QED
        BY <4>2, <4>3, <4>4, ClientAdds
    <3> QED
      BY <1>3, <3>1, <3>2
  <2> QED
    BY <1>6, <1>7, <2>1, <2>2, ClientReadsSync
<1>9. CASE ~ClientAcceptsSync
  <2>1. cs' = cs /\ cq' = cq /\ cs # "SENDING_ITEMS"
    BY <1>3, <1>9 DEF HandleClientSync, control, cs, cq, ClientAcceptsSync
  <2> QED
    BY <1>6, <1>7, <2>1, ClientReadsOn
<1> QED
  BY <1>8, <1>9

-----------------------------------------------------------------------------
(***************************************************************************)
(* The client: the end of a package.                                       *)
(***************************************************************************)
LEMMA ClientFinalView ==
    ASSUME TypeOK, Turns, HandleClientFinal
    PROVE  /\ SameConfig /\ ClientAtEnd
           /\ targets'[Server] = targets[Server] /\ syncState'[Server] = syncState[Server]
<1>1. Client \in Party /\ Server \in Party /\ Client # Server
      /\ Other(Client) = Server
  BY TwoParties
<1>2. AtFinal(Client) /\ FinalHandled(Client)
      /\ UNCHANGED <<cfg, syncWithoutInit, peer, statuses, storage, link, faults>>
  BY DEF HandleClientFinal
<1>3. /\ targets'[Server] = targets[Server] /\ syncState'[Server] = syncState[Server]
      /\ packages'[Server] = packages[Server] /\ sessionClosed' = sessionClosed
  <2>1. CASE ClientFinalInit \/ ClientFinalModifications
    BY <1>1, <2>1 DEF ClientFinalInit, ClientFinalModifications, AddPackages, SetSyncState, TypeOK
  <2>2. CASE ClientFinalUpdateStatus \/ ClientFinalLast
    BY <1>1, <2>2 DEF ClientFinalUpdateStatus, ClientFinalLast, AddPackages, SetSyncState, TypeOK
  <2>3. CASE ClientFinalUnexpected
    BY <1>1, <2>3 DEF ClientFinalUnexpected, AbortInMessage, control, TypeOK
  <2> QED
    BY <2>1, <2>2, <2>3 DEF HandleClientFinal
<1>4. SameServer
  BY <1>3, ServerUntouched
<1>5. ClientAtEnd
  BY <1>1, <1>2, <1>4, FinalView DEF ClientAtEnd, toC, toS, lastC, lastS, cw
<1> QED
  BY <1>2, <1>3, <1>5 DEF SameConfig

LEMMA ClientFinalOrdered ==
    ASSUME TypeOK, EndsOnce, Turns, Awake, Ordered, HandleClientFinal
    PROVE  Ordered'
<1>1. Client \in Party /\ Server \in Party /\ Client # Server
  BY TwoParties
<1>2. SameConfig /\ ClientAtEnd
  BY ClientFinalView
<1>3. targets[Client] \in Seq(Target) /\ cs = syncState[Client]
      /\ \A state : SetSyncState(Client, state) => cs' = state
      /\ \A new : AddPackages(Client, new) => cq' = cq \o new
  BY <1>1 DEF TypeOK, cs, cq, SetSyncState, AddPackages
<1>4. CASE ClientFinalInit
  <2>1. PICK u : u = InitializationPackages(targets[Client], FALSE)
    OBVIOUS
  <2>2. cs = "PREPARED" /\ cs' = "LOCAL_INIT" /\ cq' = cq \o u
    BY <1>3, <1>4, <2>1 DEF ClientFinalInit
  <2>3. cq = <<>>
    BY <2>2 DEF Ordered, Preparing
  <2>4. u \in Seq(Package) /\ DevInfAhead(u) /\ ~Has(u, "Sync")
    BY <1>3, <2>1, InitializationShows
  <2>5. cq' = u
    BY <2>2, <2>3, <2>4, ConcatProperties
  <2> QED
    BY <1>2, <2>2, <2>4, <2>5, ClientEndsAlert
<1>5. CASE ClientFinalModifications
  <2>1. PICK s : s = LocalChangesPackages(Discovered(targets[Client]))
    OBVIOUS
  <2>2. PICK t : t = s \o <<FinalPackage>>
    OBVIOUS
  <2>3. cs = "REMOTE_INIT" /\ cs' = "SENDING_ITEMS" /\ cq' = cq \o t
    BY <1>3, <1>5, <2>1, <2>2 DEF ClientFinalModifications
  <2>4. s \in Seq(Package) /\ ~Has(s, "PutGet")
    <3>1. Discovered(targets[Client]) \in Seq(Target)
      BY <1>3, DiscoveredType
    <3> QED
      BY <2>1, <3>1, ChangesOf
  <2>5. t \in Seq(Package) /\ ~Has(t, "PutGet")
    BY <2>2, <2>4, EndedShows
  <2>6. (DevInfAhead(cq) => DevInfAhead(cq')) /\ (Has(cq', "PutGet") => Has(cq, "PutGet"))
    BY <2>3, <2>5, ClientAdds
  <2> QED
    BY <1>2, <2>3, <2>6, ClientEndsInit
<1>6. CASE ClientFinalUpdateStatus
  <2>1. PICK list \in IF cfg.fastMaps THEN {<<>>} ELSE Ascending(Mapped) :
            AddPackages(Client, UpdateStatusPackages(list))
    BY <1>6 DEF ClientFinalUpdateStatus
  <2>2. PICK t : t = UpdateStatusPackages(list)
    OBVIOUS
  <2>3. cs = "RECEIVING_ITEMS" /\ cs' = "SENDING_MAPPINGS" /\ cq' = cq \o t
    BY <1>3, <1>6, <2>1, <2>2 DEF ClientFinalUpdateStatus
  <2>4. t \in Seq(Package) /\ ~Has(t, "PutGet")
    BY <2>1, <2>2, MappingsShow
  <2>5. (DevInfAhead(cq) => DevInfAhead(cq')) /\ (Has(cq', "PutGet") => Has(cq, "PutGet"))
    BY <2>3, <2>4, ClientAdds
  <2> QED
    BY <1>2, <2>3, <2>5, ClientEndsItems
<1>7. CASE ClientFinalLast
  <2>1. cs \in {"SENDING_ITEMS", "SENDING_MAPPINGS"} /\ cs' = "FINALIZING" /\ cq' = cq
    BY <1>3, <1>7 DEF ClientFinalLast, cq
  <2> QED
    BY <1>2, <2>1, ClientEndsLast
<1>8. CASE ClientFinalUnexpected
  <2>1. /\ SameServer /\ LessComing /\ cw' = cw /\ (lastC' => lastC) /\ (lastS' <=> lastS)
        /\ cq' = cq /\ cs # "SENDING_ITEMS"
    BY <1>2, <1>3, <1>8 DEF ClientAtEnd, LessComing, ClientFinalUnexpected, cq
  <2>2. cs' \in ErrorStates \/ (cs' = "SYNC_FINISHED" /\ cs = "SYNC_FINISHED")
    <3>1. CASE sessionClosed[Client]
      <4>1. cs' = cs
        BY <1>8, <3>1 DEF ClientFinalUnexpected, AbortInMessage, control, cs
      <4>2. cs \in ErrorStates \cup {"SYNC_FINISHED"}
        BY <1>1, <3>1 DEF EndsOnce, cs
      <4> QED
        BY <4>1, <4>2
    <3>2. CASE ~sessionClosed[Client]
      <4>1. cs' = LastError(Client)
        BY <1>1, <1>8, <3>2 DEF ClientFinalUnexpected, AbortInMessage, cs, TypeOK
      <4> QED
        BY <4>1 DEF LastError, ErrorStates, cs
    <3> QED
      BY <3>1, <3>2
  <2>3. cs = "SYNC_FINISHED" => ss = "SYNC_FINISHED"
    BY DEF Ordered, SavedFirst
  <2>4. cs # "NOT_PREPARED"
    BY <1>1 DEF Awake, HandleClientFinal, AtFinal, cs
  <2> QED
    BY <1>2, <2>1, <2>2, <2>3, <2>4, ClientLeaves
<1> QED
  BY <1>4, <1>5, <1>6, <1>7, <1>8 DEF HandleClientFinal

LEMMA ClientMessageOrdered ==
    ASSUME TypeOK, EndsOnce, Turns, Ordered, ~cfg.omit, EndOfClientMessage
    PROVE  Ordered'
<1>1. /\ Client \in Party /\ Server \in Party /\ Client # Server
      /\ Other(Client) = Server /\ Other(Server) = Client
      /\ \A p \in Party : p = Client \/ p = Server
  BY TwoParties
<1>2. /\ AtEndOfMessage(Client) /\ MessageHandled(Client)
      /\ SameConfig /\ syncWithoutInit' = syncWithoutInit /\ cw' = cw
  BY DEF EndOfClientMessage, SameConfig, cw
<1>3. CASE ClientAnswers /\ SendAndReceive(Client) /\ UNCHANGED <<control, targets, changeLog>>
  <2>1. PICK s \in Sendable(Client) : /\ Generate(Client, s.k, s.cut)
                                      /\ packages' = [packages EXCEPT ![Client] = s.cut.left]
    BY <1>3 DEF SendAndReceive
  <2>2. PICK m : m = Top(Client, s.k) \o s.cut.written
    OBVIOUS
  <2>3. s.k \in 0..Len(statuses[Client]) /\ s.cut.written \in Seq(Package)
    BY <1>1, <2>1, SendableType
  <2>4. /\ \A q \in Party : net[q] = <<>> /\ incoming[q] = <<>> /\ parsed[q] = <<>>
        /\ ~processing[Server] /\ processing[Client]
        /\ Coming(Client) = {<<>>} /\ Coming(Server) = {}
        /\ ~LastIn(Server) /\ ~LastIn(Client)
    BY <1>1, <1>2, Alone DEF AtEndOfMessage
  <2>5. \A q \in Party : ~processing'[q]
    BY <1>1, <1>2, <2>4 DEF MessageHandled, TypeOK
  <2>6. Receive(Client)
    BY <1>3 DEF SendAndReceive
  <2>7. /\ Coming(Client)' = {} /\ Coming(Server)' = {m}
        /\ \A q \in Party : ~LastIn(q)'
    BY <1>1, <2>1, <2>2, <2>3, <2>4, <2>5, <2>6, SentView
  <2>8. /\ toC = {<<>>} /\ toC' = {} /\ toS = {} /\ toS' = {m}
        /\ ~lastC /\ ~lastC' /\ ~lastS /\ ~lastS'
    BY <1>1, <2>4, <2>7 DEF toC, toS, lastC, lastS
  <2>9. cq' = s.cut.left /\ packages'[Server] = packages[Server]
    BY <1>1, <2>1 DEF cq, TypeOK
  <2>10. SameServer
    BY <1>3, <2>9, ServerUntouched DEF control
  <2>11. \A kind \in {"Sync", "Final", "PutGet"} : Has(m, kind) \/ Has(cq', kind) => Has(cq, kind)
    BY <1>1, <2>1, <2>2, <2>9, AnswerShows DEF cq
  <2>12. DevInfAhead(cq) => /\ DevInfOnTop(m) /\ DevInfAhead(cq')
                            /\ Has(cq', "PutGet") => OnlyStatuses(m)
    BY <1>1, <2>1, <2>2, <2>9, AnswerShows DEF cq
  <2>13. /\ cs' = cs
         /\ cs \in {"PREPARED", "LOCAL_INIT", "REMOTE_INIT", "SENDING_ITEMS",
                    "RECEIVING_ITEMS", "SENDING_MAPPINGS"}
    BY <1>3 DEF ClientAnswers, cs, control
  <2> QED
    BY <1>2, <2>8, <2>10, <2>11, <2>12, <2>13, ClientAnswersMessage
<1>4. CASE ClientIsDone /\ FinishSync(Client) /\ UNCHANGED <<statuses, link>>
  <2>1. LessComing /\ ~lastC' /\ ~lastS /\ ~lastS'
    BY <1>1, <1>2, <1>4, IdleView DEF LessComing, toC, toS, lastC, lastS, AtEndOfMessage
  <2>2. cs = "FINALIZING" /\ ss = "SYNC_FINISHED"
    BY <1>4 DEF ClientIsDone, ShouldSendUpdateStatus, cs, Ordered, SavedFirst
  <2>3. ~sessionClosed[Client]
    BY <1>1, <2>2 DEF EndsOnce, cs, ErrorStates
  <2>4. /\ cs' = "SYNC_FINISHED" /\ cq' = <<>> /\ syncState'[Server] = syncState[Server]
        /\ packages'[Server] = packages[Server] /\ targets'[Server] = targets[Server]
        /\ sessionClosed'[Server] = sessionClosed[Server]
    BY <1>1, <1>4, <2>3 DEF FinishSync, ExitSync, TypeOK, cs, cq
  <2>5. SameServer
    BY <2>4, ServerUntouched
  <2> QED
    BY <1>2, <2>1, <2>2, <2>4, <2>5, ClientLeaves
<1>5. CASE EndIdle(Client)
  <2>1. LessComing /\ ~lastC /\ ~lastC' /\ ~lastS /\ ~lastS'
    <3>1. UNCHANGED link
      BY <1>5 DEF EndIdle
    <3>2. /\ Coming(Client) = {<<>>} /\ Coming(Server) = {}
          /\ Coming(Client)' = {} /\ Coming(Server)' = {}
          /\ ~LastIn(Client)' /\ ~LastIn(Server)'
      BY <1>1, <1>2, <3>1, IdleView
    <3>3. ~LastIn(Server) /\ ~LastIn(Client)
      BY <1>1, <1>2, Alone DEF AtEndOfMessage
    <3> QED
      BY <3>2, <3>3 DEF LessComing, toC, toS, lastC, lastS
  <2>2. syncState' = syncState
    BY <1>5 DEF EndIdle
  <2>3. CASE UNCHANGED <<sessionClosed, packages, targets>>
    <3>1. SameServer /\ SameClient
      BY <1>2, <2>2, <2>3, ServerUntouched, ClientUntouched
    <3> QED
      BY <1>2, <2>1, <3>1, QuietKeeps DEF SameEnds
  <2>4. CASE syncFinished[Client] /\ ~sessionClosed[Client]
    <3>1. /\ cq' = <<>> /\ cs' = cs
          /\ packages'[Server] = packages[Server] /\ targets'[Server] = targets[Server]
          /\ sessionClosed'[Server] = sessionClosed[Server]
      BY <1>1, <1>5, <2>2, <2>4 DEF EndIdle, ExitSync, TypeOK, cs, cq
    <3>2. SameServer
      BY <2>2, <3>1, ServerUntouched
    <3>3. cs \in {"SYNC_FINISHED"} \cup ErrorStates
      BY <1>1, <2>4 DEF EndsOnce, cs
    <3>4. cs # "NOT_PREPARED"
      BY <3>3 DEF ErrorStates
    <3>5. cs = "SYNC_FINISHED" => ss = "SYNC_FINISHED"
      BY DEF Ordered, SavedFirst
    <3> QED
      BY <1>2, <2>1, <3>1, <3>2, <3>3, <3>4, <3>5, ClientLeaves
  <2> QED
    BY <1>5, <2>3, <2>4 DEF EndIdle, ExitSync
<1> QED
  BY <1>3, <1>4, <1>5 DEF EndOfClientMessage

-----------------------------------------------------------------------------
(***************************************************************************)
(* The server: alerts, changes and mappings.                               *)
(***************************************************************************)
LEMMA ServerAlertOrdered ==
    ASSUME TypeOK, Turns, Awake, Ordered, HandleServerAlert
    PROVE  Ordered'
<1> DEFINE m == fragments[Server]
           alert == Head(m)
<1>1. Client \in Party /\ Server \in Party /\ Client # Server
  BY TwoParties
<1>2. /\ UNCHANGED <<cfg, syncWithoutInit, packages, link>> /\ Consume(Server)
      /\ Reading(Server, "Alert") /\ alert.code \in SyncCodes
  BY DEF HandleServerAlert
<1>3. /\ syncState'[Client] = syncState[Client] /\ sessionClosed' = sessionClosed
  BY <1>1 DEF HandleServerAlert, control, SetSyncState, TypeOK
<1>4. SameClient
  BY <1>2, <1>3, ClientUntouched
<1>5. /\ m \in Seq(Fragment) /\ m # <<>> /\ alert.kind = "Alert" /\ ServerReads(m)
      /\ (lastS <=> last[Server]) /\ (lastS' <=> last'[Server])
  BY <1>2, <1>3, <1>4, ServerFragment DEF Consume, TypeOK
<1>6. (lastS' <=> lastS) /\ SameConfig /\ sq' = sq
  BY <1>2, <1>5 DEF Consume, SameConfig, sq
<1>7. CASE syncState[Server] \in {"PREPARED", "REMOTE_INIT"} /\ SetupTargetByClient(alert)
           /\ SetSyncState(Server, "REMOTE_INIT")
  <2>1. ss \in {"PREPARED", "REMOTE_INIT"} /\ ss' = "REMOTE_INIT"
    BY <1>1, <1>7 DEF SetSyncState, ss, TypeOK
  <2>2. Announces(alert)
    BY <1>2, <1>5 DEF Announces
  <2>3. CASE targets' = targets
    <3>1. Reverts' <=> Reverts
      BY <2>3 DEF Reverts
    <3> HIDE DEF m
    <3> QED
      BY <1>5, <1>6, <2>1, <2>2, <3>1, ServerReadsAlert
  <2>4. CASE targets' = [targets EXCEPT ![Server] = Append(@, TargetByClient(alert))]
    <3> DEFINE old == targets[Server]
               t == TargetByClient(alert)
    <3>1. targets'[Server] = Append(old, t) /\ old \in Seq(Target)
      BY <1>1, <2>4 DEF TypeOK
    <3>2. /\ t \in Target /\ (t.reverted => RefreshRequired(alert))
      <4>1. alert.db \in Db
        BY <1>1, <1>2, KindType
      <4>2. ModeOf(alert.code) \in AlertMode
        BY <1>2, ModeOfType
      <4>3. [NewTarget(alert.db, ModeOf(alert.code)) EXCEPT !.anchored = TRUE] \in Target
        <5>1. NewTarget(alert.db, ModeOf(alert.code)) \in Target
          BY <4>1, <4>2, NewTargetType
        <5>2. \A u \in Target : [u EXCEPT !.anchored = TRUE] \in Target
          BY DEF Target
        <5> QED
          BY <5>1, <5>2
      <4>4. t \in Target
        BY <4>3, RefreshType, RevertType DEF TargetByClient
      <4>5. ~RefreshRequired(alert) => ~t.reverted
        BY DEF TargetByClient, NewTarget
      <4> QED
        BY <4>4, <4>5
    <3>3. RefreshRequired(alert) => MayRevert \/ ~Plain(alert)
      <4>1. alert.db \in cfg.mismatch => cfg.mismatch # {}
        OBVIOUS
      <4> QED
        BY <2>2, <4>1 DEF RefreshRequired, AnchorMismatch, MayRevert, Plain
    <3> HIDE DEF t, old, m
    <3>4. /\ DOMAIN Append(old, t) = DOMAIN old \cup {Len(old) + 1}
          /\ \A i \in DOMAIN old : Append(old, t)[i] = old[i]
          /\ Append(old, t)[Len(old) + 1] = t
      <4>1. /\ Append(old, t) \in Seq(Target) /\ Len(Append(old, t)) = Len(old) + 1
            /\ \A i \in 1..Len(old) : Append(old, t)[i] = old[i]
            /\ Append(old, t)[Len(old) + 1] = t
        BY <3>1, <3>2, AppendProperties
      <4>2. DOMAIN old = 1..Len(old) /\ Len(old) \in Nat
            /\ DOMAIN Append(old, t) = 1..(Len(old) + 1)
        BY <3>1, <4>1, LenProperties
      <4>3. 1..(Len(old) + 1) = 1..Len(old) \cup {Len(old) + 1}
        BY <4>2
      <4> QED
        BY <4>1, <4>2, <4>3
    <3>5. (Reverts <=> \E i \in DOMAIN old : old[i].reverted)
          /\ (Reverts' <=> \E i \in DOMAIN Append(old, t) : Append(old, t)[i].reverted)
      BY <3>1 DEF Reverts, old
    <3>6. Reverts' <=> Reverts \/ t.reverted
      BY <3>4, <3>5
    <3>7. (Reverts => Reverts') /\ ((Reverts' /\ ~Reverts) => MayRevert \/ ~Plain(Head(m)))
      BY <3>2, <3>3, <3>6 DEF m
    <3> QED
      BY <1>5, <1>6, <2>1, <2>2, <3>7, ServerReadsAlert
  <2> QED
    BY <1>7, <2>3, <2>4 DEF SetupTargetByClient
<1>8. CASE syncState[Server] = "LOCAL_INIT" /\ AcknowledgeTargetOfServer(alert)
           /\ UNCHANGED control
  <2> DEFINE f == [i \in DOMAIN targets[Server] |->
                      IF targets[Server][i].db = alert.db
                      THEN AcknowledgedByServer(targets[Server][i]) ELSE targets[Server][i]]
  <2>1. targets' = [targets EXCEPT ![Server] = f]
    BY <1>1, <1>8 DEF AcknowledgeTargetOfServer, WithTarget, TypeOK
  <2>2. \A i \in DOMAIN targets[Server] : targets[Server][i] \in Target
    BY <1>1, ElementType
  <2>3. \A t \in Target : t.reverted => AcknowledgedByServer(t).reverted
    BY DEF AcknowledgedByServer, RevertSyncMode, Target
  <2>4. /\ DOMAIN f = DOMAIN targets[Server]
        /\ \A i \in DOMAIN targets[Server] : targets[Server][i].reverted => f[i].reverted
    BY <2>2, <2>3
  <2> HIDE DEF f
  <2>5. Reverts => Reverts'
    BY <2>1, <2>4, RevertsGrow
  <2>6. ss' = ss /\ ss \notin EarlyStates /\ ss # "REMOTE_INIT"
    BY <1>8 DEF ss, control, EarlyStates
  <2> HIDE DEF m
  <2> QED
    BY <1>5, <1>6, <2>5, <2>6, ServerReadsOn
<1>9. CASE syncState[Server] \notin InitStates /\ UNCHANGED <<control, targets>>
  <2>1. ss' = ss /\ (Reverts' <=> Reverts) /\ ss # "REMOTE_INIT"
    BY <1>9 DEF ss, control, Reverts, InitStates
  <2> HIDE DEF m
  <2> QED
    BY <1>5, <1>6, <2>1, ServerReadsOn
<1> QED
  BY <1>7, <1>8, <1>9 DEF HandleServerAlert

LEMMA ServerSyncOrdered ==
    ASSUME TypeOK, Turns, Awake, Ordered, HandleServerSync
    PROVE  Ordered'
<1> DEFINE m == fragments[Server]
<1>1. Client \in Party /\ Server \in Party /\ Client # Server
  BY TwoParties
<1>2. /\ UNCHANGED <<cfg, link>> /\ Consume(Server)
      /\ syncWithoutInit'[Client] = syncWithoutInit[Client]
      /\ Reading(Server, "Sync") /\ HandleSyncElement(Server, ServerAcceptsSync)
  BY <1>1 DEF HandleServerSync, TypeOK
<1>3. /\ packages' = packages
      /\ ~ServerAcceptsSync => targets' = targets
  BY <1>1, <1>2 DEF HandleSyncElement, RejectSync, CommitSync
<1>4. /\ syncState'[Client] = syncState[Client] /\ sessionClosed' = sessionClosed
  BY <1>1 DEF HandleServerSync, control, SetSyncState, TypeOK
<1>5. SameClient
  BY <1>2, <1>3, <1>4, ClientUntouched
<1>6. /\ m \in Seq(Fragment) /\ m # <<>> /\ Head(m).kind = "Sync" /\ ServerReads(m)
      /\ (lastS <=> last[Server]) /\ (lastS' <=> last'[Server])
  BY <1>2, <1>4, <1>5, ServerFragment DEF Consume, TypeOK
<1>7. (lastS' <=> lastS) /\ SameConfig /\ sq' = sq
  BY <1>2, <1>3, <1>6 DEF Consume, SameConfig, sq
<1> HIDE DEF m
<1>8. CASE ServerAcceptsSync
  <2>1. ss \in {"REMOTE_INIT", "LOCAL_INIT", "RECEIVING_ITEMS"} /\ ss' = "RECEIVING_ITEMS"
    BY <1>1, <1>8 DEF HandleServerSync, SetSyncState, ss, TypeOK, ServerAcceptsSync, SyncInInit
  <2> QED
    BY <1>6, <1>7, <2>1, ServerReadsSync
<1>9. CASE ~ServerAcceptsSync
  <2>1. ss' = ss /\ (Reverts' <=> Reverts) /\ (ss = "REMOTE_INIT" => Reverts)
    BY <1>3, <1>9 DEF HandleServerSync, control, ss, ServerAcceptsSync, SyncInInit, Reverts
  <2> QED
    BY <1>6, <1>7, <2>1, ServerReadsOn
<1> QED
  BY <1>8, <1>9

LEMMA ServerMapOrdered ==
    ASSUME TypeOK, Turns, Awake, Ordered, HandleServerMap
    PROVE  Ordered'
<1> DEFINE m == fragments[Server]
           map == Head(m)
           f == [i \in DOMAIN targets[Server] |->
                    IF targets[Server][i].db = map.db
                    THEN [targets[Server][i] EXCEPT !.mapped = @ \o map.items]
                    ELSE targets[Server][i]]
<1>1. Client \in Party /\ Server \in Party /\ Client # Server
  BY TwoParties
<1>2. /\ UNCHANGED <<cfg, syncWithoutInit, packages, link>> /\ Consume(Server)
      /\ Reading(Server, "Map") /\ (AcceptMap(map) \/ RejectMap(map))
  BY DEF HandleServerMap
<1>3. /\ syncState'[Client] = syncState[Client] /\ sessionClosed' = sessionClosed
  BY <1>1, <1>2 DEF AcceptMap, RejectMap, control, SetSyncState, TypeOK
<1>4. SameClient
  BY <1>2, <1>3, ClientUntouched
<1>5. /\ m \in Seq(Fragment) /\ m # <<>> /\ Head(m).kind = "Map" /\ ServerReads(m)
      /\ (lastS <=> last[Server]) /\ (lastS' <=> last'[Server])
  BY <1>2, <1>3, <1>4, ServerFragment DEF Consume, TypeOK
<1>6. (lastS' <=> lastS) /\ SameConfig /\ sq' = sq
  BY <1>2, <1>5 DEF Consume, SameConfig, sq
<1>7. CASE AcceptMap(map)
  <2>1. ss \in {"SENDING_ITEMS", "RECEIVING_MAPPINGS"} /\ ss \notin EarlyStates
    BY <1>7 DEF AcceptMap, ss, EarlyStates
  <2>2. CASE packages[Server] = <<>>
    <3>1. ss' = "RECEIVING_MAPPINGS" /\ sq = <<>>
      BY <1>1, <1>7, <2>2 DEF AcceptMap, SetSyncState, ss, sq, TypeOK
    <3> HIDE DEF m
    <3> QED
      BY <1>5, <1>6, <2>1, <3>1, ServerReadsMap
  <2>3. CASE packages[Server] # <<>>
    <3>1. ss' = ss
      BY <1>7, <2>3 DEF AcceptMap, control, ss
    <3>2. targets' = [targets EXCEPT ![Server] = f]
      BY <1>1, <1>7 DEF AcceptMap, WithTarget, TypeOK
    <3>3. \A i \in DOMAIN targets[Server] : targets[Server][i] \in Target
      BY <1>1, ElementType
    <3>4. /\ DOMAIN f = DOMAIN targets[Server]
          /\ \A i \in DOMAIN targets[Server] : targets[Server][i].reverted => f[i].reverted
      BY <3>3 DEF Target
    <3> HIDE DEF f, m
    <3>5. Reverts => Reverts'
      BY <3>2, <3>4, RevertsGrow
    <3>6. ss # "REMOTE_INIT"
      BY <2>1
    <3> QED
      BY <1>5, <1>6, <2>1, <3>1, <3>5, <3>6, ServerReadsOn
  <2> QED
    BY <2>2, <2>3
<1>8. CASE RejectMap(map)
  <2>1. ss' = ss /\ (Reverts' <=> Reverts)
    BY <1>8 DEF RejectMap, ss, control, Reverts
  <2>2. Head(m).kind # "Sync"
    BY <1>5
  <2> HIDE DEF m
  <2> QED
    BY <1>5, <1>6, <2>1, <2>2, ServerReadsOn
<1> QED
  BY <1>2, <1>7, <1>8

-----------------------------------------------------------------------------
(***************************************************************************)
(* The server: the end of a package.                                       *)
(***************************************************************************)
LEMMA ServerFinalView ==
    ASSUME TypeOK, Turns, Awake, HandleServerFinal
    PROVE  /\ SameConfig /\ ServerAtEnd /\ targets' = targets
           /\ sessionClosed' = sessionClosed
<1>1. /\ Client \in Party /\ Server \in Party /\ Client # Server
      /\ Other(Server) = Client
  BY TwoParties
<1>2. AtFinal(Server) /\ FinalHandled(Server)
      /\ UNCHANGED <<cfg, syncWithoutInit, targets, link>>
  BY DEF HandleServerFinal
<1>3. /\ syncState'[Client] = syncState[Client] /\ packages'[Client] = packages[Client]
      /\ sessionClosed' = sessionClosed
  <2>1. CASE ServerFinalInit \/ ServerFinalModifications \/ ServerFinalLast
    BY <1>1, <2>1 DEF ServerFinalInit, ServerFinalModifications, ServerFinalLast,
                      AddPackages, SetSyncState, TypeOK
  <2>2. CASE ServerFinalEarly
    BY <2>2 DEF ServerFinalEarly, control
  <2>3. CASE ServerFinalUnexpected
    BY <1>1, <2>3 DEF ServerFinalUnexpected, AbortInMessage, control, TypeOK
  <2> QED
    BY <2>1, <2>2, <2>3 DEF HandleServerFinal
<1>4. SameClient
  BY <1>2, <1>3, ClientUntouched
<1>5. ss # "NOT_PREPARED"
  BY <1>1, <1>2 DEF Awake, AtFinal, ss
<1>6. ServerAtEnd
  BY <1>1, <1>2, <1>3, <1>4, <1>5, FinalView DEF ServerAtEnd, toC, toS, lastC, lastS, closed
<1> QED
  BY <1>2, <1>3, <1>6 DEF SameConfig

\* The package of the server that its items make, and what it warns of
LEMMA ModificationsShow ==
    ASSUME TypeOK, NEW t, t = ModificationPackages
    PROVE  /\ t \in Seq(Package) /\ ~Has(t, "PutGet") /\ FinalIsLast(t)
           /\ SendsModifications => \A w : WarnedAll(w, t)
<1> DEFINE a == InitializationAlerts(targets[Server])
           b == IF syncWithoutInit[Server] THEN a ELSE <<>>
           c == LocalChangesPackages(targets[Server])
<1>1. targets[Server] \in Seq(Target)
  BY TwoParties DEF TypeOK
<1>2. a \in Seq(Package) /\ \A kind : Has(a, kind) => kind = "Alert"
  BY <1>1, AlertsOf
<1>3. /\ c \in Seq(Package) /\ \A kind : Has(c, kind) => kind = "Sync"
      /\ targets[Server] # <<>> => \A w : Warning(w, c)
  BY <1>1, ChangesOf
<1>4. t = (b \o c) \o <<FinalPackage>>
  BY DEF ModificationPackages
<1>5. b \in Seq(Package) /\ \A kind : Has(b, kind) => kind = "Alert"
  <2>1. CASE b = a
    BY <1>2, <2>1
  <2>2. CASE b = <<>>
    <3>1. <<>> \in Seq(Package) /\ \A kind : ~Has(<<>>, kind)
      BY EmptyShows, EmptySeq
    <3>2. \A e : (e \in Seq(Package) /\ \A kind : ~Has(e, kind)) =>
                    (e \in Seq(Package) /\ \A kind : Has(e, kind) => kind = "Alert")
      OBVIOUS
    <3> QED
      BY <2>2, <3>1, <3>2
  <2> QED
    BY <2>1, <2>2
<1> HIDE DEF a, b, c
<1> DEFINE s == b \o c
<1>6. /\ s \in Seq(Package)
      /\ \A kind : Has(s, kind) <=> Has(b, kind) \/ Has(c, kind)
      /\ \A w : Warning(w, b) \/ Warning(w, c) => Warning(w, s)
  BY <1>3, <1>5, JoinShows, ConcatProperties
<1>7. t = s \o <<FinalPackage>>
  BY <1>4
<1> HIDE DEF s
<1>8. ~Has(s, "Final") /\ ~Has(s, "PutGet")
  BY <1>3, <1>5, <1>6
<1>9. /\ t \in Seq(Package)
      /\ \A kind : Has(t, kind) <=> Has(s, kind) \/ kind = "Final"
      /\ ~Has(s, "Final") => FinalIsLast(t)
      /\ \A w : (~Has(s, "Final") /\ Warning(w, s)) => WarnedAll(w, t)
  BY <1>6, <1>7, EndedShows
<1>10. SendsModifications => targets[Server] # <<>>
  <2>1. <<>> \in Seq(Target) /\ Len(<<>>) = 0 /\ DOMAIN <<>> = {}
    BY EmptySeq, LenProperties
  <2> QED
    BY <2>1 DEF SendsModifications
<1> QED
  BY <1>3, <1>6, <1>8, <1>9, <1>10

LEMMA ServerFinalOrdered ==
    ASSUME TypeOK, EndsOnce, Turns, Awake, Ordered, HandleServerFinal
    PROVE  Ordered'
<1>1. Client \in Party /\ Server \in Party /\ Client # Server
  BY TwoParties
<1>2. SameConfig /\ ServerAtEnd /\ targets' = targets /\ sessionClosed' = sessionClosed
  BY ServerFinalView
<1>3. /\ targets[Server] \in Seq(Target) /\ ss = syncState[Server] /\ sq = packages[Server]
      /\ \A state : SetSyncState(Server, state) => ss' = state
      /\ \A new : AddPackages(Server, new) => sq' = sq \o new
  BY <1>1 DEF TypeOK, ss, sq, SetSyncState, AddPackages
<1>4. CASE ServerFinalInit
  <2>1. PICK s : s = InitializationAlerts(targets[Server])
    OBVIOUS
  <2>2. PICK t : t = s \o <<FinalPackage>>
    OBVIOUS
  <2>3. ss = "REMOTE_INIT" /\ ss' = "LOCAL_INIT" /\ sq' = sq \o t
    BY <1>3, <1>4, <2>1, <2>2 DEF ServerFinalInit
  <2>4. /\ s \in Seq(Package) /\ \A kind : Has(s, kind) => kind = "Alert"
        /\ targets[Server] # <<>> => Warning(TRUE, s)
    BY <1>3, <2>1, AlertsOf
  <2>5. /\ t \in Seq(Package)
        /\ \A kind : Has(t, kind) <=> Has(s, kind) \/ kind = "Final"
        /\ ~Has(s, "Final") => FinalIsLast(t)
        /\ \A w : (~Has(s, "Final") /\ Warning(w, s)) => WarnedAll(w, t)
    BY <2>2, <2>4, EndedShows
  <2>6. ~Has(t, "PutGet") /\ ~Has(t, "Sync") /\ ~Has(s, "Final") /\ FinalIsLast(t)
    BY <2>4, <2>5
  <2>7. /\ Has(sq', "PutGet") => Has(sq, "PutGet")
        /\ (Has(sq', "Sync") /\ ~Has(t, "Sync")) => Has(sq, "Sync")
        /\ ~Has(sq, "Final") => FinalIsLast(sq')
        /\ \A w : (~Has(sq, "Final") /\ WarnedAll(w, t)) => WarnedAll(w, sq')
    BY <2>3, <2>5, <2>6, ServerAdds
  <2>8. Reverts => targets[Server] # <<>>
    <3>1. <<>> \in Seq(Target) /\ Len(<<>>) = 0 /\ DOMAIN <<>> = {}
      BY EmptySeq, LenProperties
    <3> QED
      BY <3>1 DEF Reverts
  <2>9. (~Has(sq, "Final") /\ Reverts /\ cw) => WarnedAll(cw, sq')
    <3> SUFFICES ASSUME ~Has(sq, "Final"), Reverts, cw
                 PROVE  WarnedAll(cw, sq')
      OBVIOUS
    <3>1. WarnedAll(TRUE, t)
      BY <2>4, <2>5, <2>6, <2>8
    <3>2. cw = TRUE
      BY <1>1 DEF cw, TypeOK
    <3> QED
      BY <2>7, <3>1, <3>2
  <2> QED
    BY <1>2, <2>3, <2>6, <2>7, <2>9, ServerEndsInit
<1>5. CASE ServerFinalModifications
  <2>1. PICK t : t = ModificationPackages
    OBVIOUS
  <2>2. ss = "RECEIVING_ITEMS" /\ ss' = "SENDING_ITEMS" /\ sq' = sq \o t
    BY <1>3, <1>5, <2>1 DEF ServerFinalModifications
  <2>3. /\ t \in Seq(Package) /\ ~Has(t, "PutGet") /\ FinalIsLast(t)
        /\ \A w : WarnedAll(w, t)
    BY <1>5, <2>1, ModificationsShow DEF ServerFinalModifications
  <2>4. /\ Has(sq', "PutGet") => Has(sq, "PutGet")
        /\ ~Has(sq, "Final") => FinalIsLast(sq')
        /\ \A w : (~Has(sq, "Final") /\ WarnedAll(w, t)) => WarnedAll(w, sq')
    BY <2>2, <2>3, ServerAdds
  <2>5. ~Has(sq, "Final") => FinalIsLast(sq') /\ WarnedAll(cw, sq')
    BY <2>3, <2>4
  <2> QED
    BY <1>2, <2>2, <2>4, <2>5, ServerEndsItems
<1>6. CASE ServerFinalLast
  <2>1. PICK t : t = <<FinalPackage>>
    OBVIOUS
  <2>2. /\ \/ ss \in {"RECEIVING_ITEMS", "RECEIVING_MAPPINGS"}
           \/ ss = "SENDING_ITEMS" /\ sq = <<>>
        /\ ss' = "FINALIZING" /\ sq' = sq \o t
    BY <1>3, <1>6, <2>1 DEF ServerFinalLast
  <2>3. t \in Seq(Package) /\ ~Has(t, "PutGet") /\ FinalIsLast(t)
    BY <2>1, FinalShows, FinalType
  <2>4. /\ Has(sq', "PutGet") => Has(sq, "PutGet")
        /\ ~Has(sq, "Final") => FinalIsLast(sq')
    BY <2>2, <2>3, ServerAdds
  <2> QED
    BY <1>2, <2>2, <2>4, ServerEndsLast
<1>7. CASE ServerFinalEarly
  <2>1. ss' = ss /\ sq' = sq /\ ss \notin EarlyStates
    BY <1>3, <1>7 DEF ServerFinalEarly, control, ss, sq, EarlyStates
  <2> QED
    BY <1>2, <2>1, ServerEndsEarly
<1>8. CASE ServerFinalUnexpected
  <2>1. sq' = sq
    BY <1>8 DEF ServerFinalUnexpected, sq
  <2>2. CASE sessionClosed[Server]
    <3>1. ss' = ss
      BY <1>8, <2>2 DEF ServerFinalUnexpected, AbortInMessage, control, ss
    <3>2. ss \in {"SYNC_FINISHED"} \cup ErrorStates
      BY <1>1, <2>2 DEF EndsOnce, ss
    <3>3. ss \notin EarlyStates
      BY <3>2 DEF EarlyStates, ErrorStates
    <3> QED
      BY <1>2, <2>1, <3>1, <3>3, ServerEndsEarly
  <2>3. CASE ~sessionClosed[Server]
    <3>1. ss # "SYNC_FINISHED"
      BY <2>3 DEF Ordered, SavedFirst, closed
    <3>2. ss' = LastError(Server)
      BY <1>1, <1>8, <2>3 DEF ServerFinalUnexpected, AbortInMessage, ss, TypeOK
    <3>3. ss' \in ErrorStates
      BY <3>1, <3>2 DEF LastError, ErrorStates, ss
    <3>4. /\ SameClient /\ LessComing /\ (lastC' <=> lastC) /\ ss # "NOT_PREPARED"
      BY <1>2 DEF ServerAtEnd, LessComing
    <3> QED
      BY <1>2, <2>1, <3>1, <3>3, <3>4, ServerLeaves
  <2> QED
    BY <2>2, <2>3
<1> QED
  BY <1>4, <1>5, <1>6, <1>7, <1>8 DEF HandleServerFinal

LEMMA ServerMessageOrdered ==
    ASSUME TypeOK, EndsOnce, Turns, Awake, Ordered, EndOfServerMessage
    PROVE  Ordered'
<1>1. /\ Client \in Party /\ Server \in Party /\ Client # Server
      /\ Other(Client) = Server /\ Other(Server) = Client
      /\ \A p \in Party : p = Client \/ p = Server
  BY TwoParties
<1>2. /\ AtEndOfMessage(Server) /\ MessageHandled(Server)
      /\ SameConfig /\ syncWithoutInit' = syncWithoutInit
  BY DEF EndOfServerMessage, SameConfig
<1>3. /\ \A q \in Party : net[q] = <<>> /\ incoming[q] = <<>> /\ parsed[q] = <<>>
      /\ ~processing[Client] /\ processing[Server]
      /\ Coming(Server) = {<<>>} /\ Coming(Client) = {}
      /\ ~LastIn(Server) /\ ~LastIn(Client)
  BY <1>1, <1>2, Alone DEF AtEndOfMessage
<1>4. \A q \in Party : ~processing'[q]
  BY <1>1, <1>2, <1>3 DEF MessageHandled, TypeOK
\* A message that is sent
<1>5. ASSUME NEW s \in Sendable(Server), Generate(Server, s.k, s.cut),
             Receive(Server) \/ UNCHANGED <<armed, incoming, parsed>>,
             NEW m, m = Top(Server, s.k) \o s.cut.written
      PROVE  /\ toS = {<<>>} /\ toS' = {} /\ toC = {} /\ toC' = {m}
             /\ ~lastC /\ ~lastC' /\ ~lastS /\ ~lastS'
  <2>1. s.k \in 0..Len(statuses[Server]) /\ s.cut.written \in Seq(Package)
    BY <1>1, SendableType
  <2>2. /\ Coming(Server)' = {} /\ Coming(Client)' = {Top(Server, s.k) \o s.cut.written}
        /\ \A q \in Party : ~LastIn(q)'
    <3>1. PICK k, cut : k = s.k /\ cut = s.cut
      OBVIOUS
    <3>2. /\ k \in 0..Len(statuses[Server]) /\ cut.written \in Seq(Package)
          /\ Generate(Server, k, cut)
          /\ Receive(Server) \/ UNCHANGED <<armed, incoming, parsed>>
      BY <1>5, <2>1, <3>1
    <3>3. /\ Coming(Server)' = {} /\ Coming(Client)' = {Top(Server, k) \o cut.written}
          /\ \A q \in Party : ~LastIn(q)'
      <4>1. /\ \A q \in Party : net[q] = <<>> /\ incoming[q] = <<>> /\ parsed[q] = <<>>
            /\ \A q \in Party : ~processing'[q]
        BY <1>3, <1>4
      <4>2. /\ Coming(Server)' = {} /\ Coming(Other(Server))' = {Top(Server, k) \o cut.written}
            /\ \A q \in Party : ~LastIn(q)'
        BY <1>1, <3>2, <4>1, SentView
      <4>3. Other(Server) = Client
        BY <1>1
      <4> QED
        BY <4>2, <4>3
    <3> QED
      BY <3>1, <3>3
  <2> QED
    BY <1>1, <1>3, <1>5, <2>2 DEF toC, toS, lastC, lastS
<1>6. CASE ServerAnswers /\ SendAndReceive(Server) /\ UNCHANGED <<control, targets, changeLog>>
  <2>1. PICK s \in Sendable(Server) : /\ Generate(Server, s.k, s.cut)
                                      /\ packages' = [packages EXCEPT ![Server] = s.cut.left]
    BY <1>6 DEF SendAndReceive
  <2>2. PICK m : m = Top(Server, s.k) \o s.cut.written
    OBVIOUS
  <2>3. /\ toS = {<<>>} /\ toS' = {} /\ toC = {} /\ toC' = {m}
        /\ ~lastC /\ ~lastC' /\ ~lastS /\ ~lastS'
    BY <1>5, <1>6, <2>1, <2>2 DEF SendAndReceive
  <2>4. sq' = s.cut.left /\ packages'[Client] = packages[Client]
    BY <1>1, <2>1 DEF sq, TypeOK
  <2>5. SameClient
    BY <1>2, <1>6, <2>4, ClientUntouched DEF control
  <2>6. \A kind \in {"Sync", "Final", "PutGet"} : Has(m, kind) \/ Has(sq', kind) => Has(sq, kind)
    BY <1>1, <2>1, <2>2, <2>4, AnswerShows DEF sq
  <2>7. FinalIsLast(sq) => FinalIsLast(sq') /\ (Has(m, "Final") => sq' = <<>>)
    BY <1>1, <2>1, <2>2, <2>4, AnswerShows DEF sq
  <2>8. \A w : WarnedAll(w, sq) => WarnedAll(w, m) /\ (WarnedAll(w, sq') \/ Warning(w, m))
    BY <1>1, <2>1, <2>2, <2>4, AnswerShows DEF sq
  <2>9. NoAlerts(sq) => NoAlerts(m) /\ NoAlerts(sq')
    BY <1>1, <2>1, <2>2, <2>4, AnswerShows DEF sq
  <2>10. /\ ss' = ss /\ (Reverts' <=> Reverts) /\ (closed' <=> closed)
         /\ ss \in InitStates \cup {"RECEIVING_ITEMS", "SENDING_ITEMS", "RECEIVING_MAPPINGS"}
    BY <1>6 DEF ServerAnswers, ss, control, Reverts, closed
  <2> QED
    BY <1>2, <2>3, <2>5, <2>6, <2>7, <2>8, <2>9, <2>10, ServerAnswersMessage
<1>7. CASE SendLast
  <2>1. PICK s \in Sendable(Server) :
            /\ Generate(Server, s.k, s.cut)
            /\ IF s.cut.left = <<>>
               THEN FinishSync(Server)
               ELSE /\ packages' = [packages EXCEPT ![Server] = s.cut.left]
                    /\ UNCHANGED <<control, targets, changeLog>>
    BY <1>7 DEF SendLast
  <2>2. PICK m : m = Top(Server, s.k) \o s.cut.written
    OBVIOUS
  <2>3. /\ toS = {<<>>} /\ toS' = {} /\ toC = {} /\ toC' = {m}
        /\ ~lastC /\ ~lastC' /\ ~lastS /\ ~lastS'
    BY <1>5, <1>7, <2>1, <2>2 DEF SendLast
  <2>4. ss = "FINALIZING" /\ ~sessionClosed[Server]
    BY <1>1, <1>7 DEF SendLast, ss, EndsOnce, ErrorStates
  <2>5. /\ \/ ss' = "FINALIZING" /\ sq' # <<>> /\ (closed' <=> closed)
           \/ ss' = "SYNC_FINISHED" /\ sq' = <<>> /\ closed'
        /\ sq' = s.cut.left
        /\ packages'[Client] = packages[Client] /\ syncState'[Client] = syncState[Client]
    <3>1. CASE s.cut.left = <<>>
      BY <1>1, <2>1, <2>4, <3>1 DEF FinishSync, ExitSync, TypeOK, ss, sq, closed
    <3>2. CASE s.cut.left # <<>>
      BY <1>1, <2>1, <2>4, <3>2 DEF control, TypeOK, ss, sq, closed
    <3> QED
      BY <3>1, <3>2
  <2>6. SameClient
    BY <1>2, <2>5, ClientUntouched
  <2>7. \A kind \in {"Sync", "Final", "PutGet"} : Has(m, kind) \/ Has(sq', kind) => Has(sq, kind)
    BY <1>1, <2>1, <2>2, <2>5, AnswerShows DEF sq
  <2>8. FinalIsLast(sq) => FinalIsLast(sq') /\ (Has(m, "Final") => sq' = <<>>)
    BY <1>1, <2>1, <2>2, <2>5, AnswerShows DEF sq
  <2> QED
    BY <1>2, <2>3, <2>4, <2>5, <2>6, <2>7, <2>8, ServerSendsLast
<1>8. CASE EndIdle(Server)
  <2>1. LessComing /\ ~lastC /\ ~lastC' /\ ~lastS /\ ~lastS'
    <3>1. UNCHANGED link
      BY <1>8 DEF EndIdle
    <3>2. /\ Coming(Client)' = {} /\ Coming(Server)' = {}
          /\ ~LastIn(Client)' /\ ~LastIn(Server)'
      BY <1>1, <1>2, <3>1, IdleView
    <3> QED
      BY <1>3, <3>2 DEF LessComing, toC, toS, lastC, lastS
  <2>2. syncState' = syncState
    BY <1>8 DEF EndIdle
  <2>3. CASE UNCHANGED <<sessionClosed, packages, targets>>
    <3>1. SameServer /\ SameClient
      BY <1>2, <2>2, <2>3, ServerUntouched, ClientUntouched
    <3> QED
      BY <1>2, <2>1, <3>1, QuietKeeps DEF SameEnds
  <2>4. CASE syncFinished[Server] /\ ~sessionClosed[Server]
    <3>1. /\ sq' = <<>> /\ ss' = ss /\ packages'[Client] = packages[Client]
      BY <1>1, <1>8, <2>2, <2>4 DEF EndIdle, ExitSync, TypeOK, ss, sq
    <3>2. SameClient
      BY <1>2, <2>2, <3>1, ClientUntouched
    <3>3. ss \in {"SYNC_FINISHED"} \cup ErrorStates
      BY <1>1, <2>4 DEF EndsOnce, ss
    <3>4. ss # "NOT_PREPARED"
      BY <3>3 DEF ErrorStates
    <3>5. ss # "SYNC_FINISHED"
      BY <2>4 DEF Ordered, SavedFirst, closed
    <3> QED
      BY <1>2, <2>1, <3>1, <3>2, <3>3, <3>4, <3>5, ServerLeaves
  <2> QED
    BY <1>8, <2>3, <2>4 DEF EndIdle, ExitSync
<1> QED
  BY <1>6, <1>7, <1>8 DEF EndOfServerMessage

-----------------------------------------------------------------------------
(***************************************************************************)
(* The order is kept by all steps, in a session whose first package is     *)
(* whole and whose client does not omit its last one.                      *)
(***************************************************************************)
LEMMA InitOrdered == Init => Ordered /\ Awake
<1> SUFFICES ASSUME Init PROVE Ordered /\ Awake
  OBVIOUS
<1>1. /\ Client \in Party /\ Server \in Party /\ Client # Server
      /\ \A p \in Party : p = Client \/ p = Server
  BY TwoParties
<1>2. /\ \A p \in Party : /\ syncState[p] = "NOT_PREPARED" /\ packages[p] = <<>>
                          /\ targets[p] = <<>> /\ ~processing[p] /\ ~last[p]
                          /\ net[p] = <<>> /\ incoming[p] = <<>> /\ parsed[p] = <<>>
  BY DEF Init
<1>3. /\ cs = "NOT_PREPARED" /\ ss = "NOT_PREPARED" /\ cq = <<>> /\ sq = <<>>
      /\ ~lastC /\ ~lastS /\ ~Reverts
  <2>1. <<>> \in Seq(Target) /\ Len(<<>>) = 0 /\ DOMAIN <<>> = {}
    BY EmptySeq, LenProperties
  <2> QED
    BY <1>1, <1>2, <2>1 DEF cs, ss, cq, sq, lastC, lastS, LastIn, Reverts
<1>4. toC = {} /\ toS = {}
  BY <1>1, <1>2, RangeOf DEF toC, toS, Coming
<1>5. ~Has(sq, "Sync") /\ ~Has(sq, "Final") /\ ~Has(sq, "PutGet") /\ FinalIsLast(sq)
      /\ NoAlerts(sq) /\ ~Has(cq, "Sync") /\ ~Has(cq, "PutGet") /\ DevInfAhead(cq)
  <2>1. sq = <<>> /\ cq = <<>>
    BY <1>3
  <2> QED
    BY <2>1, EmptyShows
<1>6. Unprepared /\ Preparing /\ NoSyncYet /\ NoFinalYet /\ OneFinal /\ MappingsSent
  BY <1>3, <1>4, <1>5 DEF Unprepared, Preparing, NoSyncYet, NoFinalYet, OneFinal, MappingsSent
<1>7. Finalized /\ ItemsSent /\ SavedFirst /\ Initialized /\ FirstTaken /\ ChangesCut
  BY <1>3, <1>4, <1>5 DEF Finalized, ItemsSent, SavedFirst, Initialized, FirstTaken, ChangesCut
<1>8. DevInfFirst /\ Alerted
  BY <1>3, <1>4, <1>5 DEF DevInfFirst, Alerted
<1> QED
  BY <1>2, <1>6, <1>7, <1>8 DEF Ordered, Awake

\* No message is processed by a session that is not prepared
LEMMA NextAwake ==
    ASSUME TypeOK, Awake, [Next]_vars
    PROVE  Awake'
<1>1. CASE UNCHANGED vars
  BY <1>1 DEF vars, Awake
<1>2. CASE Next
  <2>1. StaysStarted
    BY <1>2, NextStaysStarted
  <2>2. CASE \A p \in Party : processing'[p] => processing[p]
    BY <2>1, <2>2 DEF Awake, StaysStarted
  <2>3. ASSUME NEW p \in Party, BeginMessage(p) \/ ServeRequest(p)
        PROVE  Awake'
    <3>1. /\ syncState'[p] # "NOT_PREPARED"
          /\ \A q \in Party \ {p} : syncState'[q] = syncState[q] /\ processing'[q] = processing[q]
      BY <2>3 DEF BeginMessage, ServeRequest, TakeMessage, SetSyncState, control, TypeOK
    <3> QED
      BY <3>1 DEF Awake
  <2>4. ASSUME NEW p \in Party, Process(p) \/ Deliver(p)
        PROVE  Awake'
    <3>1. CASE BeginMessage(p) \/ ServeRequest(p)
      BY <2>3, <3>1
    <3>2. CASE processing' = processing
      BY <2>2, <3>2
    <3> QED
      BY <2>4, <3>1, <3>2 DEF Process, Deliver, HandleHeader, HandleStatus, HandleDevInf,
         HandleResults, HandleNextMessageAlert, HandleFinalElement, Consume, reading
  <2>5. CASE ClientStep
    <3>1. processing' = processing \/ MessageHandled(Client)
      BY <2>5 DEF ClientStep, InitiateClientSync, HandleClientAlert, HandleClientSync,
         HandleClientFinal, EndOfClientMessage, Consume, FinalHandled, reading
    <3> QED
      BY <2>2, <3>1, TwoParties DEF MessageHandled, TypeOK
  <2>6. CASE ServerStep
    <3>1. processing' = processing \/ MessageHandled(Server)
      BY <2>6 DEF ServerStep, InitiateServerSync, HandleServerAlert, HandleServerSync,
         HandleServerMap, HandleServerFinal, EndOfServerMessage, Consume, FinalHandled, reading
    <3> QED
      BY <2>2, <3>1, TwoParties DEF MessageHandled, TypeOK
  <2>7. CASE Environment
    <3>1. processing' = processing
      BY <2>7 DEF Environment, LoseMessage, GarbledMessage, UserAbort, SetTransportStatus,
         StartupFailure, reading
    <3> QED
      BY <2>2, <3>1
  <2> QED
    BY <1>2, <2>4, <2>5, <2>6, <2>7 DEF Next, Progress
<1> QED
  BY <1>1, <1>2

LEMMA NextOrdered ==
    ASSUME TypeOK, EndsOnce, Turns, Awake, Ordered, FirstPackageWhole, ~cfg.omit, [Next]_vars
    PROVE  Ordered'
<1>1. CASE UNCHANGED vars
  <2>1. /\ UNCHANGED <<cfg, syncState, packages, targets, sessionClosed, syncWithoutInit>>
        /\ UNCHANGED <<reading, link>>
    BY <1>1 DEF vars, reading, link
  <2>2. LessComing /\ SameEnds
    BY <2>1, QuietView
  <2>3. SameClient /\ SameServer /\ SameConfig
    BY <2>1, ClientUntouched, ServerUntouched DEF SameConfig
  <2> QED
    BY <2>2, <2>3, QuietKeeps
<1>2. ASSUME NEW p \in Party, Deliver(p)
      PROVE  Ordered'
  BY <1>2, LeaveOrdered
<1>3. ASSUME NEW p \in Party, Process(p)
      PROVE  Ordered'
  <2>1. CASE BeginMessage(p) \/ ServeRequest(p)
    BY <2>1, BeginOrdered, ServeOrdered
  <2>2. CASE HandleHeader(p) \/ HandleStatus(p) \/ HandleResults(p) \/ HandleNextMessageAlert(p)
    BY <2>2, TwoParties, ClientFragmentOrdered, ServerFragmentOrdered
  <2>3. CASE HandleDevInf(p)
    BY <2>3, TwoParties, ClientDevInfOrdered, ServerDevInfOrdered
  <2>4. CASE HandleFinalElement(p)
    BY <2>4, TwoParties, ClientFinalElementOrdered, ServerFinalElementOrdered
  <2> QED
    BY <1>3, <2>1, <2>2, <2>3, <2>4 DEF Process
<1>4. CASE ClientStep
  BY <1>4, InitiateClientOrdered, ClientAlertOrdered, ClientSyncOrdered, ClientFinalOrdered,
     ClientMessageOrdered DEF ClientStep
<1>5. CASE ServerStep
  BY <1>5, InitiateServerOrdered, ServerAlertOrdered, ServerSyncOrdered, ServerMapOrdered,
     ServerFinalOrdered, ServerMessageOrdered DEF ServerStep
<1>6. CASE Environment
  BY <1>6, EnvironmentOrdered
<1> QED
  BY <1>1, <1>2, <1>3, <1>4, <1>5, <1>6 DEF Next, Progress

\* What the order and EndsOnce say of the two change logs
LEMMA OrderedSaves ==
    ASSUME TypeOK, EndsOnce, Ordered, IsSaved(Client)
    PROVE  IsSaved(Server)
<1>1. /\ Client \in Party /\ Server \in Party
      /\ changeLog[Client] \in Seq(Seq(Target))
  BY TwoParties DEF TypeOK
<1>2. Len(changeLog[Client]) # 0
  BY <1>1, EmptySeq DEF IsSaved
<1>3. cs = "SYNC_FINISHED"
  BY <1>1, <1>2 DEF EndsOnce, cs
<1>4. ss = "SYNC_FINISHED" /\ sessionClosed[Server]
  BY <1>3 DEF Ordered, SavedFirst, closed
<1>5. Len(changeLog[Server]) = 1
  BY <1>1, <1>4 DEF EndsOnce, ss
<1>6. Len(<<>>) = 0
  BY EmptySeq
<1> QED
  BY <1>5, <1>6 DEF IsSaved

\* In every behaviour, with every fault: once the client has saved the session,
\* and with it moved its anchors, the server has saved it too, unless the first
\* package was cut or the client omits its last one
OrderKept == Awake /\ ((FirstPackageWhole /\ ~cfg.omit) => Ordered)

THEOREM ClientLast == Spec => []ClientSavesLast
<1>1. Init => Turns /\ OrderKept
  BY InitTurns, InitOrdered DEF OrderKept
<1>2. TypeOK /\ TypeOK' /\ Turns /\ [Next]_vars => Turns'
  BY NextTurns
<1>3. TypeOK /\ EndsOnce /\ Turns /\ OrderKept /\ [Next]_vars => OrderKept'
  <2> SUFFICES ASSUME TypeOK, EndsOnce, Turns, OrderKept, [Next]_vars
               PROVE  OrderKept'
    OBVIOUS
  <2>1. Awake'
    BY NextAwake DEF OrderKept
  <2>2. SameConfig /\ (FirstPackageWhole' <=> FirstPackageWhole)
    BY NextKeepsConfiguration, ConfigKept DEF SameConfig
  <2>3. (FirstPackageWhole /\ ~cfg.omit) => Ordered'
    BY NextOrdered DEF OrderKept
  <2> QED
    BY <2>1, <2>2, <2>3 DEF OrderKept, SameConfig
<1>4. TypeOK /\ EndsOnce /\ OrderKept => ClientSavesLast
  BY OrderedSaves DEF OrderKept, ClientSavesLast
<1> QED
  BY <1>1, <1>2, <1>3, <1>4, TypeCorrect, EndsInOrder, PTL DEF Spec

=============================================================================
