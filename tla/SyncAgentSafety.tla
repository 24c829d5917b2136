--------------------------- MODULE SyncAgentSafety ---------------------------
(***************************************************************************)
(* Every operation of an agent has one end that its application is told    *)
(* of, and a message that a server keeps for its client is fetched or      *)
(* dropped: for any configuration, any schedule of the two threads of a    *)
(* device and anything the link does.                                      *)
(***************************************************************************)
EXTENDS SyncAgentProps, SequenceLemmas, FiniteSetTheorems

-----------------------------------------------------------------------------
(***************************************************************************)
(* What stays of a queue                                                   *)
(***************************************************************************)
LEMMA KeptIs ==
    ASSUME NEW q, IsSeq(q), NEW dropped
    PROVE  /\ IsSeq(Kept(q, dropped))
           /\ \A e \in Range(Kept(q, dropped)) : e \in Range(q) /\ e.name \notin dropped
<1> DEFINE n == Len(q)
           kept == {i \in DOMAIN q : q[i].name \notin dropped}
           Below(m) == {j \in kept : j <= m}
           Rank(m) == Cardinality(Below(m))
           result == Kept(q, dropped)
<1>1. n \in Nat /\ DOMAIN q = 1 .. n /\ \A i \in 1 .. n : q[i] \in Range(q)
  BY SeqIs
<1>2. kept \subseteq 1 .. n
  BY <1>1
<1>3. IsFiniteSet(1 .. n)
  BY <1>1, FS_Interval
<1>4. IsFiniteSet(kept) /\ Cardinality(kept) \in Nat
  BY <1>2, <1>3, FS_Subset, FS_CardinalityType
<1>5. result = [k \in 1 .. Cardinality(kept) |-> q[CHOOSE i \in kept : Rank(i) = k]]
  BY DEF Kept
<1>6. \A i \in kept : i \in 1 .. n /\ q[i] \in Range(q) /\ q[i].name \notin dropped
  BY <1>1
<1> HIDE DEF kept
<1>7. \A j \in kept : j \in Int /\ 1 <= j /\ j <= n
  BY <1>1, <1>2
<1>8. \A m : IsFiniteSet(Below(m)) /\ Rank(m) \in Nat
  <2> SUFFICES ASSUME NEW m PROVE IsFiniteSet(Below(m)) /\ Rank(m) \in Nat
    OBVIOUS
  <2>1. Below(m) \subseteq kept
    OBVIOUS
  <2> HIDE DEF Below
  <2> QED
    BY <1>4, <2>1, FS_Subset, FS_CardinalityType
<1>9. \A k \in 1 .. Cardinality(kept) : \E i \in kept : Rank(i) = k
  <2> SUFFICES ASSUME NEW k \in 1 .. Cardinality(kept) PROVE \E i \in kept : Rank(i) = k
    OBVIOUS
  <2> DEFINE P == {m \in 0 .. n : Rank(m) < k}
             Q == {m + 1 : m \in P}
             last == Max(Q) - 1
  <2>1. Rank(0) = 0
    <3>1. Below(0) = {}
      BY <1>7
    <3> HIDE DEF Below
    <3> QED
      BY <3>1, FS_EmptySet
  <2>2. Rank(n) = Cardinality(kept)
    <3>1. Below(n) = kept
      BY <1>7
    <3> HIDE DEF Below
    <3> QED
      BY <3>1
  <2> HIDE DEF Rank
  <2>3. 0 \in P /\ n \notin P
    BY <1>1, <1>4, <2>1, <2>2
  <2>4. Q \subseteq 1 .. n + 1 /\ Q # {} /\ n + 1 \in Nat
    BY <1>1, <2>3
  <2> HIDE DEF Q
  <2>5. Max(Q) \in Q /\ \A i \in Q : i <= Max(Q)
    BY <2>4, LastPlace
  <2>6. PICK m \in P : m + 1 = Max(Q)
    BY <2>5 DEF Q
  <2>7. m \in Nat /\ m < n /\ Rank(m) < k /\ m + 1 \in 0 .. n
    BY <1>1, <2>3, <2>6
  <2>8. m + 1 \notin P
    <3> SUFFICES ASSUME m + 1 \in P PROVE FALSE
      OBVIOUS
    <3>1. (m + 1) + 1 \in Q
      BY DEF Q
    <3> QED
      BY <2>5, <2>6, <2>7, <3>1
  <2>9. ~(Rank(m + 1) < k)
    BY <2>7, <2>8
  <2>10. CASE m + 1 \in kept
    <3>1. Below(m + 1) = Below(m) \cup {m + 1} /\ m + 1 \notin Below(m)
      <4>1. \A j \in kept : j <= m + 1 <=> j <= m \/ j = m + 1
        BY <1>7, <2>7
      <4>2. ~(m + 1 <= m)
        BY <2>7
      <4> QED
        BY <2>10, <4>1, <4>2
    <3> HIDE DEF Below
    <3>2. Rank(m + 1) = Rank(m) + 1
      BY <1>8, <3>1, FS_AddElement DEF Rank
    <3>3. Rank(m) \in Nat
      BY <1>8 DEF Rank
    <3> QED
      BY <1>4, <2>7, <2>9, <2>10, <3>2, <3>3
  <2>11. CASE m + 1 \notin kept
    <3>1. Below(m + 1) = Below(m)
      <4>1. \A j \in kept : j <= m + 1 <=> j <= m \/ j = m + 1
        BY <1>7, <2>7
      <4> QED
        BY <2>11, <4>1
    <3> QED
      BY <2>7, <2>9, <3>1 DEF Rank
  <2> QED
    BY <2>10, <2>11
<1> DEFINE count == Cardinality(kept)
<1> HIDE DEF Rank, result, n
<1>10. \A k \in 1 .. count : result[k] \in Range(q) /\ result[k].name \notin dropped
  BY <1>5, <1>6, <1>9
<1>11. count \in Nat
  BY <1>4
<1> HIDE DEF count
<1>12. result = [k \in 1 .. count |-> result[k]]
  BY <1>5 DEF count
<1>13. IsSeq(result) /\ Len(result) = count
  BY <1>11, <1>12, FunIs
<1> QED
  BY <1>10, <1>13, SeqIs DEF result


-----------------------------------------------------------------------------
(***************************************************************************)
(* The inductive invariant, of one device: its worker, what its main       *)
(* thread has still to do, its queue, its session, whether it listens,     *)
(* and what was asked of it and told.                                      *)
(***************************************************************************)
WorkerHas  == {"thread", "mailbox", "job", "connected", "pending", "of"}
SessionHas == {"state", "turn", "of", "outcome"}

Awaits(m) == m # <<>> /\ Head(m).do = "await"

\* A job that is waited for is the last of its worker, and the main thread is at
\* the step that its end takes away
Fits(w, m) ==
    /\ WorkerHas \subseteq DOMAIN w /\ IsSeq(w.mailbox)
    /\ \A i \in 1 .. Len(w.mailbox) :
           w.mailbox[i].name \in Blocking => i = Len(w.mailbox) /\ Awaits(m)
    /\ w.job \in Blocking =>
           Awaits(m) /\ \A i \in 1 .. Len(w.mailbox) : w.mailbox[i].name \notin Blocking

\* The end of a session is reported by the last step of an event
Program(m) == IsSeq(m) /\ \A i \in 1 .. Len(m) : m[i].do = "report" => i = Len(m)
Reports(m) == \E s \in Range(m) : s.do = "report"
Deletes(m) == \E s \in Range(m) : s.do = "delete"

\* One such report is under way at a time
Events(q) ==
    /\ IsSeq(q)
    /\ \A i, j \in 1 .. Len(q) :
           q[i].name = "syncFinished" /\ q[j].name = "syncFinished" => i = j
Ends(q) == \E e \in Range(q) : e.name = "syncFinished"

\* The events that would bring a session to life or to its end
Vital == {"syncFinished", "initiateSync", "suspendSync"}

Engaged(s, l) == s.state # "none" \/ l

Fine(w, m, q, s, l, a, t) ==
    /\ Fits(w, m) /\ Program(m) /\ Events(q) /\ SessionHas \subseteq DOMAIN s
    /\ a \in Nat /\ t \in Nat
    /\ ~(Reports(m) /\ Ends(q))
    /\ s.state = "closed" <=> Reports(m) \/ Ends(q)
    /\ s.state = "none" => \A e \in Range(q) : e.name \notin Vital
    /\ s.state # "none" => ~l /\ ~Deletes(m)
    /\ a = t + (IF Engaged(s, l) THEN 1 ELSE 0)

FineAt(d) ==
    Fine(worker[d], main[d], queue[d], session[d], listening[d], asked[d], told[d])

OverDevices(f) == DOMAIN f = Devices
TypeOK ==
    /\ OverDevices(worker) /\ OverDevices(main) /\ OverDevices(queue)
    /\ OverDevices(session) /\ OverDevices(listening) /\ OverDevices(asked)
    /\ OverDevices(told)

IInv == TypeOK /\ \A d \in Devices : FineAt(d)


-----------------------------------------------------------------------------
(***************************************************************************)
(* A step of one device                                                    *)
(***************************************************************************)
Same(f, g, d) == DOMAIN g = DOMAIN f /\ \A e \in Devices : e # d => g[e] = f[e]

LEMMA SetAt ==
    ASSUME NEW f, OverDevices(f), NEW d \in Devices, NEW x, NEW g, g = [f EXCEPT ![d] = x]
    PROVE  Same(f, g, d) /\ g[d] = x
BY DEF Same, OverDevices

LEMMA NotSet ==
    ASSUME NEW f, NEW g, g = f, NEW d
    PROVE  Same(f, g, d) /\ g[d] = f[d]
BY DEF Same

LEMMA OneDevice ==
    ASSUME IInv, NEW d \in Devices,
           Same(worker, worker', d), Same(main, main', d), Same(queue, queue', d),
           Same(session, session', d), Same(listening, listening', d),
           Same(asked, asked', d), Same(told, told', d),
           Fine(worker'[d], main'[d], queue'[d], session'[d], listening'[d], asked'[d], told'[d])
    PROVE  IInv'
<1>1. TypeOK'
  BY DEF IInv, TypeOK, OverDevices, Same
<1>2. ASSUME NEW e \in Devices PROVE FineAt(e)'
  <2>1. CASE e = d
    BY <2>1 DEF FineAt
  <2>2. CASE e # d
    <3>1. /\ worker'[e] = worker[e] /\ main'[e] = main[e] /\ queue'[e] = queue[e]
          /\ session'[e] = session[e] /\ listening'[e] = listening[e]
          /\ asked'[e] = asked[e] /\ told'[e] = told[e]
      BY <2>2 DEF Same
    <3>2. FineAt(e)
      BY DEF IInv
    <3> QED
      BY <3>1, <3>2 DEF FineAt
  <2> QED
    BY <2>1, <2>2
<1> QED
  BY <1>1, <1>2 DEF IInv

\* The steps of a main thread that are neither the report nor the deletion
LEMMA ThenIs ==
    ASSUME NEW m, Program(m), m # <<>>, Head(m).do # "report", NEW steps, IsSeq(steps),
           \A s \in Range(steps) : s.do \notin {"report", "delete"}
    PROVE  /\ Program(steps \o Tail(m)) /\ (Reports(steps \o Tail(m)) <=> Reports(m))
           /\ Deletes(steps \o Tail(m)) => Deletes(m)
           /\ steps = <<>> => steps \o Tail(m) = Tail(m)
<1> DEFINE t == Tail(m)
           a == Len(steps)
           b == Len(t)
           all == steps \o t
<1>1. /\ IsSeq(t) /\ b \in Nat /\ Len(m) = b + 1 /\ Range(m) = {Head(m)} \cup Range(t)
      /\ \A i \in 1 .. b : i + 1 \in 1 .. Len(m) /\ t[i] = m[i + 1]
  BY TailIs DEF Program
<1>2. /\ IsSeq(all) /\ Range(all) = Range(steps) \cup Range(t) /\ Len(all) = a + b
      /\ \A i \in 1 .. a : all[i] = steps[i]
      /\ \A i \in 1 .. b : all[a + i] = t[i]
  BY <1>1, JoinIs
<1>3. a \in Nat /\ \A i \in 1 .. a : steps[i].do # "report"
  BY SeqIs
<1>4. steps = <<>> => all = t
  BY <1>1, ConcatEmptySeq DEF IsSeq
<1> HIDE DEF t, a, b, all
<1>5. \A i \in 1 .. a + b : all[i].do = "report" => i = a + b
  <2> SUFFICES ASSUME NEW i \in 1 .. a + b, all[i].do = "report" PROVE i = a + b
    OBVIOUS
  <2>1. i \notin 1 .. a
    BY <1>2, <1>3
  <2> DEFINE k == i - a
  <2>2. k \in 1 .. b /\ a + k = i
    BY <1>1, <1>3, <2>1
  <2> HIDE DEF k
  <2>3. k + 1 \in 1 .. Len(m) /\ m[k + 1].do = "report"
    BY <1>1, <1>2, <2>2
  <2>4. k + 1 = Len(m)
    BY <2>3 DEF Program
  <2> QED
    BY <1>1, <2>2, <2>4
<1>6. Program(all)
  BY <1>2, <1>5 DEF Program
<1>7. Reports(all) <=> Reports(m)
  BY <1>1, <1>2 DEF Reports
<1>8. Deletes(all) => Deletes(m)
  BY <1>1, <1>2 DEF Deletes
<1> QED
  BY <1>4, <1>6, <1>7, <1>8 DEF all, t

LEMMA NextIs ==
    ASSUME NEW m, Program(m), m # <<>>, Head(m).do # "report"
    PROVE  /\ Program(Tail(m)) /\ (Reports(Tail(m)) <=> Reports(m))
           /\ Deletes(Tail(m)) => Deletes(m)
<1> DEFINE e == <<>>
<1>1. IsSeq(e) /\ Range(e) = {} /\ e = <<>>
  BY EmptyIs
<1> HIDE DEF e
<1>2. /\ Program(e \o Tail(m)) /\ (Reports(e \o Tail(m)) <=> Reports(m))
      /\ Deletes(e \o Tail(m)) => Deletes(m)
      /\ e \o Tail(m) = Tail(m)
  BY <1>1, ThenIs
<1> QED
  BY <1>2

\* The report is the last step of an event
LEMMA LastIs ==
    ASSUME NEW m, Program(m), m # <<>>, Head(m).do = "report"
    PROVE  Tail(m) = <<>>
<1> DEFINE t == Tail(m)
           S == Range(t)
<1>1. IsSeq(t) /\ Len(t) \in Nat /\ Len(m) = Len(t) + 1 /\ Head(m) = m[1]
  BY TailIs DEF Program
<1>2. t \in Seq(S)
  BY <1>1 DEF IsSeq
<1> HIDE DEF t, S
<1>3. 1 \in 1 .. Len(m) /\ m[1].do = "report"
  BY <1>1
<1>4. 1 = Len(m)
  BY <1>3 DEF Program
<1>5. Len(t) = 0
  BY <1>1, <1>4
<1>6. t = <<>>
  BY <1>2, <1>5, EmptySeq
<1> QED
  BY <1>6 DEF t

\* Jobs that are posted
LEMMA PostedFits ==
    ASSUME NEW w, NEW m, Fits(w, m), ~Awaits(m), NEW job, NEW n,
           job.name \in Blocking => Awaits(n)
    PROVE  Fits([w EXCEPT !.mailbox = Append(@, job)], n)
<1> DEFINE q == w.mailbox
           r == Append(q, job)
           x == [w EXCEPT !.mailbox = r]
<1>1. IsSeq(q) /\ w.job \notin Blocking /\ \A i \in 1 .. Len(q) : q[i].name \notin Blocking
  BY DEF Fits
<1>2. /\ IsSeq(r) /\ Len(r) = Len(q) + 1
      /\ \A k \in DOMAIN r : (k \in DOMAIN q /\ r[k] = q[k]) \/ (k = Len(q) + 1 /\ r[k] = job)
  BY <1>1, AppendIs
<1>3. DOMAIN r = 1 .. Len(r) /\ DOMAIN q = 1 .. Len(q)
  BY <1>1, <1>2, SeqIs
<1> HIDE DEF q, r
<1>4. DOMAIN x = DOMAIN w /\ x.mailbox = r /\ x.job = w.job
  BY DEF Fits, WorkerHas
<1>5. x = [w EXCEPT !.mailbox = Append(@, job)]
  BY DEF q, r
<1> HIDE DEF x
<1>6. Fits(x, n)
  BY <1>1, <1>2, <1>3, <1>4 DEF Fits
<1> QED
  BY <1>5, <1>6

\* The job that ends was the one that is waited for
LEMMA JobDone ==
    ASSUME NEW w, NEW m, Fits(w, m), NEW x, WorkerHas \subseteq DOMAIN x,
           x.mailbox = w.mailbox, x.job \notin Blocking,
           NEW n, w.job \notin Blocking => n = m
    PROVE  Fits(x, n)
BY DEF Fits

LEMMA HeadDone ==
    ASSUME NEW w, NEW m, Fits(w, m), w.mailbox # <<>>, NEW x, WorkerHas \subseteq DOMAIN x,
           x.mailbox = Tail(w.mailbox), w.job \notin Blocking,
           NEW n, Head(w.mailbox).name \notin Blocking => n = m,
           \/ x.job \notin Blocking
           \/ x.job = Head(w.mailbox).name /\ n = m
    PROVE  Fits(x, n) /\ (Head(w.mailbox).name \in Blocking => Awaits(m))
<1> DEFINE q == w.mailbox
           t == Tail(q)
<1>1. /\ IsSeq(t) /\ Len(t) \in Nat /\ Len(q) = Len(t) + 1 /\ Head(q) = q[1]
      /\ \A i \in 1 .. Len(t) : i + 1 \in 1 .. Len(q) /\ t[i] = q[i + 1]
  BY TailIs DEF Fits
<1>2. \A i \in 1 .. Len(q) : q[i].name \in Blocking => i = Len(q) /\ Awaits(m)
  BY DEF Fits
<1>3. x.mailbox = t /\ WorkerHas \subseteq DOMAIN x
  OBVIOUS
<1>4. 1 \in 1 .. Len(q)
  BY <1>1
<1> HIDE DEF t, q
<1>5. CASE Head(q).name \in Blocking
  <2>1. Len(t) = 0 /\ Awaits(m)
    BY <1>1, <1>2, <1>4, <1>5
  <2>2. \A i \in 1 .. Len(t) : FALSE
    BY <2>1
  <2> QED
    BY <1>1, <1>3, <1>5, <2>1, <2>2 DEF Fits, q
<1>6. CASE Head(q).name \notin Blocking
  <2>1. \A i \in 1 .. Len(t) : t[i].name \in Blocking => i = Len(t) /\ Awaits(m)
    BY <1>1, <1>2
  <2> QED
    BY <1>1, <1>3, <1>6, <2>1 DEF Fits, q
<1> QED
  BY <1>5, <1>6 DEF q


\* What a queue has of the events that matter
LEMMA AddedQueue ==
    ASSUME NEW q, Events(q), NEW more, IsSeq(more), \A e \in Range(more) : e.name # "syncFinished"
    PROVE  /\ Events(q \o more) /\ (Ends(q \o more) <=> Ends(q))
           /\ Range(q \o more) = Range(q) \cup Range(more)
<1> DEFINE a == Len(q)
           b == Len(more)
           all == q \o more
<1>1. /\ IsSeq(all) /\ Range(all) = Range(q) \cup Range(more) /\ Len(all) = a + b
      /\ \A i \in 1 .. a : all[i] = q[i]
      /\ \A i \in 1 .. b : all[a + i] = more[i]
  BY JoinIs DEF Events
<1>2. a \in Nat /\ b \in Nat /\ \A i \in 1 .. b : more[i].name # "syncFinished"
  BY SeqIs DEF Events
<1>3. \A i, j \in 1 .. a : q[i].name = "syncFinished" /\ q[j].name = "syncFinished" => i = j
  BY DEF Events
<1> HIDE DEF a, b, all
<1>5. \A i \in 1 .. a + b : all[i].name = "syncFinished" => i \in 1 .. a
  <2> SUFFICES ASSUME NEW i \in 1 .. a + b, i \notin 1 .. a PROVE all[i].name # "syncFinished"
    OBVIOUS
  <2> DEFINE k == i - a
  <2>1. k \in 1 .. b /\ a + k = i
    BY <1>2
  <2> HIDE DEF k
  <2> QED
    BY <1>1, <1>2, <2>1
<1>6. Events(all)
  BY <1>1, <1>3, <1>5 DEF Events
<1>7. Ends(all) <=> Ends(q)
  BY <1>1 DEF Ends
<1> QED
  BY <1>1, <1>6, <1>7 DEF all

LEMMA HandledQueue ==
    ASSUME NEW q, Events(q), q # <<>>
    PROVE  /\ Events(Tail(q)) /\ Range(Tail(q)) \subseteq Range(q) /\ Head(q) \in Range(q)
           /\ Head(q).name # "syncFinished" => (Ends(Tail(q)) <=> Ends(q))
           /\ Head(q).name = "syncFinished" => Ends(q) /\ ~Ends(Tail(q))
<1> DEFINE t == Tail(q)
<1>1. /\ IsSeq(t) /\ Len(t) \in Nat /\ Len(q) = Len(t) + 1
      /\ Head(q) = q[1] /\ Range(q) = {Head(q)} \cup Range(t)
      /\ \A i \in 1 .. Len(t) : i + 1 \in 1 .. Len(q) /\ t[i] = q[i + 1]
  BY TailIs DEF Events
<1>2. \A x \in Range(t) : \E i \in 1 .. Len(t) : t[i] = x
  BY <1>1, SeqIs
<1> HIDE DEF t
<1>3. Events(t)
  <2> SUFFICES ASSUME NEW i \in 1 .. Len(t), NEW j \in 1 .. Len(t),
                      t[i].name = "syncFinished", t[j].name = "syncFinished"
               PROVE  i = j
    BY <1>1 DEF Events
  <2>1. i + 1 = j + 1
    BY <1>1 DEF Events
  <2> QED
    BY <2>1
<1>4. Head(q).name = "syncFinished" => ~Ends(t)
  <2> SUFFICES ASSUME Head(q).name = "syncFinished", NEW i \in 1 .. Len(t),
                      t[i].name = "syncFinished"
               PROVE  FALSE
    BY <1>2 DEF Ends
  <2>1. 1 \in 1 .. Len(q) /\ q[1].name = "syncFinished"
    BY <1>1
  <2>2. i + 1 = 1
    BY <1>1, <2>1 DEF Events
  <2> QED
    BY <2>2
<1>5. Head(q).name = "syncFinished" => Ends(q)
  BY <1>1 DEF Ends
<1>6. Head(q).name # "syncFinished" => (Ends(t) <=> Ends(q))
  BY <1>1 DEF Ends
<1> QED
  BY <1>1, <1>3, <1>4, <1>5, <1>6 DEF t

LEMMA ReportedQueue ==
    ASSUME NEW q, Events(q), ~Ends(q), NEW e, e.name = "syncFinished"
    PROVE  Events(Append(q, e)) /\ Ends(Append(q, e))
<1> DEFINE r == Append(q, e)
<1>1. /\ IsSeq(r) /\ Len(r) = Len(q) + 1
      /\ \A k \in DOMAIN r : (k \in DOMAIN q /\ r[k] = q[k]) \/ (k = Len(q) + 1 /\ r[k] = e)
      /\ r = q \o <<e>>
  BY AppendIs DEF Events
<1>2. DOMAIN r = 1 .. Len(r) /\ DOMAIN q = 1 .. Len(q)
  BY <1>1, SeqIs DEF Events
<1>3. \A k \in 1 .. Len(q) : q[k].name # "syncFinished"
  BY SeqIs DEF Ends, Events
<1>4. Range(r) = Range(q) \cup {e}
  BY <1>1, OneIs, JoinIs DEF Events
<1> HIDE DEF r
<1>5. \A k \in 1 .. Len(r) : r[k].name = "syncFinished" => k = Len(q) + 1
  BY <1>1, <1>2, <1>3
<1>6. Events(r)
  BY <1>1, <1>5 DEF Events
<1>7. Ends(r)
  BY <1>4 DEF Ends
<1> QED
  BY <1>6, <1>7 DEF r

LEMMA KeptQueue ==
    ASSUME NEW q, Events(q), ~Ends(q), NEW dropped
    PROVE  /\ Events(Kept(q, dropped)) /\ ~Ends(Kept(q, dropped))
           /\ \A e \in Range(Kept(q, dropped)) : e \in Range(q) /\ e.name \notin dropped
<1> DEFINE r == Kept(q, dropped)
<1>1. IsSeq(r) /\ \A e \in Range(r) : e \in Range(q) /\ e.name \notin dropped
  BY KeptIs DEF Events
<1>2. \A e \in Range(r) : e.name # "syncFinished"
  BY <1>1 DEF Ends
<1>3. \A k \in 1 .. Len(r) : r[k].name # "syncFinished"
  BY <1>1, <1>2, SeqIs
<1> HIDE DEF r
<1> QED
  BY <1>1, <1>2, <1>3 DEF Events, Ends, r

-----------------------------------------------------------------------------
(***************************************************************************)
(* The workers, and the steps of a transport in its main thread            *)
(***************************************************************************)
Adds(q, r) ==
    \E more : IsSeq(more) /\ (\A e \in Range(more) : e.name \notin Vital) /\ r = q \o more

LEMMA AddsNone ==
    ASSUME NEW q, IsSeq(q)
    PROVE  Adds(q, q)
<1>1. IsSeq(<<>>) /\ Range(<<>>) = {}
  BY EmptyIs
<1>2. q = q \o <<>>
  BY ConcatEmptySeq DEF IsSeq
<1> QED
  BY <1>1, <1>2 DEF Adds

LEMMA AddsOne ==
    ASSUME NEW q, IsSeq(q), NEW e, e.name \notin Vital
    PROVE  Adds(q, Append(q, e))
<1>1. Append(q, e) = q \o <<e>>
  BY AppendIs
<1> QED
  BY <1>1, OneIs DEF Adds

lives == <<session, listening, asked, told>>

\* What concerns a worker, and not the agent
LEMMA Alike ==
    ASSUME NEW w, NEW m, NEW q, NEW s, NEW l, NEW a, NEW t, Fine(w, m, q, s, l, a, t),
           NEW x, NEW n, NEW r, Fits(x, n), Program(n), Reports(n) <=> Reports(m),
           Deletes(n) => Deletes(m), Adds(q, r)
    PROVE  Fine(x, n, r, s, l, a, t)
<1>1. PICK more : IsSeq(more) /\ (\A e \in Range(more) : e.name \notin Vital) /\ r = q \o more
  BY DEF Adds
<1>2. Events(q)
  BY DEF Fine
<1>3. Events(r) /\ (Ends(r) <=> Ends(q)) /\ Range(r) = Range(q) \cup Range(more)
  <2>1. \A e \in Range(more) : e.name # "syncFinished"
    BY <1>1 DEF Vital
  <2> QED
    BY <1>1, <1>2, <2>1, AddedQueue
<1>4. (\A e \in Range(q) : e.name \notin Vital) => \A e \in Range(r) : e.name \notin Vital
  BY <1>1, <1>3
<1> QED
  BY <1>3, <1>4 DEF Fine

LEMMA AlikeStep ==
    ASSUME IInv, UNCHANGED lives, NEW d \in Devices,
           Same(worker, worker', d), Same(main, main', d), Same(queue, queue', d),
           Fits(worker'[d], main'[d]), Program(main'[d]),
           Reports(main'[d]) <=> Reports(main[d]), Deletes(main'[d]) => Deletes(main[d]),
           Adds(queue[d], queue'[d])
    PROVE  IInv'
<1>1. Fine(worker[d], main[d], queue[d], session[d], listening[d], asked[d], told[d])
  BY DEF IInv, FineAt
<1>2. Fine(worker'[d], main'[d], queue'[d], session[d], listening[d], asked[d], told[d])
  BY <1>1, Alike
<1>3. session' = session /\ listening' = listening /\ asked' = asked /\ told' = told
  BY DEF lives
<1>4. /\ Same(session, session', d) /\ Same(listening, listening', d)
      /\ Same(asked, asked', d) /\ Same(told, told', d)
  BY <1>3 DEF Same
<1> QED
  BY <1>2, <1>3, <1>4, OneDevice

LEMMA EmitIs ==
    ASSUME IInv, NEW d \in Devices, NEW names, IsSeq(names),
           \A name \in Range(names) : name \notin Vital, Emit(d, names)
    PROVE  Same(queue, queue', d) /\ Adds(queue[d], queue'[d])
<1> DEFINE n == Len(names)
           more == [i \in 1 .. n |-> Event(d, names[i])]
<1>1. n \in Nat /\ \A i \in 1 .. n : names[i] \in Range(names)
  BY SeqIs
<1>2. \A name : Event(d, name).name = name
  BY DEF Event
<1> HIDE DEF n
<1>3. /\ IsSeq(more) /\ Len(more) = n
  <2>1. more = [i \in 1 .. n |-> more[i]]
    OBVIOUS
  <2> HIDE DEF more
  <2> QED
    BY <1>1, <2>1, FunIs
<1>4. \A e \in Range(more) : e.name \notin Vital
  <2>1. \A i \in 1 .. n : more[i].name = names[i]
    BY <1>2
  <2> HIDE DEF more
  <2> QED
    BY <1>1, <1>3, <2>1, SeqIs
<1>5. queue' = [queue EXCEPT ![d] = queue[d] \o more] /\ OverDevices(queue)
  BY DEF Emit, IInv, TypeOK, n
<1> HIDE DEF more
<1>6. Same(queue, queue', d) /\ queue'[d] = queue[d] \o more
  BY <1>5 DEF Same, OverDevices
<1> QED
  BY <1>3, <1>4, <1>6 DEF Adds

LEMMA EmitDataIs ==
    ASSUME IInv, NEW d \in Devices, NEW message, EmitData(d, message)
    PROVE  Same(queue, queue', d) /\ Adds(queue[d], queue'[d])
<1> DEFINE e == [Event(d, "incomingData") EXCEPT !.message = message]
<1>1. e.name = "incomingData"
  BY DEF Event
<1>2. queue' = [queue EXCEPT ![d] = Append(queue[d], e)] /\ OverDevices(queue)
  BY DEF EmitData, IInv, TypeOK
<1> HIDE DEF e
<1>3. e.name \notin Vital /\ IsSeq(queue[d])
  BY <1>1 DEF Vital, IInv, FineAt, Fine, Events
<1>4. Same(queue, queue', d) /\ queue'[d] = Append(queue[d], e)
  BY <1>2 DEF Same, OverDevices
<1> QED
  BY <1>3, <1>4, AddsOne

LEMMA NoEmit ==
    ASSUME IInv, NEW d \in Devices, queue' = queue
    PROVE  Same(queue, queue', d) /\ Adds(queue[d], queue'[d])
BY AddsNone, NotSet DEF IInv, FineAt, Fine, Events

\* A job that ends takes the step away that waits for it
LEMMA DoneStep ==
    ASSUME IInv, UNCHANGED lives, NEW d \in Devices, NEW name, NEW x, Done(d, name, x),
           WorkerHas \subseteq DOMAIN x,
           \/ x.mailbox = worker[d].mailbox /\ name = worker[d].job
           \/ /\ worker[d].mailbox # <<>> /\ x.mailbox = Tail(worker[d].mailbox)
              /\ name = Head(worker[d].mailbox).name /\ worker[d].job \notin Blocking,
           Same(queue, queue', d), Adds(queue[d], queue'[d])
    PROVE  IInv'
<1> DEFINE w == worker[d]
           m == main[d]
           n == IF name \in Blocking THEN Tail(m) ELSE m
           done == [x EXCEPT !.job = "idle"]
<1>1. Fits(w, m) /\ Program(m) /\ OverDevices(worker) /\ OverDevices(main)
  BY DEF IInv, FineAt, Fine, TypeOK
<1>2. /\ WorkerHas \subseteq DOMAIN done /\ done.mailbox = x.mailbox /\ done.job \notin Blocking
  BY DEF WorkerHas, Blocking
<1>3. worker' = [worker EXCEPT ![d] = done]
  BY DEF Done
<1>4. main' = main \/ main' = [main EXCEPT ![d] = n]
  BY DEF Done
<1>5. name \in Blocking => main' = [main EXCEPT ![d] = n]
  BY DEF Done
<1>6. name \notin Blocking => main' = main
  BY DEF Done
<1> HIDE DEF done
<1>7. Same(worker, worker', d) /\ worker'[d] = done
  BY <1>1, <1>3 DEF Same, OverDevices
<1>8. Same(main, main', d) /\ main'[d] = n
  <2>1. CASE name \in Blocking
    <3> HIDE DEF n
    <3> QED
      BY <1>1, <1>5, <2>1 DEF Same, OverDevices
  <2>2. CASE name \notin Blocking
    BY <1>6, <2>2, NotSet
  <2> QED
    BY <2>1, <2>2
<1>9. Fits(done, n) /\ (name \in Blocking => Awaits(m))
  <2>1. CASE x.mailbox = worker[d].mailbox /\ name = worker[d].job
    <3>1. name \notin Blocking => n = m
      OBVIOUS
    <3> HIDE DEF n
    <3>2. Fits(done, n)
      BY <1>1, <1>2, <2>1, <3>1, JobDone
    <3> QED
      BY <1>1, <2>1, <3>2 DEF Fits
  <2>2. CASE /\ worker[d].mailbox # <<>> /\ x.mailbox = Tail(worker[d].mailbox)
             /\ name = Head(worker[d].mailbox).name /\ worker[d].job \notin Blocking
    <3>1. name \notin Blocking => n = m
      OBVIOUS
    <3> HIDE DEF n
    <3> QED
      BY <1>1, <1>2, <2>2, <3>1, HeadDone
  <2> QED
    BY <2>1, <2>2
<1>10. Program(n) /\ (Reports(n) <=> Reports(m)) /\ (Deletes(n) => Deletes(m))
  <2>1. CASE name \in Blocking
    <3>1. m # <<>> /\ Head(m).do # "report"
      BY <1>9, <2>1 DEF Awaits
    <3> QED
      BY <1>1, <2>1, <3>1, NextIs
  <2>2. CASE name \notin Blocking
    BY <1>1, <2>2
  <2> QED
    BY <2>1, <2>2
<1> HIDE DEF n
<1> QED
  BY <1>7, <1>8, <1>9, <1>10, AlikeStep

\* A job that is taken and begun
LEMMA BegunStep ==
    ASSUME IInv, UNCHANGED lives, NEW d \in Devices, NEW x, worker' = [worker EXCEPT ![d] = x],
           WorkerHas \subseteq DOMAIN x, worker[d].mailbox # <<>>, worker[d].job \notin Blocking,
           x.mailbox = Tail(worker[d].mailbox), x.job = Head(worker[d].mailbox).name,
           queue' = queue, main' = main
    PROVE  IInv'
<1> DEFINE m == main[d]
<1>1. Fits(worker[d], m) /\ Program(m) /\ OverDevices(worker)
  BY DEF IInv, FineAt, Fine, TypeOK
<1>2. Same(worker, worker', d) /\ worker'[d] = x
  BY <1>1 DEF Same, OverDevices
<1>3. Fits(x, m)
  <2>1. Head(worker[d].mailbox).name \notin Blocking => m = m
    OBVIOUS
  <2>2. x.job \notin Blocking \/ (x.job = Head(worker[d].mailbox).name /\ m = m)
    OBVIOUS
  <2> HIDE DEF m
  <2> QED
    BY <1>1, <2>1, <2>2, HeadDone
<1>4. Same(main, main', d) /\ main'[d] = m
  BY NotSet
<1>5. Same(queue, queue', d) /\ Adds(queue[d], queue'[d])
  BY NoEmit
<1> HIDE DEF m
<1>6. main[d] = m
  BY DEF m
<1> QED
  BY <1>1, <1>2, <1>3, <1>4, <1>5, <1>6, AlikeStep

LEMMA TakenIs ==
    ASSUME IInv, NEW d \in Devices, NEW names, TakesJob(d, names)
    PROVE  /\ worker[d].mailbox # <<>> /\ worker[d].job \notin Blocking
           /\ WorkerHas \subseteq DOMAIN Taken(d) /\ Taken(d).mailbox = Tail(worker[d].mailbox)
           /\ WorkerHas \subseteq DOMAIN worker[d]
<1>1. WorkerHas \subseteq DOMAIN worker[d]
  BY DEF IInv, FineAt, Fine, Fits
<1>2. worker[d].mailbox # <<>> /\ worker[d].job = "idle"
  BY DEF TakesJob
<1> QED
  BY <1>1, <1>2 DEF Taken, Blocking, WorkerHas

\* A job that is taken and done
LEMMA DeclinedStep ==
    ASSUME IInv, UNCHANGED lives, NEW d \in Devices, NEW names, TakesJob(d, names),
           Done(d, Head(worker[d].mailbox).name, Taken(d)),
           Same(queue, queue', d), Adds(queue[d], queue'[d])
    PROVE  IInv'
<1> DEFINE x == Taken(d)
           name == Head(worker[d].mailbox).name
<1>1. /\ worker[d].mailbox # <<>> /\ worker[d].job \notin Blocking
      /\ WorkerHas \subseteq DOMAIN x /\ x.mailbox = Tail(worker[d].mailbox)
  BY TakenIs
<1>2. Done(d, name, x)
  OBVIOUS
<1>3. name = Head(worker[d].mailbox).name
  OBVIOUS
<1> HIDE DEF x, name
<1> QED
  BY <1>1, <1>2, <1>3, DoneStep

\* A job that was begun and is done; w is the worker with what it has learnt
LEMMA EndedStep ==
    ASSUME IInv, UNCHANGED lives, NEW d \in Devices, NEW w, Done(d, worker[d].job, w),
           DOMAIN w = DOMAIN worker[d], w.mailbox = worker[d].mailbox,
           Same(queue, queue', d), Adds(queue[d], queue'[d])
    PROVE  IInv'
<1>1. WorkerHas \subseteq DOMAIN w
  BY DEF IInv, FineAt, Fine, Fits
<1> DEFINE name == worker[d].job
<1>2. Done(d, name, w) /\ name = worker[d].job
  OBVIOUS
<1> HIDE DEF name
<1> QED
  BY <1>1, <1>2, DoneStep

LEMMA FailIs ==
    ASSUME IInv, NEW d \in Devices, NEW name, name \notin Vital, Emit(d, <<name>>)
    PROVE  Same(queue, queue', d) /\ Adds(queue[d], queue'[d])
<1> DEFINE names == <<name>>
<1>1. IsSeq(names) /\ Range(names) = {name} /\ Emit(d, names)
  BY OneIs
<1> HIDE DEF names
<1> QED
  BY <1>1, EmitIs

LEMMA FailTwice ==
    ASSUME IInv, NEW d \in Devices, NEW name, name \notin Vital, Emit(d, <<name, name>>)
    PROVE  Same(queue, queue', d) /\ Adds(queue[d], queue'[d])
<1> DEFINE names == <<name, name>>
<1>1. names \in Seq({name}) /\ Emit(d, names)
  OBVIOUS
<1> HIDE DEF names
<1>2. IsSeq(names) /\ Range(names) \subseteq {name}
  BY <1>1, AnySeq
<1> QED
  BY <1>1, <1>2, EmitIs

LEMMA EmitOrNot ==
    ASSUME IInv, NEW d \in Devices, NEW name, name \notin Vital,
           Emit(d, <<name>>) \/ UNCHANGED queue
    PROVE  Same(queue, queue', d) /\ Adds(queue[d], queue'[d])
BY FailIs, NoEmit


LEMMA EndsThread ==
    ASSUME IInv, UNCHANGED lives, NEW d \in Devices, ThreadEnds(d)
    PROVE  IInv'
<1> DEFINE w == [NoWorker EXCEPT !.thread = "ended"]
<1>1. worker' = [worker EXCEPT ![d] = w] /\ queue' = queue /\ main' = main
  BY DEF ThreadEnds
<1>2. WorkerHas \subseteq DOMAIN w /\ w.mailbox = <<>> /\ w.job = "idle"
  BY DEF NoWorker, WorkerHas
<1> HIDE DEF w
<1>3. Fits(w, main[d])
  <2>1. IsSeq(w.mailbox) /\ Len(w.mailbox) = 0 /\ w.job \notin Blocking
    BY <1>2, EmptyIs DEF Blocking
  <2> QED
    BY <1>2, <2>1 DEF Fits
<1>4. Same(worker, worker', d) /\ worker'[d] = w
  BY <1>1 DEF IInv, TypeOK, Same, OverDevices
<1>5. Same(main, main', d) /\ main'[d] = main[d] /\ Program(main[d])
  BY <1>1, NotSet DEF IInv, FineAt, Fine
<1>6. Same(queue, queue', d) /\ Adds(queue[d], queue'[d])
  BY <1>1, NoEmit
<1> QED
  BY <1>3, <1>4, <1>5, <1>6, AlikeStep

LEMMA Names ==
    /\ "client" \in Devices /\ "server" \in Devices
    /\ "connectionFailed" \notin Vital /\ "connectionError" \notin Vital
    /\ "connectionTimeout" \notin Vital
BY DEF Devices, Vital

LEMMA RequestsIs ==
    ASSUME NEW y, WorkerHas \subseteq DOMAIN y, NEW name, NEW pending
    PROVE  LET x == [y EXCEPT !.job = name, !.pending = pending]
           IN  WorkerHas \subseteq DOMAIN x /\ x.mailbox = y.mailbox /\ x.job = name
<1> DEFINE z == [y EXCEPT !.job = name]
           x == [z EXCEPT !.pending = pending]
<1>1. DOMAIN z = DOMAIN y /\ z.mailbox = y.mailbox /\ z.job = name
  BY DEF WorkerHas
<1> HIDE DEF z
<1>2. DOMAIN x = DOMAIN z /\ x.mailbox = z.mailbox /\ x.job = z.job
  BY <1>1 DEF WorkerHas
<1> QED
  BY <1>1, <1>2 DEF z

LEMMA ClientStep ==
    ASSUME IInv, UNCHANGED lives, ClientWorks \/ ClientTimeout
    PROVE  IInv'
<1>1. CASE ClientDeclines
  <2>1. /\ TakesJob("client", {"connect", "disconnect", "send", "receive"})
        /\ Done("client", Head(worker["client"].mailbox).name, Taken("client"))
        /\ Emit("client", <<"connectionFailed">>) \/ UNCHANGED queue
    BY <1>1 DEF ClientDeclines
  <2>2. Same(queue, queue', "client") /\ Adds(queue["client"], queue'["client"])
    BY <2>1, Names, EmitOrNot
  <2> QED
    BY <2>1, <2>2, Names, DeclinedStep
<1>2. CASE ClientRefused
  <2>1. /\ TakesJob("client", {"connect", "disconnect", "send", "receive"})
        /\ Done("client", Head(worker["client"].mailbox).name, Taken("client"))
        /\ Emit("client", <<"connectionError">>) \/ UNCHANGED queue
    BY <1>2 DEF ClientRefused
  <2>2. Same(queue, queue', "client") /\ Adds(queue["client"], queue'["client"])
    BY <2>1, Names, EmitOrNot
  <2> QED
    BY <2>1, <2>2, Names, DeclinedStep
<1>3. CASE ClientRequests
  <2> DEFINE job == Head(worker["client"].mailbox)
             x == [Taken("client") EXCEPT !.job = job.name, !.pending = TRUE]
  <2>1. /\ TakesJob("client", {"connect", "disconnect", "send", "receive"})
        /\ worker' = [worker EXCEPT !["client"] = x]
        /\ queue' = queue /\ main' = main
    BY <1>3 DEF ClientRequests
  <2>2. /\ worker["client"].mailbox # <<>> /\ worker["client"].job \notin Blocking
        /\ WorkerHas \subseteq DOMAIN Taken("client")
        /\ Taken("client").mailbox = Tail(worker["client"].mailbox)
    BY <2>1, Names, TakenIs
  <2>3. WorkerHas \subseteq DOMAIN x /\ x.mailbox = Taken("client").mailbox /\ x.job = job.name
    BY <2>2, RequestsIs
  <2> HIDE DEF x
  <2> QED
    BY <2>1, <2>2, <2>3, Names, BegunStep
<1>4. CASE ClientResponse
  <2>1. PICK connected :
            Done("client", worker["client"].job,
                 [worker["client"] EXCEPT !.connected = connected, !.pending = FALSE])
    BY <1>4 DEF ClientResponse
  <2>2. \/ EmitData("client", Head(link.toClient).headers.body)
        \/ Emit("client", <<"connectionError">>) \/ UNCHANGED queue
    BY <1>4 DEF ClientResponse
  <2>3. Same(queue, queue', "client") /\ Adds(queue["client"], queue'["client"])
    BY <2>2, Names, EmitOrNot, EmitDataIs
  <2> DEFINE w == [worker["client"] EXCEPT !.connected = connected, !.pending = FALSE]
  <2>4. DOMAIN w = DOMAIN worker["client"] /\ w.mailbox = worker["client"].mailbox
    BY Names DEF IInv, FineAt, Fine, Fits, WorkerHas
  <2> HIDE DEF w
  <2> QED
    BY <2>1, <2>3, <2>4, Names, EndedStep DEF w
<1>5. CASE ClientTimeout
  <2>1. /\ Done("client", worker["client"].job, worker["client"])
        /\ Emit("client", <<"connectionTimeout">>) \/ UNCHANGED queue
    BY <1>5 DEF ClientTimeout
  <2>2. Same(queue, queue', "client") /\ Adds(queue["client"], queue'["client"])
    BY <2>1, Names, EmitOrNot
  <2> QED
    BY <2>1, <2>2, Names, EndedStep
<1>6. CASE ClientLinkError
  <2> DEFINE w == [worker["client"] EXCEPT !.connected = FALSE]
  <2>1. /\ Done("client", worker["client"].job, w)
        /\ Emit("client", <<"connectionError">>) \/ UNCHANGED queue
    BY <1>6 DEF ClientLinkError
  <2>2. Same(queue, queue', "client") /\ Adds(queue["client"], queue'["client"])
    BY <2>1, Names, EmitOrNot
  <2>3. DOMAIN w = DOMAIN worker["client"] /\ w.mailbox = worker["client"].mailbox
    BY Names DEF IInv, FineAt, Fine, Fits, WorkerHas
  <2> HIDE DEF w
  <2> QED
    BY <2>1, <2>2, <2>3, Names, EndedStep
<1>7. CASE ThreadEnds("client")
  BY <1>7, Names, EndsThread
<1> QED
  BY <1>1, <1>2, <1>3, <1>4, <1>5, <1>6, <1>7 DEF ClientWorks


LEMMA StillStep ==
    ASSUME IInv, UNCHANGED lives, UNCHANGED <<worker, queue, main>>
    PROVE  IInv'
BY DEF IInv, TypeOK, FineAt, OverDevices, lives

LEMMA ServerStep ==
    ASSUME IInv, UNCHANGED lives, ServerWorks \/ ServerTimeout
    PROVE  IInv'
<1> DEFINE known(connected) == [worker["server"] EXCEPT !.connected = connected]
<1>0. ASSUME NEW connected
      PROVE  /\ DOMAIN known(connected) = DOMAIN worker["server"]
             /\ known(connected).mailbox = worker["server"].mailbox
  BY Names DEF IInv, FineAt, Fine, Fits, WorkerHas
<1>1. CASE ServerDeclines
  <2>1. /\ TakesJob("server", {"waitForConnect", "waitForDisconnect", "waitForPut", "waitForGet"})
        /\ Done("server", Head(worker["server"].mailbox).name, Taken("server"))
        /\ Emit("server", <<"connectionFailed">>) \/ UNCHANGED queue
    BY <1>1 DEF ServerDeclines
  <2>2. Same(queue, queue', "server") /\ Adds(queue["server"], queue'["server"])
    BY <2>1, Names, EmitOrNot
  <2> QED
    BY <2>1, <2>2, Names, DeclinedStep
<1>2. CASE ServerWaits
  <2> DEFINE name == Head(worker["server"].mailbox).name
             x == [Taken("server") EXCEPT !.job = name]
  <2>1. /\ TakesJob("server", {"waitForConnect", "waitForDisconnect", "waitForPut", "waitForGet"})
        /\ worker' = [worker EXCEPT !["server"] = x]
        /\ queue' = queue /\ main' = main
    BY <1>2 DEF ServerWaits
  <2>2. /\ worker["server"].mailbox # <<>> /\ worker["server"].job \notin Blocking
        /\ WorkerHas \subseteq DOMAIN Taken("server")
        /\ Taken("server").mailbox = Tail(worker["server"].mailbox)
    BY <2>1, Names, TakenIs
  <2>3. WorkerHas \subseteq DOMAIN x /\ x.mailbox = Taken("server").mailbox /\ x.job = name
    BY <2>2 DEF WorkerHas
  <2> HIDE DEF x
  <2> QED
    BY <2>1, <2>2, <2>3, Names, BegunStep
<1>3. CASE RequestRefused
  BY <1>3, StillStep DEF RequestRefused
<1>4. CASE ConnectRequest
  <2>1. Done("server", worker["server"].job, known(TRUE)) /\ queue' = queue
    BY <1>4 DEF ConnectRequest
  <2>2. Same(queue, queue', "server") /\ Adds(queue["server"], queue'["server"])
    BY <2>1, Names, NoEmit
  <2> HIDE DEF known
  <2> QED
    BY <1>0, <2>1, <2>2, Names, EndedStep
<1>5. CASE DisconnectRequest
  <2>1. /\ Done("server", worker["server"].job, known(FALSE))
        /\ Emit("server", <<"connectionError">>) \/ UNCHANGED queue
    BY <1>5 DEF DisconnectRequest
  <2>2. Same(queue, queue', "server") /\ Adds(queue["server"], queue'["server"])
    BY <2>1, Names, EmitOrNot
  <2> HIDE DEF known
  <2> QED
    BY <1>0, <2>1, <2>2, Names, EndedStep
<1>6. CASE PutRequest
  <2>1. /\ Done("server", "waitForPut", worker["server"])
        /\ EmitData("server", Request.headers.body)
        /\ Requested("PUT") /\ ~Refuses
    BY <1>6 DEF PutRequest
  <2>2. worker["server"].job = "waitForPut"
    BY <2>1 DEF Refuses
  <2>3. Same(queue, queue', "server") /\ Adds(queue["server"], queue'["server"])
    BY <2>1, Names, EmitDataIs
  <2> QED
    BY <2>1, <2>2, <2>3, Names, EndedStep
<1>7. CASE GetRequest
  <2>1. /\ Done("server", "waitForGet", worker["server"]) /\ queue' = queue
        /\ Requested("GET") /\ ~Refuses
    BY <1>7 DEF GetRequest
  <2>2. worker["server"].job = "waitForGet"
    BY <2>1 DEF Refuses
  <2>3. Same(queue, queue', "server") /\ Adds(queue["server"], queue'["server"])
    BY <2>1, Names, NoEmit
  <2> QED
    BY <2>1, <2>2, <2>3, Names, EndedStep
<1>8. CASE ServerTimeout
  <2>1. /\ Done("server", worker["server"].job, worker["server"])
        /\ Emit("server", <<"connectionTimeout">>)
    BY <1>8 DEF ServerTimeout
  <2>2. Same(queue, queue', "server") /\ Adds(queue["server"], queue'["server"])
    BY <2>1, Names, EmitOrNot
  <2> QED
    BY <2>1, <2>2, Names, EndedStep
<1>9. CASE ServerLinkError
  <2>1. /\ Done("server", worker["server"].job, known(FALSE))
        /\ \/ Emit("server", <<"connectionError", "connectionError">>)
           \/ Emit("server", <<"connectionError">>)
    BY <1>9 DEF ServerLinkError
  <2>2. Same(queue, queue', "server") /\ Adds(queue["server"], queue'["server"])
    BY <2>1, Names, FailIs, FailTwice
  <2> HIDE DEF known
  <2> QED
    BY <1>0, <2>1, <2>2, Names, EndedStep
<1>10. CASE ThreadEnds("server")
  BY <1>10, Names, EndsThread
<1> QED
  BY <1>1, <1>2, <1>3, <1>4, <1>5, <1>6, <1>7, <1>8, <1>9, <1>10 DEF ServerWorks


-----------------------------------------------------------------------------
(***************************************************************************)
(* The steps of a transport in its main thread                             *)
(***************************************************************************)
Plain(steps) == IsSeq(steps) /\ \A s \in Range(steps) : s.do \notin {"report", "delete"}
Begins(steps, name) == steps # <<>> /\ Head(steps).do = name

LEMMA PlainNone == Plain(<<>>)
BY EmptyIs DEF Plain

LEMMA PlainOne ==
    ASSUME NEW a, a.do \notin {"report", "delete"}
    PROVE  Plain(<<a>>)
BY OneIs DEF Plain

LEMMA PlainTwo ==
    ASSUME NEW a, NEW b, {a.do, b.do} \cap {"report", "delete"} = {}
    PROVE  Plain(<<a, b>>) /\ Begins(<<a, b>>, a.do)
<1> DEFINE s == <<a, b>>
<1>1. s \in Seq({a, b}) /\ Head(s) = a /\ s # <<>>
  OBVIOUS
<1> HIDE DEF s
<1>2. IsSeq(s) /\ Range(s) \subseteq {a, b}
  BY <1>1, AnySeq
<1> QED
  BY <1>1, <1>2 DEF Plain, Begins, s

LEMMA PlainThree ==
    ASSUME NEW a, NEW b, NEW c, {a.do, b.do, c.do} \cap {"report", "delete"} = {}
    PROVE  Plain(<<a, b, c>>)
<1> DEFINE s == <<a, b, c>>
<1>1. s \in Seq({a, b, c})
  OBVIOUS
<1> HIDE DEF s
<1>2. IsSeq(s) /\ Range(s) \subseteq {a, b, c}
  BY <1>1, AnySeq
<1> QED
  BY <1>2 DEF Plain, s

LEMMA PlainFour ==
    ASSUME NEW a, NEW b, NEW c, NEW e, {a.do, b.do, c.do, e.do} \cap {"report", "delete"} = {}
    PROVE  Plain(<<a, b, c, e>>) /\ Begins(<<a, b, c, e>>, a.do)
<1> DEFINE s == <<a, b, c, e>>
<1>1. s \in Seq({a, b, c, e}) /\ Head(s) = a /\ s # <<>>
  OBVIOUS
<1> HIDE DEF s
<1>2. IsSeq(s) /\ Range(s) \subseteq {a, b, c, e}
  BY <1>1, AnySeq
<1> QED
  BY <1>1, <1>2 DEF Plain, Begins, s

LEMMA AwaitsIs ==
    ASSUME NEW steps, IsSeq(steps), Begins(steps, "await"), NEW t, IsSeq(t)
    PROVE  Awaits(steps \o t)
<1> DEFINE all == steps \o t
<1>1. /\ Len(Tail(steps)) \in Nat /\ Len(steps) = Len(Tail(steps)) + 1 /\ Head(steps) = steps[1]
  BY TailIs DEF Begins
<1>2. /\ IsSeq(all) /\ Len(all) = Len(steps) + Len(t) /\ Len(t) \in Nat
      /\ \A i \in 1 .. Len(steps) : all[i] = steps[i]
  BY JoinIs, SeqIs
<1> HIDE DEF all
<1>3. Len(all) # 0 /\ 1 \in 1 .. Len(steps)
  BY <1>1, <1>2
<1>4. all # <<>>
  BY <1>3, EmptyIs
<1>5. Head(all) = all[1]
  BY <1>2, <1>4, TailIs
<1>6. Head(all) = Head(steps)
  BY <1>1, <1>2, <1>3, <1>5
<1> QED
  BY <1>4, <1>6 DEF Awaits, Begins, all

LEMMA GoesOn ==
    ASSUME IInv, UNCHANGED lives, NEW d \in Devices, NEW name, AtStep(d, name), name # "report",
           NEW steps, Plain(steps), Then(d, steps), queue' = queue,
           Same(worker, worker', d), Fits(worker'[d], steps \o Tail(main[d]))
    PROVE  IInv'
<1> DEFINE n == steps \o Tail(main[d])
<1>1. Program(main[d]) /\ OverDevices(main)
  BY DEF IInv, TypeOK, FineAt, Fine
<1>2. main[d] # <<>> /\ Head(main[d]).do # "report" /\ IsSeq(steps)
  BY DEF AtStep, Plain
<1>3. Program(n) /\ (Reports(n) <=> Reports(main[d])) /\ (Deletes(n) => Deletes(main[d]))
  BY <1>1, <1>2, ThenIs DEF Plain
<1>4. main' = [main EXCEPT ![d] = n]
  BY DEF Then
<1> HIDE DEF n
<1>5. Same(main, main', d) /\ main'[d] = n
  BY <1>1, <1>4 DEF Same, OverDevices
<1>6. Same(queue, queue', d) /\ Adds(queue[d], queue'[d])
  BY NoEmit
<1>7. Fits(worker'[d], n)
  BY DEF n
<1> QED
  BY <1>3, <1>5, <1>6, <1>7, AlikeStep

\* A job is posted; the main thread waits for it if it has to
LEMMA PostStep ==
    ASSUME IInv, UNCHANGED lives, NEW d \in Devices, NEW name, AtStep(d, name),
           name \notin {"report", "await"},
           NEW job, NEW steps, Plain(steps), job.name \in Blocking => Begins(steps, "await"),
           PostAnd(d, job, steps), queue' = queue
    PROVE  IInv'
<1> DEFINE n == steps \o Tail(main[d])
           x == Post(d, job)
<1>1. Fits(worker[d], main[d]) /\ OverDevices(worker) /\ Program(main[d])
  BY DEF IInv, TypeOK, FineAt, Fine
<1>2. ~Awaits(main[d]) /\ main[d] # <<>>
  BY DEF AtStep, Awaits
<1>3. worker' = [worker EXCEPT ![d] = x] /\ Then(d, steps)
  BY DEF PostAnd
<1>4. IsSeq(Tail(main[d])) /\ IsSeq(steps)
  BY <1>1, <1>2, TailIs DEF Program, Plain
<1>5. job.name \in Blocking => Awaits(n)
  BY <1>4, AwaitsIs
<1> HIDE DEF n
<1>6. Fits(x, n)
  BY <1>1, <1>2, <1>5, PostedFits DEF Post
<1> HIDE DEF x
<1>7. Same(worker, worker', d) /\ worker'[d] = x
  BY <1>1, <1>3 DEF Same, OverDevices
<1>8. Fits(worker'[d], steps \o Tail(main[d]))
  BY <1>6, <1>7 DEF n
<1> QED
  BY <1>3, <1>7, <1>8, GoesOn

\* No job is posted
LEMMA ThenStep ==
    ASSUME IInv, UNCHANGED lives, NEW d \in Devices, NEW name, AtStep(d, name),
           name \notin {"report", "await"}, NEW steps, Plain(steps), Then(d, steps),
           queue' = queue, Same(worker, worker', d), WorkerHas \subseteq DOMAIN worker'[d],
           \/ worker'[d].mailbox = worker[d].mailbox /\ worker'[d].job = worker[d].job
           \/ worker'[d].mailbox = <<>> /\ worker'[d].job = "idle"
    PROVE  IInv'
<1> DEFINE n == steps \o Tail(main[d])
           w == worker[d]
           x == worker'[d]
<1>1. Fits(w, main[d])
  BY DEF IInv, FineAt, Fine
<1>2. ~Awaits(main[d])
  BY DEF AtStep, Awaits
<1> HIDE DEF n
<1>3. Fits(x, n)
  <2>1. CASE x.mailbox = w.mailbox /\ x.job = w.job
    BY <1>1, <1>2, <2>1 DEF Fits
  <2>2. CASE x.mailbox = <<>> /\ x.job = "idle"
    <3>1. IsSeq(x.mailbox) /\ Len(x.mailbox) = 0 /\ x.job \notin Blocking
      BY <2>2, EmptyIs DEF Blocking
    <3> QED
      BY <3>1 DEF Fits
  <2> QED
    BY <2>1, <2>2
<1>4. Fits(worker'[d], steps \o Tail(main[d]))
  BY <1>3 DEF n
<1> QED
  BY <1>4, GoesOn


LEMMA WorkerKnown ==
    ASSUME IInv, NEW d \in Devices
    PROVE  /\ OverDevices(worker) /\ WorkerHas \subseteq DOMAIN worker[d]
           /\ Same(worker, worker, d)
BY DEF IInv, TypeOK, FineAt, Fine, Fits, Same

LEMMA JobNames ==
    /\ \A message : Job("waitForGet", message).name \notin Blocking
    /\ \A message : Job("send", message).name \notin Blocking
    /\ \A message : Job("receive", message).name \notin Blocking
    /\ \A message : Job("waitForPut", message).name \notin Blocking
BY DEF Job, Blocking

LEMMA TransportStep ==
    ASSUME IInv, UNCHANGED lives, NEW d \in Devices, TransportSteps(d)
    PROVE  IInv'
<1> DEFINE onward == [Send(Head(main[d]).message) EXCEPT !.do = "doSend"]
<1>0. /\ onward.do = "doSend" /\ Do("await").do = "await" /\ Do("waitForPut").do = "waitForPut"
      /\ Do("exit").do = "exit" /\ Do("wait").do = "wait" /\ Do("release").do = "release"
  BY DEF Do, Send
<1>1. CASE SendSyncML(d)
  <2>1. AtStep(d, "send") /\ queue' = queue
    BY <1>1 DEF SendSyncML
  <2>2. CASE d = "client" /\ worker[d].connected
    <3>1. Then(d, <<onward>>) /\ worker' = worker
      BY <1>1, <2>2 DEF SendSyncML
    <3>2. Plain(<<onward>>)
      BY <1>0, PlainOne
    <3> HIDE DEF onward
    <3> QED
      BY <2>1, <3>1, <3>2, WorkerKnown, ThenStep
  <2>3. CASE d = "client" /\ ~worker[d].connected
    <3>1. PostAnd(d, Job("connect", NoMessage), <<Do("await"), onward>>)
      BY <1>1, <2>3 DEF SendSyncML
    <3>2. Plain(<<Do("await"), onward>>) /\ Begins(<<Do("await"), onward>>, "await")
      BY <1>0, PlainTwo
    <3> HIDE DEF onward
    <3> QED
      BY <2>1, <3>1, <3>2, PostStep
  <2>4. CASE d # "client"
    <3>1. PostAnd(d, Job("waitForGet", NoMessage), <<>>)
      BY <1>1, <2>4 DEF SendSyncML
    <3> QED
      BY <2>1, <3>1, PlainNone, JobNames, PostStep
  <2> QED
    BY <2>2, <2>3, <2>4
<1>2. CASE DoSend(d)
  <2> DEFINE job == Job("send", Head(main[d]).message)
  <2>1. AtStep(d, "doSend") /\ queue' = queue /\ PostAnd(d, job, <<>>)
    BY <1>2 DEF DoSend
  <2>2. job.name \notin Blocking
    BY JobNames
  <2> HIDE DEF job
  <2> QED
    BY <2>1, <2>2, PlainNone, PostStep
<1>3. CASE Receive(d)
  <2>1. AtStep(d, "receive") /\ queue' = queue
    BY <1>3 DEF Receive
  <2>2. \/ PostAnd(d, Job("receive", NoMessage), <<>>)
        \/ PostAnd(d, Job("waitForPut", NoMessage), <<>>)
        \/ PostAnd(d, Job("waitForConnect", NoMessage), <<Do("await"), Do("waitForPut")>>)
    BY <1>3 DEF Receive
  <2>3. /\ Plain(<<Do("await"), Do("waitForPut")>>)
        /\ Begins(<<Do("await"), Do("waitForPut")>>, "await")
    BY <1>0, PlainTwo
  <2>4. CASE PostAnd(d, Job("receive", NoMessage), <<>>)
    BY <2>1, <2>4, PlainNone, JobNames, PostStep
  <2>5. CASE PostAnd(d, Job("waitForPut", NoMessage), <<>>)
    BY <2>1, <2>5, PlainNone, JobNames, PostStep
  <2>6. CASE PostAnd(d, Job("waitForConnect", NoMessage), <<Do("await"), Do("waitForPut")>>)
    BY <2>1, <2>3, <2>6, PostStep
  <2> QED
    BY <2>2, <2>4, <2>5, <2>6
<1>4. CASE WaitForPut(d)
  <2>1. AtStep(d, "waitForPut") /\ queue' = queue
        /\ PostAnd(d, Job("waitForPut", NoMessage), <<>>)
    BY <1>4 DEF WaitForPut
  <2> QED
    BY <2>1, PlainNone, JobNames, PostStep
<1>5. CASE Close(d)
  <2>1. AtStep(d, "close") /\ queue' = queue
    BY <1>5 DEF Close
  <2>2. /\ Plain(<<Do("release")>>)
        /\ Plain(<<Do("exit"), Do("wait"), Do("release")>>)
        /\ Plain(<<Do("await"), Do("exit"), Do("wait"), Do("release")>>)
        /\ Begins(<<Do("await"), Do("exit"), Do("wait"), Do("release")>>, "await")
    BY <1>0, PlainOne, PlainThree, PlainFour
  <2>3. CASE Then(d, <<Do("release")>>) /\ worker' = worker
    BY <2>1, <2>2, <2>3, WorkerKnown, ThenStep
  <2>4. CASE Then(d, <<Do("exit"), Do("wait"), Do("release")>>) /\ worker' = worker
    BY <2>1, <2>2, <2>4, WorkerKnown, ThenStep
  <2>5. ASSUME NEW name,
               PostAnd(d, Job(name, NoMessage), <<Do("await"), Do("exit"), Do("wait"), Do("release")>>)
        PROVE  IInv'
    <3> DEFINE job == Job(name, NoMessage)
               steps == <<Do("await"), Do("exit"), Do("wait"), Do("release")>>
    <3>1. PostAnd(d, job, steps) /\ Plain(steps) /\ Begins(steps, "await")
      BY <2>2, <2>5
    <3> HIDE DEF job, steps
    <3> QED
      BY <2>1, <3>1, PostStep
  <2> QED
    BY <1>5, <2>3, <2>4, <2>5 DEF Close
<1>6. CASE ExitThread(d)
  <2> DEFINE x == [worker[d] EXCEPT !.thread = "exiting"]
  <2>1. /\ AtStep(d, "exit") /\ queue' = queue /\ Then(d, <<>>)
        /\ worker' = [worker EXCEPT ![d] = x]
    BY <1>6 DEF ExitThread
  <2>2. DOMAIN x = DOMAIN worker[d] /\ x.mailbox = worker[d].mailbox /\ x.job = worker[d].job
    BY WorkerKnown DEF WorkerHas
  <2> HIDE DEF x
  <2>3. Same(worker, worker', d) /\ worker'[d] = x
    BY <2>1, WorkerKnown DEF Same, OverDevices
  <2> QED
    BY <2>1, <2>2, <2>3, PlainNone, WorkerKnown, ThenStep
<1>7. CASE WaitForThread(d)
  <2>1. AtStep(d, "wait") /\ queue' = queue /\ Then(d, <<>>) /\ worker' = worker
    BY <1>7 DEF WaitForThread
  <2> QED
    BY <2>1, PlainNone, WorkerKnown, ThenStep
<1>8. CASE Release(d)
  <2>1. /\ AtStep(d, "release") /\ queue' = queue /\ Then(d, <<>>)
        /\ worker' = [worker EXCEPT ![d] = NoWorker]
    BY <1>8 DEF Release
  <2>2. WorkerHas \subseteq DOMAIN NoWorker /\ NoWorker.mailbox = <<>> /\ NoWorker.job = "idle"
    BY DEF NoWorker, WorkerHas
  <2>3. Same(worker, worker', d) /\ worker'[d] = NoWorker
    BY <2>1, WorkerKnown DEF Same, OverDevices
  <2> QED
    BY <2>1, <2>2, <2>3, PlainNone, ThenStep
<1> QED
  BY <1>1, <1>2, <1>3, <1>4, <1>5, <1>6, <1>7, <1>8 DEF TransportSteps


-----------------------------------------------------------------------------
(***************************************************************************)
(* The agent and its session                                               *)
(***************************************************************************)
Sets(f, g, d, x) == Same(f, g, d) /\ g[d] = x

LEMMA Moved ==
    ASSUME IInv, NEW d \in Devices,
           NEW w, NEW m, NEW q, NEW s, NEW l, NEW a, NEW t, Fine(w, m, q, s, l, a, t),
           Sets(worker, worker', d, w), Sets(main, main', d, m), Sets(queue, queue', d, q),
           Sets(session, session', d, s), Sets(listening, listening', d, l),
           Sets(asked, asked', d, a), Sets(told, told', d, t)
    PROVE  IInv'
<1>1. Fine(worker'[d], main'[d], queue'[d], session'[d], listening'[d], asked'[d], told'[d])
  BY DEF Sets
<1> QED
  BY <1>1, OneDevice DEF Sets

\* A main thread that waits for nothing
LEMMA Idle ==
    ASSUME NEW w, NEW m, Fits(w, m), ~Awaits(m), NEW n
    PROVE  Fits(w, n)
BY DEF Fits

LEMMA NewFits ==
    ASSUME NEW operation, NEW n
    PROVE  Fits(NewWorker(operation), n)
<1> DEFINE w == NewWorker(operation)
<1>1. WorkerHas \subseteq DOMAIN w /\ w.mailbox = <<>> /\ w.job = "idle"
  BY DEF NewWorker, NoWorker, WorkerHas
<1> HIDE DEF w
<1>2. IsSeq(w.mailbox) /\ Len(w.mailbox) = 0 /\ w.job \notin Blocking
  BY <1>1, EmptyIs DEF Blocking
<1> QED
  BY <1>1, <1>2 DEF Fits, w

LEMMA NoProgram == Program(<<>>) /\ ~Reports(<<>>) /\ ~Deletes(<<>>) /\ ~Awaits(<<>>)
<1>1. IsSeq(<<>>) /\ Range(<<>>) = {} /\ Len(<<>>) = 0
  BY EmptyIs
<1>2. \A i \in 1 .. 0 : FALSE
  OBVIOUS
<1> QED
  BY <1>1, <1>2 DEF Program, Reports, Deletes, Awaits

LEMMA PlainProgram ==
    ASSUME NEW steps, Plain(steps)
    PROVE  Program(steps) /\ ~Reports(steps) /\ ~Deletes(steps)
<1>1. \A i \in 1 .. Len(steps) : steps[i] \in Range(steps)
  BY SeqIs DEF Plain
<1> QED
  BY <1>1 DEF Plain, Program, Reports, Deletes

LEMMA ExitIs == IsSeq(Exit) /\ Program(Exit) /\ Reports(Exit) /\ ~Deletes(Exit)
<1>1. /\ Exit \in Seq({Do("close"), Do("report")}) /\ Len(Exit) = 2
      /\ Exit[1] = Do("close") /\ Exit[2] = Do("report")
  BY DEF Exit
<1>2. IsSeq(Exit) /\ Range(Exit) \subseteq {Do("close"), Do("report")}
  BY <1>1, AnySeq
<1>3. Do("close").do = "close" /\ Do("report").do = "report"
  BY DEF Do
<1>4. \A i \in 1 .. Len(Exit) : Exit[i] \in Range(Exit)
  BY <1>2, SeqIs
<1>5. Program(Exit)
  <2>1. \A i \in 1 .. 2 : i = 1 \/ i = 2
    OBVIOUS
  <2> QED
    BY <1>1, <1>2, <1>3, <2>1 DEF Program
<1>6. Reports(Exit)
  <2>1. Exit[2] \in Range(Exit)
    BY <1>1, <1>4
  <2> QED
    BY <1>1, <1>3, <2>1 DEF Reports
<1>7. ~Deletes(Exit)
  BY <1>2, <1>3 DEF Deletes
<1> QED
  BY <1>2, <1>5, <1>6, <1>7

\* A last answer before it
LEMMA AnswerIs ==
    ASSUME NEW steps, Plain(steps)
    PROVE  Program(steps \o Exit) /\ Reports(steps \o Exit) /\ ~Deletes(steps \o Exit)
<1> DEFINE last == Exit
           a == Len(steps)
           b == Len(last)
           all == steps \o last
<1>1. IsSeq(steps) /\ IsSeq(last) /\ Program(last) /\ Reports(last) /\ ~Deletes(last)
  BY ExitIs DEF Plain
<1> HIDE DEF last
<1>2. /\ IsSeq(all) /\ Range(all) = Range(steps) \cup Range(last) /\ Len(all) = a + b
      /\ \A i \in 1 .. a : all[i] = steps[i]
      /\ \A i \in 1 .. b : all[a + i] = last[i]
  BY <1>1, JoinIs
<1>3. a \in Nat /\ b \in Nat /\ \A i \in 1 .. a : steps[i].do # "report"
  BY <1>1, SeqIs DEF Plain
<1>4. \A i \in 1 .. b : last[i].do = "report" => i = b
  BY <1>1 DEF Program
<1> HIDE DEF a, b, all
<1>5. \A i \in 1 .. a + b : all[i].do = "report" => i = a + b
  <2> SUFFICES ASSUME NEW i \in 1 .. a + b, all[i].do = "report" PROVE i = a + b
    OBVIOUS
  <2>1. i \notin 1 .. a
    BY <1>2, <1>3
  <2> DEFINE k == i - a
  <2>2. k \in 1 .. b /\ a + k = i
    BY <1>3, <2>1
  <2> HIDE DEF k
  <2>3. last[k].do = "report"
    BY <1>2, <2>2
  <2> QED
    BY <1>3, <1>4, <2>2, <2>3
<1>6. Program(all)
  BY <1>2, <1>5 DEF Program
<1>7. Reports(all) /\ ~Deletes(all)
  BY <1>1, <1>2 DEF Reports, Deletes, Plain
<1> QED
  BY <1>6, <1>7 DEF all, last

LEMMA AddedOne ==
    ASSUME NEW q, Events(q), NEW e, e.name # "syncFinished"
    PROVE  /\ Events(Append(q, e)) /\ (Ends(Append(q, e)) <=> Ends(q))
           /\ Range(Append(q, e)) = Range(q) \cup {e}
<1> DEFINE more == <<e>>
<1>1. IsSeq(more) /\ Range(more) = {e}
  BY OneIs
<1>2. Append(q, e) = q \o more
  BY AppendIs DEF Events
<1> HIDE DEF more
<1>3. /\ Events(q \o more) /\ (Ends(q \o more) <=> Ends(q))
      /\ Range(q \o more) = Range(q) \cup Range(more)
  BY <1>1, AddedQueue
<1> QED
  BY <1>1, <1>2, <1>3

\* An event that is handled, and what may be queued then
LEMMA Dequeued ==
    ASSUME NEW q, Events(q), q # <<>>, Head(q).name # "syncFinished",
           NEW e, e.name # "syncFinished", NEW r, r \in {Tail(q), Append(Tail(q), e)}
    PROVE  /\ Events(r) /\ (Ends(r) <=> Ends(q)) /\ Range(r) \subseteq Range(q) \cup {e}
<1> DEFINE t == Tail(q)
<1>1. Events(t) /\ (Ends(t) <=> Ends(q)) /\ Range(t) \subseteq Range(q)
  BY HandledQueue
<1> HIDE DEF t
<1>2. Events(Append(t, e)) /\ (Ends(Append(t, e)) <=> Ends(t))
      /\ Range(Append(t, e)) = Range(t) \cup {e}
  BY <1>1, AddedOne
<1>3. r = t \/ r = Append(t, e)
  BY DEF t
<1> QED
  BY <1>1, <1>2, <1>3

\* What is known of a device that handles an event, or is called
LEMMA LoopIs ==
    ASSUME IInv, NEW d \in Devices, InLoop(d)
    PROVE  /\ Fine(worker[d], <<>>, queue[d], session[d], listening[d], asked[d], told[d])
           /\ \A n : Fits(worker[d], n)
           /\ Events(queue[d]) /\ SessionHas \subseteq DOMAIN session[d]
           /\ asked[d] \in Nat /\ told[d] \in Nat
           /\ session[d].state = "closed" <=> Ends(queue[d])
           /\ session[d].state = "none" => \A e \in Range(queue[d]) : e.name \notin Vital
           /\ session[d].state # "none" => ~listening[d]
           /\ asked[d] = told[d] + (IF Engaged(session[d], listening[d]) THEN 1 ELSE 0)
<1> DEFINE m == main[d]
<1>1. m = <<>>
  BY DEF InLoop
<1>2. Fine(worker[d], m, queue[d], session[d], listening[d], asked[d], told[d])
  BY DEF IInv, FineAt
<1>3. ~Awaits(m) /\ ~Reports(m)
  BY <1>1, NoProgram
<1>4. Fine(worker[d], <<>>, queue[d], session[d], listening[d], asked[d], told[d])
  BY <1>1, <1>2
<1> HIDE DEF m
<1>5. Fits(worker[d], m)
  BY <1>2 DEF Fine
<1>6. \A n : Fits(worker[d], n)
  BY <1>3, <1>5, Idle
<1> QED
  BY <1>2, <1>3, <1>4, <1>6 DEF Fine

\* What is left alone, and what is set
LEMMA Left ==
    ASSUME NEW f, NEW g, g = f, NEW d
    PROVE  Sets(f, g, d, f[d])
BY DEF Sets, Same

\* A session is ended by an error, by the application or by an end of its own
LEMMA AbortIs ==
    ASSUME IInv, NEW d \in Devices, InLoop(d), session[d].state # "none",
           NEW outcome, AbortSync(d, outcome), NEW r, Events(r), Ends(r) <=> Ends(queue[d])
    PROVE  \E m, s : /\ Sets(main, main', d, m) /\ Sets(session, session', d, s)
                     /\ Fine(worker[d], m, r, s, listening[d], asked[d], told[d])
<1> DEFINE s == session[d]
<1>1. /\ \A n : Fits(worker[d], n)
      /\ SessionHas \subseteq DOMAIN s /\ asked[d] \in Nat /\ told[d] \in Nat
      /\ s.state = "closed" <=> Ends(queue[d])
      /\ ~listening[d]
      /\ asked[d] = told[d] + (IF Engaged(s, listening[d]) THEN 1 ELSE 0)
  BY LoopIs
<1>2. CASE s.state = "closed"
  <2>1. Sets(main, main', d, main[d]) /\ Sets(session, session', d, s)
    BY <1>2, Left DEF AbortSync
  <2>2. Program(main[d]) /\ ~Reports(main[d]) /\ ~Deletes(main[d])
    BY NoProgram DEF InLoop
  <2>3. Fine(worker[d], main[d], r, s, listening[d], asked[d], told[d])
    BY <1>1, <1>2, <2>2 DEF Fine
  <2> QED
    BY <2>1, <2>3
<1>3. CASE s.state # "closed"
  <2> DEFINE x == Ended(d, outcome)
             m == Exit
  <2>1. session' = [session EXCEPT ![d] = x] /\ main' = [main EXCEPT ![d] = m]
    BY <1>3 DEF AbortSync, Run
  <2>2. SessionHas \subseteq DOMAIN x /\ x.state = "closed"
    <3> DEFINE y == [s EXCEPT !.state = "closed"]
    <3>1. SessionHas \subseteq DOMAIN y /\ y.state = "closed"
      BY <1>1 DEF SessionHas
    <3>2. x = [y EXCEPT !.outcome = outcome]
      BY DEF Ended
    <3> HIDE DEF y
    <3> QED
      BY <3>1, <3>2 DEF SessionHas
  <2>3. Program(m) /\ Reports(m) /\ ~Deletes(m)
    BY ExitIs
  <2> HIDE DEF x, m
  <2>4. Sets(main, main', d, m) /\ Sets(session, session', d, x)
    BY <2>1 DEF IInv, TypeOK, Sets, Same, OverDevices
  <2>5. ~Ends(r)
    BY <1>1, <1>3
  <2>6. Engaged(x, listening[d]) /\ Engaged(s, listening[d])
    BY <2>2 DEF Engaged
  <2>7. Fits(worker[d], m)
    BY <1>1
  <2>8. Fine(worker[d], m, r, x, listening[d], asked[d], told[d])
    BY <1>1, <2>2, <2>3, <2>5, <2>6, <2>7 DEF Fine
  <2> QED
    BY <2>4, <2>8
<1> QED
  BY <1>2, <1>3

\* A session takes a message
LEMMA ProcessIs ==
    ASSUME IInv, NEW d \in Devices, InLoop(d), NEW s, SessionHas \subseteq DOMAIN s,
           s.state = "open", NEW message, ProcessMessage(d, s, message),
           NEW r, Events(r), ~Ends(r), NEW a \in Nat, NEW t \in Nat, a = t + 1
    PROVE  \E m, x : /\ Sets(main, main', d, m) /\ Sets(session, session', d, x)
                     /\ Fine(worker[d], m, r, x, FALSE, a, t)
<1> DEFINE n == message.n + 1
           answer == Send(Message(n, message.of))
           taken == [s EXCEPT !.turn = n, !.of = message.of]
           finished == [taken EXCEPT !.state = "closed", !.turn = cfg.length, !.outcome = "finished"]
<1>1. SessionHas \subseteq DOMAIN taken /\ taken.state = "open"
  <2> DEFINE y == [s EXCEPT !.turn = n]
  <2>1. SessionHas \subseteq DOMAIN y /\ y.state = "open"
    BY DEF SessionHas
  <2>2. taken = [y EXCEPT !.of = message.of]
    OBVIOUS
  <2> HIDE DEF y, taken
  <2> QED
    BY <2>1, <2>2 DEF SessionHas
<1>2. SessionHas \subseteq DOMAIN finished /\ finished.state = "closed"
  <2> DEFINE y == [taken EXCEPT !.state = "closed"]
             z == [y EXCEPT !.turn = cfg.length]
  <2>1. SessionHas \subseteq DOMAIN y /\ y.state = "closed"
    <3> HIDE DEF taken
    <3> QED
      BY <1>1 DEF SessionHas
  <2>2. finished = [z EXCEPT !.outcome = "finished"]
    OBVIOUS
  <2> HIDE DEF y, finished
  <2>3. SessionHas \subseteq DOMAIN z /\ z.state = "closed"
    BY <2>1 DEF SessionHas
  <2> HIDE DEF z
  <2> QED
    BY <2>2, <2>3 DEF SessionHas
<1>3. answer.do = "send" /\ Do("receive").do = "receive"
  BY DEF Send, Do
<1>4. \A m : Fits(worker[d], m)
  BY LoopIs
<1>5. OverDevices(main) /\ OverDevices(session)
  BY DEF IInv, TypeOK
<1>6. \A x : Engaged(x, FALSE) <=> x.state # "none"
  BY DEF Engaged
<1>7. CASE n < cfg.length
  <2> DEFINE m == <<answer>> \o <<Do("receive")>>
  <2>1. session' = [session EXCEPT ![d] = taken] /\ main' = [main EXCEPT ![d] = m]
    BY <1>7 DEF ProcessMessage, Run
  <2>2. Program(m) /\ ~Reports(m) /\ ~Deletes(m)
    <3> DEFINE one == <<answer>>
               two == <<Do("receive")>>
    <3>1. Plain(one) /\ Plain(two)
      BY <1>3, PlainOne
    <3>2. m = one \o two
      OBVIOUS
    <3> HIDE DEF one, two
    <3>3. IsSeq(one \o two) /\ Range(one \o two) = Range(one) \cup Range(two)
      BY <3>1, JoinIs DEF Plain
    <3>4. Plain(one \o two)
      BY <3>1, <3>3 DEF Plain
    <3> QED
      BY <3>2, <3>4, PlainProgram
  <2> HIDE DEF m, taken
  <2>3. Sets(main, main', d, m) /\ Sets(session, session', d, taken)
    BY <1>5, <2>1 DEF Sets, Same, OverDevices
  <2>4. Fine(worker[d], m, r, taken, FALSE, a, t)
    BY <1>1, <1>4, <1>6, <2>2 DEF Fine
  <2> QED
    BY <2>3, <2>4
<1>8. CASE ~(n < cfg.length)
  <2> DEFINE m == IF n = cfg.length THEN <<answer>> \o Exit ELSE Exit
  <2>1. session' = [session EXCEPT ![d] = finished] /\ main' = [main EXCEPT ![d] = m]
    BY <1>8 DEF ProcessMessage, Run
  <2>2. Program(m) /\ Reports(m) /\ ~Deletes(m)
    <3> DEFINE one == <<answer>>
    <3>1. Plain(one)
      BY <1>3, PlainOne
    <3>2. m = one \o Exit \/ m = Exit
      OBVIOUS
    <3> HIDE DEF one, m
    <3> QED
      BY <3>1, <3>2, ExitIs, AnswerIs
  <2> HIDE DEF m, finished
  <2>3. Sets(main, main', d, m) /\ Sets(session, session', d, finished)
    BY <1>5, <2>1 DEF Sets, Same, OverDevices
  <2>4. Fine(worker[d], m, r, finished, FALSE, a, t)
    BY <1>2, <1>4, <1>6, <2>2 DEF Fine
  <2> QED
    BY <2>3, <2>4
<1> QED
  BY <1>7, <1>8


\* A session that a listener hands over to
LEMMA ServeIs ==
    ASSUME IInv, NEW d \in Devices, InLoop(d), listening[d], queue[d] # <<>>,
           NEW message, Serve(d, message)
    PROVE  \E m, x, r : /\ Sets(main, main', d, m) /\ Sets(session, session', d, x)
                        /\ Sets(queue, queue', d, r)
                        /\ Fine(worker[d], m, r, x, FALSE, asked[d], told[d])
<1> DEFINE created == [NoSession EXCEPT !.state = "open", !.of = message.of]
           q == queue[d]
           e == Enqueue(d, "stateChanged")
<1>1. /\ \A n : Fits(worker[d], n)
      /\ Events(q) /\ asked[d] \in Nat /\ told[d] \in Nat
      /\ session[d].state = "closed" <=> Ends(q)
      /\ session[d].state # "none" => ~listening[d]
      /\ session[d].state = "none" => \A x \in Range(q) : x.name \notin Vital
      /\ asked[d] = told[d] + (IF Engaged(session[d], listening[d]) THEN 1 ELSE 0)
  BY LoopIs
<1>2. ~Ends(q) /\ asked[d] = told[d] + 1
  BY <1>1 DEF Engaged
<1>3. Head(q).name # "syncFinished" /\ e.name # "syncFinished"
  <2>1. Head(q) \in Range(q)
    BY <1>1, HandledQueue
  <2> QED
    BY <1>2, <2>1 DEF Ends, Enqueue
<1>4. ASSUME NEW r \in {Tail(q), Append(Tail(q), e)}
      PROVE  Events(r) /\ ~Ends(r)
  <2> HIDE DEF q, e
  <2> QED
    BY <1>1, <1>2, <1>3, Dequeued DEF q
<1>5. SessionHas \subseteq DOMAIN created /\ created.state = "open"
  BY DEF NoSession, SessionHas
<1>6. OverDevices(main) /\ OverDevices(session) /\ OverDevices(queue)
  BY DEF IInv, TypeOK
<1>7. CASE d \in cfg.unprepared
  <2> DEFINE x == [created EXCEPT !.state = "closed", !.outcome = "internalError"]
             m == Exit
             r == Tail(q)
  <2>1. /\ session' = [session EXCEPT ![d] = x] /\ main' = [main EXCEPT ![d] = m]
        /\ queue' = [queue EXCEPT ![d] = r]
    BY <1>7 DEF Serve, Run
  <2>2. SessionHas \subseteq DOMAIN x /\ x.state = "closed"
    BY DEF NoSession, SessionHas
  <2>3. Program(m) /\ Reports(m) /\ ~Deletes(m)
    BY ExitIs
  <2>4. Events(r) /\ ~Ends(r)
    BY <1>4
  <2> HIDE DEF x, m, r
  <2>5. Sets(main, main', d, m) /\ Sets(session, session', d, x) /\ Sets(queue, queue', d, r)
    BY <1>6, <2>1 DEF Sets, Same, OverDevices
  <2>6. Fine(worker[d], m, r, x, FALSE, asked[d], told[d])
    BY <1>1, <1>2, <2>2, <2>3, <2>4 DEF Fine, Engaged
  <2> QED
    BY <2>5, <2>6
<1>8. CASE d \notin cfg.unprepared
  <2> DEFINE r == Append(Tail(q), e)
  <2>1. ProcessMessage(d, created, message) /\ queue' = [queue EXCEPT ![d] = r]
    BY <1>8 DEF Serve, Prepared
  <2>2. Events(r) /\ ~Ends(r)
    BY <1>4
  <2> HIDE DEF created, r
  <2>3. PICK m, x : /\ Sets(main, main', d, m) /\ Sets(session, session', d, x)
                    /\ Fine(worker[d], m, r, x, FALSE, asked[d], told[d])
    BY <1>1, <1>2, <1>5, <2>1, <2>2, ProcessIs
  <2>4. Sets(queue, queue', d, r)
    BY <1>6, <2>1 DEF Sets, Same, OverDevices
  <2> QED
    BY <2>3, <2>4
<1> QED
  BY <1>7, <1>8

LEMMA InitiateStep ==
    ASSUME IInv, NEW d \in Devices, Handles(d, "initiateSync"), InitiateSync(d)
    PROVE  IInv'
<1> DEFINE q == queue[d]
           s == session[d]
           e == Enqueue(d, "stateChanged")
<1>1. InLoop(d) /\ q # <<>> /\ Head(q).name = "initiateSync"
  BY DEF Handles
<1>2. /\ \A n : Fits(worker[d], n)
      /\ Events(q) /\ asked[d] \in Nat /\ told[d] \in Nat /\ SessionHas \subseteq DOMAIN s
      /\ s.state = "closed" <=> Ends(q)
      /\ s.state # "none" => ~listening[d]
      /\ s.state = "none" => \A x \in Range(q) : x.name \notin Vital
      /\ asked[d] = told[d] + (IF Engaged(s, listening[d]) THEN 1 ELSE 0)
  BY <1>1, LoopIs
<1>3. s.state # "none"
  <2>1. Head(q) \in Range(q)
    BY <1>1, <1>2, HandledQueue
  <2> QED
    BY <1>1, <1>2, <2>1 DEF Vital
<1>4. ASSUME NEW r \in {Tail(q), Append(Tail(q), e)}
      PROVE  Events(r) /\ (Ends(r) <=> Ends(q))
  <2>1. e.name # "syncFinished"
    BY DEF Enqueue
  <2> HIDE DEF q, e
  <2> QED
    BY <1>1, <1>2, <2>1, Dequeued
<1>5. listening' = listening /\ asked' = asked /\ told' = told
  BY DEF InitiateSync
<1>6. /\ Sets(listening, listening', d, listening[d]) /\ Sets(asked, asked', d, asked[d])
      /\ Sets(told, told', d, told[d])
  BY <1>5, Left
<1>7. OverDevices(main) /\ OverDevices(session) /\ OverDevices(queue) /\ OverDevices(worker)
  BY DEF IInv, TypeOK
<1>8. ASSUME NEW r \in {Tail(q), Append(Tail(q), e)}, queue' = [queue EXCEPT ![d] = r],
             worker' = worker, NEW outcome, AbortSync(d, outcome)
      PROVE  IInv'
  <2>1. Events(r) /\ (Ends(r) <=> Ends(queue[d]))
    BY <1>4
  <2>2. PICK m, x : /\ Sets(main, main', d, m) /\ Sets(session, session', d, x)
                    /\ Fine(worker[d], m, r, x, listening[d], asked[d], told[d])
    BY <1>1, <1>3, <1>8, <2>1, AbortIs
  <2>3. Sets(queue, queue', d, r) /\ Sets(worker, worker', d, worker[d])
    BY <1>7, <1>8, Left DEF Sets, Same, OverDevices
  <2> HIDE DEF s, q, e
  <2> QED
    BY <1>6, <2>2, <2>3, Moved
<1>9. CASE d \in cfg.unprepared
  BY <1>8, <1>9 DEF InitiateSync
<1>10. CASE d \notin cfg.unprepared /\ ~CanConnect(d)
  BY <1>8, <1>10 DEF InitiateSync, Prepared
<1>11. CASE d \notin cfg.unprepared /\ CanConnect(d)
  <2> DEFINE state == IF s.state = "closed" THEN s.state ELSE "open"
             x == [s EXCEPT !.state = state, !.turn = 1, !.of = asked[d]]
             w == NewWorker(asked[d])
             r == Append(Tail(q), e)
             first == FirstMessage(d)
             m == <<first, Do("receive")>>
  <2>1. /\ session' = [session EXCEPT ![d] = x] /\ main' = [main EXCEPT ![d] = m]
        /\ worker' = [worker EXCEPT ![d] = w] /\ queue' = [queue EXCEPT ![d] = r]
    <3>1. /\ Prepared(d) /\ InitTransport(d, asked[d])
          /\ session' = [session EXCEPT ![d] = Begun(d)]
          /\ Run(d, <<FirstMessage(d), Do("receive")>>)
      BY <1>11 DEF InitiateSync
    <3>2. session' = [session EXCEPT ![d] = x]
      <4>1. Begun(d) = x
        BY DEF Begun
      <4> HIDE DEF x
      <4> QED
        BY <3>1, <4>1
    <3>3. main' = [main EXCEPT ![d] = m]
      BY <3>1 DEF Run
    <3>4. worker' = [worker EXCEPT ![d] = w]
      BY <3>1 DEF InitTransport
    <3>5. queue' = [queue EXCEPT ![d] = r]
      BY <3>1 DEF Prepared
    <3> QED
      BY <3>2, <3>3, <3>4, <3>5
  <2>2. SessionHas \subseteq DOMAIN x /\ x.state = state
    <3> DEFINE y == [s EXCEPT !.state = state]
               z == [y EXCEPT !.turn = 1]
    <3>1. x = [z EXCEPT !.of = asked[d]]
      OBVIOUS
    <3> HIDE DEF x, state
    <3>2. SessionHas \subseteq DOMAIN y /\ y.state = state
      BY <1>2 DEF SessionHas
    <3> HIDE DEF y
    <3>3. SessionHas \subseteq DOMAIN z /\ z.state = state
      BY <3>2 DEF SessionHas
    <3> HIDE DEF z
    <3> QED
      BY <3>1, <3>3 DEF SessionHas
  <2>3. Program(m) /\ ~Reports(m) /\ ~Deletes(m)
    <3>1. first.do \in {"send", "doSend"} /\ Do("receive").do = "receive"
      BY DEF FirstMessage, Send, Do
    <3> HIDE DEF first
    <3>2. Plain(<<first, Do("receive")>>)
      BY <3>1, PlainTwo
    <3> QED
      BY <3>2, PlainProgram
  <2>4. Events(r) /\ (Ends(r) <=> Ends(q))
    BY <1>4
  <2>5. Fits(w, m)
    BY NewFits
  <2> HIDE DEF x, w, r, first, m
  <2>6. /\ Sets(main, main', d, m) /\ Sets(session, session', d, x) /\ Sets(queue, queue', d, r)
        /\ Sets(worker, worker', d, w)
    BY <1>7, <2>1 DEF Sets, Same, OverDevices
  <2>7. x.state = "closed" <=> Ends(r)
    BY <1>2, <2>2, <2>4
  <2>8. x.state # "none" /\ ~listening[d]
    BY <1>2, <1>3, <2>2
  <2>9. Engaged(x, listening[d]) /\ Engaged(s, listening[d])
    BY <1>3, <2>8 DEF Engaged
  <2>10. Fine(w, m, r, x, listening[d], asked[d], told[d])
    <3> HIDE DEF s, q, e, state
    <3> QED
      BY <1>2, <2>2, <2>3, <2>4, <2>5, <2>7, <2>8, <2>9 DEF Fine
  <2> HIDE DEF s, q, e, state
  <2> QED
    BY <1>6, <2>6, <2>10, Moved
<1> QED
  BY <1>9, <1>10, <1>11


\* Which queue an event leaves, that is neither the end of a session nor vital
LEMMA HandledIs ==
    ASSUME IInv, NEW d \in Devices, NEW name, Handles(d, name), name # "syncFinished"
    PROVE  /\ Events(Tail(queue[d])) /\ (Ends(Tail(queue[d])) <=> Ends(queue[d]))
           /\ Range(Tail(queue[d])) \subseteq Range(queue[d])
           /\ name \in Vital => session[d].state # "none"
<1>1. InLoop(d) /\ queue[d] # <<>> /\ Head(queue[d]).name = name
  BY DEF Handles
<1>2. /\ Events(queue[d])
      /\ session[d].state = "none" => \A x \in Range(queue[d]) : x.name \notin Vital
  BY <1>1, LoopIs
<1>3. /\ Events(Tail(queue[d])) /\ Range(Tail(queue[d])) \subseteq Range(queue[d])
      /\ Head(queue[d]) \in Range(queue[d])
      /\ (Ends(Tail(queue[d])) <=> Ends(queue[d]))
  BY <1>1, <1>2, HandledQueue
<1> QED
  BY <1>1, <1>2, <1>3

\* An event that ends the session, or may
LEMMA AbortStep ==
    ASSUME IInv, NEW d \in Devices, NEW name, Handles(d, name), name # "syncFinished",
           session[d].state # "none", NEW outcome, AbortSync(d, outcome), Dequeue(d),
           UNCHANGED <<worker, listening, asked, told>>
    PROVE  IInv'
<1> DEFINE r == Tail(queue[d])
<1>1. Events(r) /\ (Ends(r) <=> Ends(queue[d])) /\ InLoop(d)
  BY HandledIs DEF Handles
<1>2. queue' = [queue EXCEPT ![d] = r] /\ OverDevices(queue)
  BY DEF Dequeue, IInv, TypeOK
<1> HIDE DEF r
<1>3. PICK m, x : /\ Sets(main, main', d, m) /\ Sets(session, session', d, x)
                  /\ Fine(worker[d], m, r, x, listening[d], asked[d], told[d])
  BY <1>1, AbortIs
<1>4. /\ Sets(queue, queue', d, r) /\ Sets(worker, worker', d, worker[d])
      /\ Sets(listening, listening', d, listening[d]) /\ Sets(asked, asked', d, asked[d])
      /\ Sets(told, told', d, told[d])
  BY <1>2, Left DEF Sets, Same, OverDevices
<1> QED
  BY <1>3, <1>4, Moved

\* An event that changes nothing else
LEMMA HeardStep ==
    ASSUME IInv, NEW d \in Devices, NEW name, Handles(d, name), name # "syncFinished",
           Dequeue(d), UNCHANGED <<worker, main, session, listening, asked, told>>
    PROVE  IInv'
<1> DEFINE r == Tail(queue[d])
<1>1. /\ Events(r) /\ (Ends(r) <=> Ends(queue[d])) /\ InLoop(d)
      /\ Range(r) \subseteq Range(queue[d])
  BY HandledIs DEF Handles
<1>2. queue' = [queue EXCEPT ![d] = r] /\ OverDevices(queue)
  BY DEF Dequeue, IInv, TypeOK
<1> HIDE DEF r
<1>3. Fine(worker[d], main[d], queue[d], session[d], listening[d], asked[d], told[d])
  BY DEF IInv, FineAt
<1>4. Fine(worker[d], main[d], r, session[d], listening[d], asked[d], told[d])
  BY <1>1, <1>3 DEF Fine
<1>5. /\ Sets(queue, queue', d, r) /\ Sets(worker, worker', d, worker[d])
      /\ Sets(main, main', d, main[d]) /\ Sets(session, session', d, session[d])
      /\ Sets(listening, listening', d, listening[d]) /\ Sets(asked, asked', d, asked[d])
      /\ Sets(told, told', d, told[d])
  BY <1>2, Left DEF Sets, Same, OverDevices
<1> QED
  BY <1>4, <1>5, Moved

\* A listener that fails
LEMMA ListenErrorStep ==
    ASSUME IInv, NEW d \in Devices, NEW name, Handles(d, name), name # "syncFinished",
           listening[d], NEW outcome, ListenError(d, outcome), Dequeue(d),
           UNCHANGED <<worker, asked>>
    PROVE  IInv'
<1> DEFINE r == Tail(queue[d])
           t == told[d] + 1
           s == session[d]
<1>1. /\ Events(r) /\ (Ends(r) <=> Ends(queue[d])) /\ InLoop(d)
      /\ Range(r) \subseteq Range(queue[d])
  BY HandledIs DEF Handles
<1>2. queue' = [queue EXCEPT ![d] = r] /\ told' = [told EXCEPT ![d] = t]
      /\ listening' = [listening EXCEPT ![d] = FALSE] /\ session' = session /\ main' = main
  BY DEF Dequeue, ListenError, FinishSync
<1>3. OverDevices(queue) /\ OverDevices(told) /\ OverDevices(listening)
  BY DEF IInv, TypeOK
<1>4. /\ \A n : Fits(worker[d], n)
      /\ SessionHas \subseteq DOMAIN s /\ asked[d] \in Nat /\ told[d] \in Nat
      /\ s.state = "closed" <=> Ends(queue[d])
      /\ s.state # "none" => ~listening[d]
      /\ s.state = "none" => \A x \in Range(queue[d]) : x.name \notin Vital
      /\ asked[d] = told[d] + (IF Engaged(s, listening[d]) THEN 1 ELSE 0)
  BY <1>1, LoopIs
<1>5. Program(main[d]) /\ ~Reports(main[d]) /\ ~Deletes(main[d])
  BY <1>1, NoProgram DEF InLoop
<1>6. s.state = "none" /\ Engaged(s, listening[d]) /\ ~Engaged(s, FALSE)
  BY <1>4 DEF Engaged
<1>7. t \in Nat /\ asked[d] = t + 0
  BY <1>4, <1>6
<1> HIDE DEF r, t, s
<1>8. Fine(worker[d], main[d], r, s, FALSE, asked[d], t)
  BY <1>1, <1>4, <1>5, <1>6, <1>7 DEF Fine
<1>9. /\ Sets(queue, queue', d, r) /\ Sets(told, told', d, t)
      /\ Sets(listening, listening', d, FALSE)
  BY <1>2, <1>3 DEF Sets, Same, OverDevices
<1>10. /\ Sets(main, main', d, main[d]) /\ Sets(session, session', d, s)
       /\ Sets(worker, worker', d, worker[d]) /\ Sets(asked, asked', d, asked[d])
  BY <1>2, Left DEF s
<1> QED
  BY <1>8, <1>9, <1>10, Moved

LEMMA FinishedStep ==
    ASSUME IInv, NEW d \in Devices, Handles(d, "syncFinished"), ReceiveSyncFinished(d)
    PROVE  IInv'
<1> DEFINE q == queue[d]
           rest == Tail(q)
           r == Kept(rest, ForSession)
           t == told[d] + 1
<1>1. InLoop(d) /\ q # <<>> /\ Head(q).name = "syncFinished"
  BY DEF Handles
<1>2. /\ \A n : Fits(worker[d], n)
      /\ Events(q) /\ asked[d] \in Nat /\ told[d] \in Nat
      /\ session[d].state = "closed" <=> Ends(q)
      /\ session[d].state # "none" => ~listening[d]
      /\ asked[d] = told[d] + (IF Engaged(session[d], listening[d]) THEN 1 ELSE 0)
  BY <1>1, LoopIs
<1> HIDE DEF q
<1>3. Ends(q) /\ Events(rest) /\ ~Ends(rest)
  BY <1>1, <1>2, HandledQueue
<1> HIDE DEF rest
<1>4. /\ Events(r) /\ ~Ends(r)
      /\ \A e \in Range(r) : e \in Range(rest) /\ e.name \notin ForSession
  BY <1>3, KeptQueue
<1> HIDE DEF r
<1>5. \A e \in Range(r) : e.name \notin Vital
  BY <1>4 DEF Ends, Vital, ForSession
<1>6. ~listening[d] /\ Engaged(session[d], listening[d]) /\ ~Engaged(NoSession, listening[d])
  BY <1>2, <1>3 DEF Engaged, NoSession
<1>7. t \in Nat /\ asked[d] = t + 0
  BY <1>2, <1>6
<1>8. /\ session' = [session EXCEPT ![d] = NoSession] /\ told' = [told EXCEPT ![d] = t]
      /\ queue' = [queue EXCEPT ![d] = r]
      /\ UNCHANGED <<worker, main, listening, asked>>
  BY DEF ReceiveSyncFinished, FinishSync, r, rest, q
<1> HIDE DEF t
<1>9. OverDevices(queue) /\ OverDevices(told) /\ OverDevices(session)
  BY DEF IInv, TypeOK
<1>10. Program(main[d]) /\ ~Reports(main[d]) /\ ~Deletes(main[d])
  BY <1>1, NoProgram DEF InLoop
<1>11. SessionHas \subseteq DOMAIN NoSession /\ NoSession.state = "none"
  BY DEF NoSession, SessionHas
<1> DEFINE s == NoSession
<1>12. SessionHas \subseteq DOMAIN s /\ s.state = "none" /\ ~Engaged(s, listening[d])
  BY <1>6, <1>11
<1>13. /\ Sets(queue, queue', d, r) /\ Sets(told, told', d, t) /\ Sets(session, session', d, s)
  BY <1>8, <1>9 DEF Sets, Same, OverDevices
<1> HIDE DEF s
<1>14. Fine(worker[d], main[d], r, s, listening[d], asked[d], t)
  BY <1>2, <1>4, <1>5, <1>7, <1>10, <1>12 DEF Fine
<1>15. /\ Sets(main, main', d, main[d]) /\ Sets(listening, listening', d, listening[d])
       /\ Sets(worker, worker', d, worker[d]) /\ Sets(asked, asked', d, asked[d])
  BY <1>8, Left
<1> QED
  BY <1>13, <1>14, <1>15, Moved


LEMMA ParsedStep ==
    ASSUME IInv, NEW d \in Devices, Handles(d, "parsed"), HandleParsingComplete(d), Dequeue(d)
    PROVE  IInv'
<1>1. UNCHANGED <<worker, listening, asked, told>>
  BY DEF HandleParsingComplete
<1>2. CASE session[d].state # "open"
  <2>1. UNCHANGED <<main, session>>
    BY <1>2 DEF HandleParsingComplete
  <2> QED
    BY <1>1, <2>1, HeardStep
<1>3. CASE session[d].state = "open"
  <2> DEFINE s == session[d]
             q == queue[d]
             r == Tail(q)
             message == Head(q).message
  <2>1. ProcessMessage(d, s, message)
    BY <1>3 DEF HandleParsingComplete
  <2>2. InLoop(d)
    BY DEF Handles
  <2>3. /\ SessionHas \subseteq DOMAIN s /\ asked[d] \in Nat /\ told[d] \in Nat
        /\ s.state = "closed" <=> Ends(q)
        /\ s.state # "none" => ~listening[d]
        /\ asked[d] = told[d] + (IF Engaged(s, listening[d]) THEN 1 ELSE 0)
    BY <2>2, LoopIs
  <2>4. Events(r) /\ (Ends(r) <=> Ends(q))
    BY HandledIs
  <2>5. ~Ends(r) /\ ~listening[d] /\ asked[d] = told[d] + 1 /\ s.state = "open"
    BY <1>3, <2>3, <2>4 DEF Engaged
  <2>6. queue' = [queue EXCEPT ![d] = r] /\ OverDevices(queue)
    BY DEF Dequeue, IInv, TypeOK
  <2> HIDE DEF message, r, s, q
  <2>7. PICK m, x : /\ Sets(main, main', d, m) /\ Sets(session, session', d, x)
                    /\ Fine(worker[d], m, r, x, FALSE, asked[d], told[d])
    BY <2>1, <2>2, <2>3, <2>4, <2>5, ProcessIs
  <2>8. Fine(worker[d], m, r, x, listening[d], asked[d], told[d])
    BY <2>5, <2>7 DEF Fine, Engaged
  <2>9. /\ Sets(queue, queue', d, r) /\ Sets(worker, worker', d, worker[d])
         /\ Sets(listening, listening', d, listening[d]) /\ Sets(asked, asked', d, asked[d])
         /\ Sets(told, told', d, told[d])
    BY <1>1, <2>6, Left DEF Sets, Same, OverDevices
  <2> QED
    BY <2>7, <2>8, <2>9, Moved
<1> QED
  BY <1>2, <1>3

LEMMA IncomingStep ==
    ASSUME IInv, NEW d \in Devices, Handles(d, "incomingData"), IncomingData(d)
    PROVE  IInv'
<1> DEFINE q == queue[d]
           s == session[d]
           e == Head(q)
<1>1. InLoop(d) /\ q # <<>> /\ e.name = "incomingData" /\ e.name # "syncFinished"
  BY DEF Handles
<1>2. worker' = worker /\ asked' = asked
  BY DEF IncomingData
<1>3. /\ SessionHas \subseteq DOMAIN s /\ Events(q)
      /\ s.state # "none" => ~listening[d]
  BY <1>1, LoopIs
<1>4. CASE listening[d] /\ cfg.garbled
  <2>1. ListenError(d, "invalidMessage") /\ Dequeue(d)
    BY <1>4 DEF IncomingData, Dequeue
  <2> QED
    BY <1>2, <1>4, <2>1, ListenErrorStep
<1>5. CASE listening[d] /\ ~cfg.garbled
  <2>1. /\ Serve(d, e.message) /\ told' = told
        /\ listening' = [listening EXCEPT ![d] = FALSE]
    BY <1>5 DEF IncomingData
  <2> DEFINE message == e.message
  <2>2. Serve(d, message) /\ queue[d] # <<>>
    BY <1>1, <2>1
  <2> HIDE DEF message
  <2>3. PICK m, x, r : /\ Sets(main, main', d, m) /\ Sets(session, session', d, x)
                       /\ Sets(queue, queue', d, r)
                       /\ Fine(worker[d], m, r, x, FALSE, asked[d], told[d])
    BY <1>1, <1>5, <2>2, ServeIs
  <2>4. Sets(listening, listening', d, FALSE)
    BY <2>1 DEF IInv, TypeOK, Sets, Same, OverDevices
  <2>5. /\ Sets(worker, worker', d, worker[d]) /\ Sets(asked, asked', d, asked[d])
        /\ Sets(told, told', d, told[d])
    BY <1>2, <2>1, Left
  <2> QED
    BY <2>3, <2>4, <2>5, Moved
<1>6. CASE ~listening[d]
  <2> DEFINE p == [name |-> "parsed", message |-> e.message, of |-> e.of]
             r == IF s.state = "none" THEN Tail(q) ELSE Append(Tail(q), p)
  <2>1. /\ queue' = [queue EXCEPT ![d] = r] /\ UNCHANGED <<session, main, told>>
        /\ listening' = [listening EXCEPT ![d] = FALSE]
    BY <1>6 DEF IncomingData
  <2>2. p.name = "parsed" /\ r \in {Tail(q), Append(Tail(q), p)}
    OBVIOUS
  <2> HIDE DEF r, p
  <2>3. Events(r) /\ (Ends(r) <=> Ends(q)) /\ Range(r) \subseteq Range(q) \cup {p}
    <3> HIDE DEF q
    <3> QED
      BY <1>1, <1>3, <2>2, Dequeued
  <2>4. Fine(worker[d], main[d], q, s, listening[d], asked[d], told[d])
    BY DEF IInv, FineAt
  <2>5. \A v \in Range(r) : v.name \in Vital => v \in Range(q)
    BY <2>2, <2>3 DEF Vital
  <2>6. Engaged(s, FALSE) <=> Engaged(s, listening[d])
    BY <1>6 DEF Engaged
  <2>7. Fine(worker[d], main[d], r, s, FALSE, asked[d], told[d])
    <3> HIDE DEF q, s
    <3> QED
      BY <2>3, <2>4, <2>5, <2>6 DEF Fine
  <2>8. Sets(listening, listening', d, FALSE) /\ Sets(queue, queue', d, r)
    BY <2>1 DEF IInv, TypeOK, Sets, Same, OverDevices
  <2>9. /\ Sets(worker, worker', d, worker[d]) /\ Sets(asked, asked', d, asked[d])
        /\ Sets(told, told', d, told[d]) /\ Sets(main, main', d, main[d])
        /\ Sets(session, session', d, s)
    BY <1>2, <2>1, Left
  <2> HIDE DEF q, s
  <2> QED
    BY <2>7, <2>8, <2>9, Moved
<1> QED
  BY <1>4, <1>5, <1>6

LEMMA EventStep ==
    ASSUME IInv, NEW d \in Devices, HandleEvent(d)
    PROVE  IInv'
<1>1. CASE Handles(d, "initiateSync") /\ InitiateSync(d)
  BY <1>1, InitiateStep
<1>2. CASE Handles(d, "syncFinished") /\ ReceiveSyncFinished(d)
  BY <1>2, FinishedStep
<1>3. CASE Handles(d, "incomingData") /\ IncomingData(d)
  BY <1>3, IncomingStep
<1>4. CASE Handles(d, "stateChanged") /\ StateChanged(d) /\ Dequeue(d)
  <2>1. UNCHANGED <<worker, main, session, listening, asked, told>>
    BY <1>4 DEF StateChanged, agentVars
  <2> QED
    BY <1>4, <2>1, HeardStep
<1>5. CASE Handles(d, "parsed") /\ HandleParsingComplete(d) /\ Dequeue(d)
  BY <1>5, ParsedStep
<1>6. CASE Handles(d, "suspendSync") /\ SuspendSync(d) /\ Dequeue(d)
  <2>1. AbortSync(d, "internalError") /\ UNCHANGED <<worker, listening, asked, told>>
    BY <1>6 DEF SuspendSync
  <2>2. session[d].state # "none"
    BY <1>6, HandledIs DEF Vital
  <2> QED
    BY <1>6, <2>1, <2>2, AbortStep
<1>7. ASSUME NEW name \in TransportEvents \ {"incomingData"}, Handles(d, name),
             TransportEvent(d), Dequeue(d)
      PROVE  IInv'
  <2>1. name # "syncFinished"
    BY DEF TransportEvents
  <2>2. worker' = worker /\ asked' = asked
    BY <1>7 DEF TransportEvent
  <2>3. CASE listening[d]
    <3>1. ListenError(d, "connectionError")
      BY <1>7, <2>3 DEF TransportEvent
    <3> QED
      BY <1>7, <2>1, <2>2, <2>3, <3>1, ListenErrorStep
  <2>4. CASE ~listening[d] /\ session[d].state = "open"
    <3>1. AbortSync(d, "connectionError") /\ UNCHANGED <<listening, told>>
      BY <1>7, <2>4 DEF TransportEvent
    <3>2. session[d].state # "none"
      BY <2>4
    <3> QED
      BY <1>7, <2>1, <2>2, <3>1, <3>2, AbortStep
  <2>5. CASE ~listening[d] /\ session[d].state # "open"
    <3>1. UNCHANGED <<session, main, listening, told>>
      BY <1>7, <2>5 DEF TransportEvent
    <3> QED
      BY <1>7, <2>1, <2>2, <3>1, HeardStep
  <2> QED
    BY <2>3, <2>4, <2>5
<1> QED
  BY <1>1, <1>2, <1>3, <1>4, <1>5, <1>6, <1>7 DEF HandleEvent


\* A transport is deleted by an application whose agent is idle
LEMMA DeletingStep ==
    ASSUME IInv, NEW d \in Devices, DeleteTransport(d)
    PROVE  IInv'
<1> DEFINE m == <<Do("close"), Do("delete")>>
<1>1. /\ InLoop(d) /\ ~Busy(d) /\ main' = [main EXCEPT ![d] = m]
      /\ UNCHANGED <<worker, queue, session, listening, asked, told>>
  BY DEF DeleteTransport, Run, agentVars
<1>2. Program(m) /\ ~Reports(m)
  <2>1. m \in Seq({Do("close"), Do("delete")})
    OBVIOUS
  <2>2. Do("close").do = "close" /\ Do("delete").do = "delete"
    BY DEF Do
  <2> HIDE DEF m
  <2>3. IsSeq(m) /\ Range(m) \subseteq {Do("close"), Do("delete")}
    BY <2>1, AnySeq
  <2>4. \A i \in 1 .. Len(m) : m[i] \in Range(m)
    BY <2>3, SeqIs
  <2> QED
    BY <2>2, <2>3, <2>4 DEF Program, Reports
<1> HIDE DEF m
<1>3. /\ Fine(worker[d], main[d], queue[d], session[d], listening[d], asked[d], told[d])
      /\ Fits(worker[d], m) /\ ~Reports(main[d])
  <2>1. main[d] = <<>>
    BY <1>1 DEF InLoop
  <2> QED
    BY <1>1, <2>1, LoopIs, NoProgram DEF IInv, FineAt
<1>4. session[d].state = "none"
  BY <1>1 DEF Busy
<1>5. Fine(worker[d], m, queue[d], session[d], listening[d], asked[d], told[d])
  BY <1>2, <1>3, <1>4 DEF Fine
<1>6. Sets(main, main', d, m)
  BY <1>1 DEF IInv, TypeOK, Sets, Same, OverDevices
<1>7. /\ Sets(worker, worker', d, worker[d]) /\ Sets(asked, asked', d, asked[d])
      /\ Sets(told, told', d, told[d]) /\ Sets(queue, queue', d, queue[d])
      /\ Sets(session, session', d, session[d]) /\ Sets(listening, listening', d, listening[d])
  BY <1>1, Left
<1> QED
  BY <1>5, <1>6, <1>7, Moved

\* What its worker had posted goes with it
LEMMA DeletedStep ==
    ASSUME IInv, NEW d \in Devices, Deleted(d)
    PROVE  IInv'
<1> DEFINE m == main[d]
           n == Tail(m)
           q == queue[d]
           r == Kept(q, TransportEvents)
<1>1. /\ m # <<>> /\ Head(m).do = "delete" /\ Then(d, <<>>)
      /\ queue' = [queue EXCEPT ![d] = r]
      /\ UNCHANGED <<worker, session, listening, asked, told>>
  BY DEF Deleted, AtStep, agentVars
<1>2. Fine(worker[d], m, q, session[d], listening[d], asked[d], told[d])
  BY DEF IInv, FineAt
<1>3. OverDevices(main) /\ OverDevices(queue)
  BY DEF IInv, TypeOK
<1> HIDE DEF m, q
<1>4. IsSeq(m) /\ Program(m)
  BY <1>2 DEF Fine, Program
<1>5. Deletes(m)
  BY <1>1, <1>4, TailIs DEF Deletes
<1>6. session[d].state = "none" /\ ~Reports(m) /\ ~Ends(q) /\ Events(q)
  BY <1>2, <1>5 DEF Fine
<1>7. Program(n) /\ ~Reports(n)
  BY <1>1, <1>4, <1>6, NextIs
<1>8. /\ Events(r) /\ ~Ends(r) /\ \A e \in Range(r) : e \in Range(q)
  BY <1>6, KeptQueue
<1>9. main' = [main EXCEPT ![d] = n]
  <2>1. <<>> \o Tail(m) = Tail(m)
    BY <1>1, <1>4, TailIs, ConcatEmptySeq DEF IsSeq
  <2> QED
    BY <1>1, <2>1 DEF Then, m
<1> HIDE DEF n, r
<1>10. Fits(worker[d], n)
  <2>1. Fits(worker[d], m) /\ ~Awaits(m)
    BY <1>1, <1>2 DEF Fine, Awaits
  <2> QED
    BY <2>1, Idle
<1>11. Fine(worker[d], n, r, session[d], listening[d], asked[d], told[d])
  BY <1>2, <1>6, <1>7, <1>8, <1>10 DEF Fine
<1>12. Sets(main, main', d, n) /\ Sets(queue, queue', d, r)
  BY <1>1, <1>3, <1>9 DEF Sets, Same, OverDevices
<1>13. /\ Sets(worker, worker', d, worker[d]) /\ Sets(asked, asked', d, asked[d])
       /\ Sets(told, told', d, told[d]) /\ Sets(session, session', d, session[d])
       /\ Sets(listening, listening', d, listening[d])
  BY <1>1, Left
<1> QED
  BY <1>11, <1>12, <1>13, Moved

\* The end of a session is queued towards its agent
LEMMA ReportStep ==
    ASSUME IInv, NEW d \in Devices, ReportEnd(d)
    PROVE  IInv'
<1> DEFINE m == main[d]
           n == <<>>
           q == queue[d]
           e == Enqueue(d, "syncFinished")
           r == Append(q, e)
<1>1. /\ m # <<>> /\ Head(m).do = "report" /\ Then(d, <<>>)
      /\ queue' = [queue EXCEPT ![d] = r]
      /\ UNCHANGED <<worker, session, listening, asked, told>>
  BY DEF ReportEnd, AtStep, agentVars
<1>2. Fine(worker[d], m, q, session[d], listening[d], asked[d], told[d])
  BY DEF IInv, FineAt
<1>3. OverDevices(main) /\ OverDevices(queue)
  BY DEF IInv, TypeOK
<1>4. e.name = "syncFinished"
  BY DEF Enqueue
<1> HIDE DEF m, q, e
<1>5. IsSeq(m) /\ Program(m) /\ Tail(m) = <<>>
  BY <1>1, <1>2, LastIs DEF Fine, Program
<1>6. Reports(m)
  BY <1>1, <1>5, TailIs DEF Reports
<1>7. session[d].state = "closed" /\ ~Ends(q) /\ Events(q)
  BY <1>2, <1>6 DEF Fine
<1>8. Events(r) /\ Ends(r)
  BY <1>4, <1>7, ReportedQueue
<1>9. Program(n) /\ ~Reports(n) /\ ~Deletes(n)
  BY NoProgram
<1>10. main' = [main EXCEPT ![d] = n]
  <2>1. <<>> \o Tail(m) = n
    BY <1>5, EmptyIs, ConcatEmptySeq DEF IsSeq
  <2> QED
    BY <1>1, <2>1 DEF Then, m
<1> HIDE DEF n, r
<1>11. Fits(worker[d], n)
  <2>1. Fits(worker[d], m) /\ ~Awaits(m)
    BY <1>1, <1>2 DEF Fine, Awaits
  <2> QED
    BY <2>1, Idle
<1>12. Fine(worker[d], n, r, session[d], listening[d], asked[d], told[d])
  BY <1>2, <1>7, <1>8, <1>9, <1>11 DEF Fine
<1>13. Sets(main, main', d, n) /\ Sets(queue, queue', d, r)
  BY <1>1, <1>3, <1>10 DEF Sets, Same, OverDevices
<1>14. /\ Sets(worker, worker', d, worker[d]) /\ Sets(asked, asked', d, asked[d])
       /\ Sets(told, told', d, told[d]) /\ Sets(session, session', d, session[d])
       /\ Sets(listening, listening', d, listening[d])
  BY <1>1, Left
<1> QED
  BY <1>12, <1>13, <1>14, Moved


-----------------------------------------------------------------------------
(***************************************************************************)
(* What the application asks for                                           *)
(***************************************************************************)
LEMMA StartStep ==
    ASSUME IInv, StartSync
    PROVE  IInv'
<1> DEFINE d == "client"
           q == queue[d]
           e == [Enqueue(d, "initiateSync") EXCEPT !.of = asked[d] + 1]
           r == Append(q, e)
           s == session[d]
           x == [NoSession EXCEPT !.state = "created"]
           a == asked[d] + 1
<1>1. /\ InLoop(d) /\ ~Busy(d)
      /\ session' = [session EXCEPT ![d] = x] /\ asked' = [asked EXCEPT ![d] = a]
      /\ queue' = [queue EXCEPT ![d] = r]
      /\ UNCHANGED <<worker, main, listening, told>>
  BY DEF StartSync, Accept
<1>2. d \in Devices /\ OverDevices(session) /\ OverDevices(asked) /\ OverDevices(queue)
  BY DEF Devices, IInv, TypeOK
<1>3. e.name = "initiateSync"
  BY DEF Enqueue
<1>4. SessionHas \subseteq DOMAIN x /\ x.state = "created"
  BY DEF NoSession, SessionHas
<1> HIDE DEF d, e, x
<1>5. /\ \A n : Fits(worker[d], n)
      /\ Events(q) /\ asked[d] \in Nat /\ told[d] \in Nat
      /\ s.state = "closed" <=> Ends(q)
      /\ asked[d] = told[d] + (IF Engaged(s, listening[d]) THEN 1 ELSE 0)
  BY <1>1, <1>2, LoopIs
<1>6. s.state = "none" /\ ~listening[d]
  BY <1>1 DEF Busy
<1>7. Program(main[d]) /\ ~Reports(main[d]) /\ ~Deletes(main[d])
  BY <1>1, NoProgram DEF InLoop
<1>8. Events(r) /\ ~Ends(r)
  BY <1>3, <1>5, <1>6, AddedOne
<1>9. ~Engaged(s, listening[d]) /\ Engaged(x, listening[d])
  BY <1>4, <1>6 DEF Engaged
<1>10. a \in Nat /\ a = told[d] + 1
  BY <1>5, <1>9
<1> HIDE DEF r, s, a
<1>11. Fine(worker[d], main[d], r, x, listening[d], a, told[d])
  BY <1>4, <1>5, <1>6, <1>7, <1>8, <1>9, <1>10 DEF Fine
<1>12. Sets(session, session', d, x) /\ Sets(asked, asked', d, a) /\ Sets(queue, queue', d, r)
  BY <1>1, <1>2 DEF Sets, Same, OverDevices
<1>13. /\ Sets(worker, worker', d, worker[d]) /\ Sets(main, main', d, main[d])
       /\ Sets(listening, listening', d, listening[d]) /\ Sets(told, told', d, told[d])
  BY <1>1, Left
<1> QED
  BY <1>2, <1>11, <1>12, <1>13, Moved

LEMMA ListenStep ==
    ASSUME IInv, Listen
    PROVE  IInv'
<1> DEFINE d == "server"
           q == queue[d]
           s == session[d]
           m == <<Do("receive")>>
           w == NewWorker(asked[d] + 1)
           a == asked[d] + 1
<1>1. /\ InLoop(d) /\ ~Busy(d)
      /\ worker' = [worker EXCEPT ![d] = w] /\ asked' = [asked EXCEPT ![d] = a]
      /\ main' = [main EXCEPT ![d] = m] /\ listening' = [listening EXCEPT ![d] = TRUE]
      /\ UNCHANGED <<session, queue, told>>
  BY DEF Listen, Accept, InitTransport, Run
<1>2. /\ d \in Devices /\ OverDevices(worker) /\ OverDevices(asked) /\ OverDevices(main)
      /\ OverDevices(listening)
  BY DEF Devices, IInv, TypeOK
<1>3. Program(m) /\ ~Reports(m) /\ ~Deletes(m)
  <2>1. Plain(m)
    BY PlainOne DEF Do
  <2> HIDE DEF m
  <2> QED
    BY <2>1, PlainProgram
<1>4. Fits(w, m)
  BY NewFits
<1> HIDE DEF d, w, m
<1>5. /\ Events(q) /\ asked[d] \in Nat /\ told[d] \in Nat /\ SessionHas \subseteq DOMAIN s
      /\ s.state = "closed" <=> Ends(q)
      /\ s.state = "none" => \A v \in Range(q) : v.name \notin Vital
      /\ asked[d] = told[d] + (IF Engaged(s, listening[d]) THEN 1 ELSE 0)
  BY <1>1, <1>2, LoopIs
<1>6. s.state = "none" /\ ~listening[d]
  BY <1>1 DEF Busy
<1>7. ~Engaged(s, listening[d]) /\ Engaged(s, TRUE)
  BY <1>6 DEF Engaged
<1>8. a \in Nat /\ a = told[d] + 1
  BY <1>5, <1>7
<1> HIDE DEF s, a, q
<1>9. Fine(w, m, q, s, TRUE, a, told[d])
  BY <1>3, <1>4, <1>5, <1>6, <1>7, <1>8 DEF Fine
<1>10. /\ Sets(worker, worker', d, w) /\ Sets(asked, asked', d, a) /\ Sets(main, main', d, m)
       /\ Sets(listening, listening', d, TRUE)
  BY <1>1, <1>2 DEF Sets, Same, OverDevices
<1>11. /\ Sets(session, session', d, s) /\ Sets(queue, queue', d, q)
       /\ Sets(told, told', d, told[d])
  BY <1>1, Left DEF s, q
<1> QED
  BY <1>2, <1>9, <1>10, <1>11, Moved

LEMMA AbortSessionStep ==
    ASSUME IInv, NEW d \in Devices, AbortSession(d)
    PROVE  IInv'
<1>1. /\ InLoop(d) /\ session[d].state \in {"open", "created"}
      /\ AbortSync(d, "aborted") /\ UNCHANGED <<worker, queue, listening, asked, told>>
  BY DEF AbortSession
<1>2. Events(queue[d]) /\ session[d].state # "none"
  BY <1>1, LoopIs
<1> DEFINE r == queue[d]
<1>3. Events(r) /\ (Ends(r) <=> Ends(queue[d]))
  BY <1>2
<1> HIDE DEF r
<1>4. PICK m, x : /\ Sets(main, main', d, m) /\ Sets(session, session', d, x)
                  /\ Fine(worker[d], m, r, x, listening[d], asked[d], told[d])
  BY <1>1, <1>2, <1>3, AbortIs
<1>5. /\ Sets(queue, queue', d, r) /\ Sets(worker, worker', d, worker[d])
      /\ Sets(listening, listening', d, listening[d]) /\ Sets(asked, asked', d, asked[d])
      /\ Sets(told, told', d, told[d])
  BY <1>1, Left DEF r
<1> QED
  BY <1>4, <1>5, Moved

LEMMA AbortListenStep ==
    ASSUME IInv, NEW d \in Devices, AbortListen(d)
    PROVE  IInv'
<1> DEFINE q == queue[d]
           s == session[d]
           t == told[d] + 1
<1>1. /\ InLoop(d) /\ listening[d] /\ told' = [told EXCEPT ![d] = t]
      /\ listening' = [listening EXCEPT ![d] = FALSE]
      /\ UNCHANGED <<worker, main, queue, session, asked>>
  BY DEF AbortListen, workerVars
<1>2. OverDevices(told) /\ OverDevices(listening)
  BY DEF IInv, TypeOK
<1>3. /\ \A n : Fits(worker[d], n)
      /\ Events(q) /\ asked[d] \in Nat /\ told[d] \in Nat /\ SessionHas \subseteq DOMAIN s
      /\ s.state = "closed" <=> Ends(q)
      /\ s.state = "none" => \A v \in Range(q) : v.name \notin Vital
      /\ s.state # "none" => ~listening[d]
      /\ asked[d] = told[d] + (IF Engaged(s, listening[d]) THEN 1 ELSE 0)
  BY <1>1, LoopIs
<1>4. Program(main[d]) /\ ~Reports(main[d]) /\ ~Deletes(main[d])
  BY <1>1, NoProgram DEF InLoop
<1>5. s.state = "none" /\ Engaged(s, listening[d]) /\ ~Engaged(s, FALSE)
  BY <1>1, <1>3 DEF Engaged
<1>6. t \in Nat /\ asked[d] = t + 0
  BY <1>3, <1>5
<1> HIDE DEF s, t, q
<1>7. Fine(worker[d], main[d], q, s, FALSE, asked[d], t)
  BY <1>3, <1>4, <1>5, <1>6 DEF Fine
<1>8. Sets(told, told', d, t) /\ Sets(listening, listening', d, FALSE)
  BY <1>1, <1>2 DEF Sets, Same, OverDevices
<1>9. /\ Sets(session, session', d, s) /\ Sets(queue, queue', d, q)
      /\ Sets(worker, worker', d, worker[d]) /\ Sets(main, main', d, main[d])
      /\ Sets(asked, asked', d, asked[d])
  BY <1>1, Left DEF s, q
<1> QED
  BY <1>7, <1>8, <1>9, Moved

LEMMA PauseStep ==
    ASSUME IInv, NEW d \in Devices, PauseSync(d)
    PROVE  IInv'
<1> DEFINE q == queue[d]
           e == Enqueue(d, "suspendSync")
           r == Append(q, e)
<1>1. /\ session[d].state = "open" /\ queue' = [queue EXCEPT ![d] = r]
      /\ UNCHANGED <<worker, main, session, listening, asked, told>>
  BY DEF PauseSync
<1>2. OverDevices(queue) /\ e.name = "suspendSync"
  BY DEF IInv, TypeOK, Enqueue
<1>3. Fine(worker[d], main[d], q, session[d], listening[d], asked[d], told[d])
  BY DEF IInv, FineAt
<1> HIDE DEF e
<1>4. Events(r) /\ (Ends(r) <=> Ends(q))
  BY <1>2, <1>3, AddedOne DEF Fine
<1> HIDE DEF q, r
<1>5. Fine(worker[d], main[d], r, session[d], listening[d], asked[d], told[d])
  BY <1>1, <1>3, <1>4 DEF Fine
<1>6. Sets(queue, queue', d, r)
  BY <1>1, <1>2 DEF Sets, Same, OverDevices
<1>7. /\ Sets(worker, worker', d, worker[d]) /\ Sets(main, main', d, main[d])
      /\ Sets(session, session', d, session[d]) /\ Sets(listening, listening', d, listening[d])
      /\ Sets(asked, asked', d, asked[d]) /\ Sets(told, told', d, told[d])
  BY <1>1, Left
<1> QED
  BY <1>5, <1>6, <1>7, Moved

-----------------------------------------------------------------------------
LEMMA Begin == Init => IInv
<1> SUFFICES ASSUME Init PROVE IInv
  OBVIOUS
<1>1. TypeOK
  BY DEF Init, TypeOK, OverDevices
<1>2. ASSUME NEW d \in Devices PROVE FineAt(d)
  <2> DEFINE w == NoWorker
             m == <<>>
             q == <<>>
             s == NoSession
             l == FALSE
             n == 0
  <2>1. /\ worker[d] = w /\ main[d] = m /\ queue[d] = q /\ session[d] = s
        /\ listening[d] = l /\ asked[d] = n /\ told[d] = n
    BY DEF Init
  <2>2. IsSeq(q) /\ Len(q) = 0 /\ Range(q) = {}
    BY EmptyIs
  <2>3. WorkerHas \subseteq DOMAIN w /\ w.mailbox = q /\ w.job = "idle"
    BY DEF NoWorker, WorkerHas
  <2>4. SessionHas \subseteq DOMAIN s /\ s.state = "none"
    BY DEF NoSession, SessionHas
  <2>5. Program(m) /\ ~Reports(m) /\ ~Deletes(m)
    BY NoProgram
  <2>6. n \in Nat /\ n = n + 0 /\ ~l
    OBVIOUS
  <2> HIDE DEF w, m, q, s, l, n
  <2>7. Fits(w, m)
    <3>1. IsSeq(w.mailbox) /\ Len(w.mailbox) = 0 /\ w.job \notin Blocking
      BY <2>2, <2>3 DEF Blocking
    <3> QED
      BY <2>3, <3>1 DEF Fits
  <2>8. Events(q) /\ ~Ends(q)
    BY <2>2 DEF Events, Ends
  <2>9. ~Engaged(s, l)
    BY <2>4, <2>6 DEF Engaged
  <2>10. Fine(w, m, q, s, l, n, n)
    BY <2>2, <2>4, <2>5, <2>6, <2>7, <2>8, <2>9 DEF Fine
  <2> QED
    BY <2>1, <2>10 DEF FineAt
<1> QED
  BY <1>1, <1>2 DEF IInv

LEMMA Stays == IInv /\ [Next]_vars => IInv'
<1> SUFFICES ASSUME IInv, [Next]_vars PROVE IInv'
  OBVIOUS
<1>1. ASSUME NEW d \in Devices, MainThread(d) PROVE IInv'
  <2>1. CASE TransportSteps(d) /\ UNCHANGED agentVars
    BY <2>1, TransportStep DEF agentVars, lives
  <2>2. CASE ReportEnd(d)
    BY <2>2, ReportStep
  <2>3. CASE HandleEvent(d)
    BY <2>3, EventStep
  <2>4. CASE DeleteTransport(d)
    BY <2>4, DeletingStep
  <2>5. CASE Deleted(d)
    BY <2>5, DeletedStep
  <2> QED
    BY <1>1, <2>1, <2>2, <2>3, <2>4, <2>5 DEF MainThread, EventLoop
<1>2. ASSUME NEW d \in Devices, Workers(d) PROVE IInv'
  <2>1. UNCHANGED lives /\ (ClientWorks \/ ServerWorks)
    BY <1>2 DEF Workers, agentVars, lives
  <2> QED
    BY <2>1, ClientStep, ServerStep
<1>3. CASE Timeout
  <2>1. UNCHANGED lives /\ (ClientTimeout \/ ServerTimeout)
    BY <1>3 DEF Timeout, agentVars, lives
  <2> QED
    BY <2>1, ClientStep, ServerStep
<1>4. CASE Application
  BY <1>4, StartStep, ListenStep, AbortSessionStep, AbortListenStep, PauseStep DEF Application
<1>5. CASE Breaks
  <2>1. UNCHANGED lives /\ UNCHANGED <<worker, queue, main>>
    BY <1>5 DEF Breaks, LinkBreaks, lives
  <2> QED
    BY <2>1, StillStep
<1>6. CASE UNCHANGED vars
  <2>1. UNCHANGED lives /\ UNCHANGED <<worker, queue, main>>
    BY <1>6 DEF vars, workerVars, agentVars, lives
  <2> QED
    BY <2>1, StillStep
<1> QED
  BY <1>1, <1>2, <1>3, <1>4, <1>5, <1>6 DEF Next

LEMMA IInvEnds == IInv => EachEndsOnce
<1> SUFFICES ASSUME IInv, NEW d \in Devices
             PROVE  /\ asked[d] = told[d] + (IF Busy(d) THEN 1 ELSE 0)
                    /\ ~(listening[d] /\ session[d].state # "none")
  BY DEF EachEndsOnce
<1>1. Fine(worker[d], main[d], queue[d], session[d], listening[d], asked[d], told[d])
  BY DEF IInv, FineAt
<1> QED
  BY <1>1 DEF Fine, Engaged, Busy

\* A session is closed just as long as its end is to be reported or is queued, no
\* event is left that would wake a session that is gone, and a main thread that
\* waits waits for the last job of its worker (SyncAgent.cpp, OBEXTransport.cpp)
THEOREM AgentInvariant == Spec => []IInv
BY Begin, Stays, PTL DEF Spec

\* Of every operation that an agent accepts its application learns one end
\* (SyncAgent::finishSync, receiveSyncFinished, listenError, abort), whatever is
\* aborted or deleted and whenever the link breaks
THEOREM ToldOnce == Spec => []EachEndsOnce
BY AgentInvariant, IInvEnds, PTL

-----------------------------------------------------------------------------
(***************************************************************************)
(* The message that a server keeps for its client.  First what its main    *)
(* thread may have to do still, from the last step backwards.              *)
(***************************************************************************)
Step(m, name) == m # <<>> /\ Head(m).do = name

Says(m)     == (Step(m, "report") \/ Step(m, "delete")) /\ Tail(m) = <<>>
Releases(m) == Step(m, "release") /\ Says(Tail(m))
Waits(m)    == Step(m, "wait") /\ Releases(Tail(m))
Exits(m)    == Step(m, "exit") /\ Waits(Tail(m))
Leaves(m)   == Step(m, "await") /\ Exits(Tail(m))
Closes(m)   == Step(m, "close") /\ Says(Tail(m))

Receives(m) == Step(m, "receive") /\ Tail(m) = <<>>
Puts(m)     == Step(m, "waitForPut") /\ Tail(m) = <<>>
Connects(m) == Step(m, "await") /\ Puts(Tail(m))
Replies(m)  == Step(m, "send") /\ (Receives(Tail(m)) \/ Closes(Tail(m)))

Shuts(m) == Closes(m) \/ Leaves(m) \/ Exits(m) \/ Waits(m) \/ Releases(m)
Reads(m) == Receives(m) \/ Connects(m) \/ Puts(m)
Stage(m) == m = <<>> \/ Says(m) \/ Shuts(m) \/ Reads(m) \/ Replies(m)

LEMMA DoIs == \A name : Do(name).do = name
BY DEF Do

LEMMA ExitStage == Closes(Exit) /\ Shuts(Exit)
<1> DEFINE a == Do("close")
           b == Do("report")
           t == <<b>>
<1>1. a.do = "close" /\ b.do = "report"
  BY DoIs
<1>2. Exit = <<a, b>>
  BY DEF Exit
<1> HIDE DEF a, b
<1>3. Exit # <<>> /\ Head(Exit) = a /\ Tail(Exit) = t /\ t # <<>> /\ Head(t) = b /\ Tail(t) = <<>>
  BY <1>2
<1> HIDE DEF t
<1> QED
  BY <1>1, <1>3 DEF Closes, Shuts, Says, Step

\* The last step of a program that closes the transport
LEMMA Concludes ==
    ASSUME NEW m, IsSeq(m), Shuts(m) \/ (Replies(m) /\ ~Receives(Tail(m)))
    PROVE  Reports(m) \/ Deletes(m)
<1>1. \A n : IsSeq(n) /\ n # <<>> =>
          IsSeq(Tail(n)) /\ Head(n) \in Range(n) /\ Range(Tail(n)) \subseteq Range(n)
  BY TailOf
<1>2. ASSUME NEW n, IsSeq(n), Says(n) PROVE Reports(n) \/ Deletes(n)
  BY <1>1, <1>2 DEF Says, Step, Reports, Deletes
<1>3. ASSUME NEW n, IsSeq(n), n # <<>>, Reports(Tail(n)) \/ Deletes(Tail(n))
      PROVE  Reports(n) \/ Deletes(n)
  BY <1>1, <1>3 DEF Reports, Deletes
<1>4. ASSUME NEW n, IsSeq(n), Releases(n) PROVE Reports(n) \/ Deletes(n)
  BY <1>1, <1>2, <1>3, <1>4 DEF Releases, Step
<1>5. ASSUME NEW n, IsSeq(n), Waits(n) PROVE Reports(n) \/ Deletes(n)
  BY <1>1, <1>3, <1>4, <1>5 DEF Waits, Step
<1>6. ASSUME NEW n, IsSeq(n), Exits(n) PROVE Reports(n) \/ Deletes(n)
  BY <1>1, <1>3, <1>5, <1>6 DEF Exits, Step
<1>7. ASSUME NEW n, IsSeq(n), Leaves(n) PROVE Reports(n) \/ Deletes(n)
  BY <1>1, <1>3, <1>6, <1>7 DEF Leaves, Step
<1>8. ASSUME NEW n, IsSeq(n), Closes(n) PROVE Reports(n) \/ Deletes(n)
  BY <1>1, <1>2, <1>3, <1>8 DEF Closes, Step
<1>9. CASE Replies(m) /\ ~Receives(Tail(m))
  BY <1>1, <1>3, <1>8, <1>9 DEF Replies, Step
<1> QED
  BY <1>4, <1>5, <1>6, <1>7, <1>8, <1>9 DEF Shuts

(***************************************************************************)
(* The jobs of its worker.  It waits for a message of its client (Wants),  *)
(* or for the client to fetch one (Offers), and never for a message first  *)
(* and the fetching then.  It is connected while it does.                  *)
(***************************************************************************)
Transfers == {"waitForPut", "waitForGet"}

HasJob(w, name) ==
    w.job = name \/ \E i \in 1 .. Len(w.mailbox) : w.mailbox[i].name = name
Wants(w)  == HasJob(w, "waitForPut")
Offers(w) == HasJob(w, "waitForGet")

InOrder(w) ==
    /\ WorkerHas \subseteq DOMAIN w /\ IsSeq(w.mailbox)
    /\ \A i, j \in 1 .. Len(w.mailbox) :
           w.mailbox[i].name = "waitForPut" /\ w.mailbox[j].name \in Transfers => j <= i
    /\ w.job = "waitForPut" => \A j \in 1 .. Len(w.mailbox) : w.mailbox[j].name \notin Transfers
    /\ w.job \in Transfers => w.connected

LEMMA PostedJob ==
    ASSUME NEW w, InOrder(w), NEW job, job.name \in Transfers => ~Wants(w),
           NEW x, x = [w EXCEPT !.mailbox = Append(@, job)]
    PROVE  /\ InOrder(x) /\ x.thread = w.thread
           /\ Wants(x) <=> Wants(w) \/ job.name = "waitForPut"
           /\ Offers(x) <=> Offers(w) \/ job.name = "waitForGet"
<1> DEFINE b == w.mailbox
           r == Append(b, job)
           n == Len(b)
<1>1. IsSeq(b) /\ n \in Nat /\ DOMAIN b = 1 .. n
  BY SeqIs DEF InOrder
<1>2. /\ IsSeq(r) /\ Len(r) = n + 1
      /\ \A k \in 1 .. n : r[k] = b[k]
      /\ r[n + 1] = job
  <2>1. b \in Seq(Range(b) \cup {job})
    BY <1>1 DEF IsSeq
  <2> HIDE DEF b
  <2>2. \A k \in 1 .. n : r[k] = b[k]
    BY <1>1, <2>1
  <2>3. r[n + 1] = job
    BY <1>1, <2>1
  <2> QED
    BY <1>1, <2>2, <2>3, AppendIs
<1>3. x = [w EXCEPT !.mailbox = r]
  OBVIOUS
<1>4. \A i, j \in 1 .. n : b[i].name = "waitForPut" /\ b[j].name \in Transfers => j <= i
  BY DEF InOrder
<1>5. w.job = "waitForPut" => \A j \in 1 .. n : b[j].name \notin Transfers
  BY DEF InOrder
<1>6. \A name : HasJob(w, name) <=> w.job = name \/ \E k \in 1 .. n : b[k].name = name
  BY DEF HasJob
<1> HIDE DEF b, r, n
<1>7. /\ DOMAIN x = DOMAIN w /\ x.mailbox = r /\ x.job = w.job /\ x.thread = w.thread
      /\ x.connected = w.connected /\ (w.job \in Transfers => w.connected)
      /\ WorkerHas \subseteq DOMAIN w
  BY <1>3 DEF InOrder, WorkerHas
<1>8. \A k \in 1 .. n + 1 : k \in 1 .. n \/ k = n + 1
  BY <1>1
<1>9. 1 .. n \subseteq 1 .. n + 1 /\ n + 1 \in 1 .. n + 1
  BY <1>1
<1>10. \A name : HasJob(x, name) <=> HasJob(w, name) \/ job.name = name
  <2> SUFFICES ASSUME NEW name PROVE HasJob(x, name) <=> HasJob(w, name) \/ job.name = name
    OBVIOUS
  <2>1. (\E k \in 1 .. n + 1 : r[k].name = name)
            <=> (\E k \in 1 .. n : b[k].name = name) \/ job.name = name
    BY <1>2, <1>8, <1>9
  <2>2. HasJob(x, name) <=> w.job = name \/ \E k \in 1 .. n + 1 : r[k].name = name
    BY <1>2, <1>7 DEF HasJob
  <2> QED
    BY <1>6, <2>1, <2>2
<1>11. InOrder(x)
  <2>1. ASSUME NEW i \in 1 .. n + 1, NEW j \in 1 .. n + 1,
               r[i].name = "waitForPut", r[j].name \in Transfers
        PROVE  j <= i
    <3>1. CASE i = n + 1
      BY <1>1, <3>1
    <3>2. CASE i \in 1 .. n /\ j \in 1 .. n
      BY <1>2, <1>4, <2>1, <3>2
    <3>3. CASE i \in 1 .. n /\ j = n + 1
      BY <1>2, <1>6, <2>1, <3>3 DEF Wants
    <3> QED
      BY <1>8, <3>1, <3>2, <3>3
  <2>2. ASSUME w.job = "waitForPut", NEW j \in 1 .. n + 1
        PROVE  r[j].name \notin Transfers
    BY <1>2, <1>5, <1>6, <1>8, <2>2 DEF Wants
  <2> QED
    BY <1>2, <1>7, <2>1, <2>2 DEF InOrder
<1> QED
  BY <1>7, <1>10, <1>11 DEF Wants, Offers

\* A job that is taken: it is what the worker does then, or it is done
LEMMA TakenJob ==
    ASSUME NEW w, InOrder(w), w.mailbox # <<>>, w.job \notin Transfers,
           NEW x, WorkerHas \subseteq DOMAIN x, x.mailbox = Tail(w.mailbox),
           x.job = Head(w.mailbox).name \/ x.job \notin Transfers,
           x.job \in Transfers => x.connected
    PROVE  /\ InOrder(x) /\ (Wants(x) => Wants(w)) /\ (Offers(x) => Offers(w))
           /\ Offers(w) => Offers(x) \/ (Head(w.mailbox).name = "waitForGet" /\ x.job # "waitForGet")
<1> DEFINE b == w.mailbox
           t == Tail(b)
           n == Len(t)
<1>1. /\ IsSeq(t) /\ n \in Nat /\ Len(b) = n + 1 /\ Head(b) = b[1]
      /\ \A i \in 1 .. n : i + 1 \in 1 .. Len(b) /\ t[i] = b[i + 1]
  BY TailIs DEF InOrder
<1>2. \A i, j \in 1 .. Len(b) : b[i].name = "waitForPut" /\ b[j].name \in Transfers => j <= i
  BY DEF InOrder
<1>3. x.mailbox = t
  OBVIOUS
<1>4. \A name : HasJob(w, name) <=> w.job = name \/ \E k \in 1 .. Len(b) : b[k].name = name
  BY DEF HasJob
<1>5. 1 \in 1 .. Len(b) /\ \A k \in 1 .. Len(b) : k = 1 \/ k - 1 \in 1 .. n
  BY <1>1
<1> HIDE DEF b, t, n
<1>6. \A i \in 1 .. n : i \in Nat
  BY <1>1
<1>7. InOrder(x)
  <2>1. ASSUME NEW i \in 1 .. n, NEW j \in 1 .. n,
               t[i].name = "waitForPut", t[j].name \in Transfers
        PROVE  j <= i
    <3>1. j + 1 <= i + 1
      BY <1>1, <1>2, <2>1
    <3> QED
      BY <1>6, <3>1
  <2>2. ASSUME x.job = "waitForPut", NEW j \in 1 .. n, t[j].name \in Transfers
        PROVE  FALSE
    <3>1. b[1].name = "waitForPut"
      BY <1>1, <2>2 DEF b, Transfers
    <3>2. j + 1 <= 1
      BY <1>1, <1>2, <1>5, <2>2, <3>1
    <3> QED
      BY <1>6, <3>2
  <2> QED
    BY <1>1, <1>3, <2>1, <2>2 DEF InOrder, n
<1>8. \A name \in Transfers : HasJob(x, name) => HasJob(w, name)
  <2> SUFFICES ASSUME NEW name \in Transfers, HasJob(x, name) PROVE HasJob(w, name)
    OBVIOUS
  <2>1. CASE x.job = name
    <3>1. b[1].name = name
      BY <1>1, <2>1 DEF b
    <3> QED
      BY <1>4, <1>5, <3>1
  <2>2. CASE \E i \in 1 .. n : t[i].name = name
    BY <1>1, <1>4, <2>2
  <2> QED
    BY <1>3, <2>1, <2>2 DEF HasJob, n
<1>9. ASSUME Offers(w), ~Offers(x)
      PROVE  Head(b).name = "waitForGet" /\ x.job # "waitForGet"
  <2>1. x.job # "waitForGet" /\ \A i \in 1 .. n : t[i].name # "waitForGet"
    BY <1>3, <1>9 DEF Offers, HasJob, n
  <2>2. PICK k \in 1 .. Len(b) : b[k].name = "waitForGet"
    BY <1>4, <1>9 DEF Offers, Transfers
  <2>3. k = 1
    <3> SUFFICES ASSUME k - 1 \in 1 .. n PROVE FALSE
      BY <1>5
    <3>1. (k - 1) + 1 = k
      BY <1>1
    <3> QED
      BY <1>1, <2>1, <2>2, <3>1
  <2> QED
    BY <1>1, <2>1, <2>2, <2>3
<1> QED
  BY <1>7, <1>8, <1>9 DEF Wants, Offers, Transfers, b

\* A job that is done
LEMMA EndedJob ==
    ASSUME NEW w, InOrder(w), NEW x, WorkerHas \subseteq DOMAIN x, x.mailbox = w.mailbox,
           x.job \notin Transfers
    PROVE  /\ InOrder(x) /\ (Wants(x) => Wants(w)) /\ (Offers(x) => Offers(w))
           /\ Offers(w) => Offers(x) \/ w.job = "waitForGet"
           /\ w.job = "waitForPut" => ~Wants(x) /\ ~Offers(x)
BY DEF InOrder, Wants, Offers, HasJob, Transfers

LEMMA NoJobs ==
    ASSUME NEW x, WorkerHas \subseteq DOMAIN x, x.mailbox = <<>>, x.job \notin Transfers
    PROVE  InOrder(x) /\ ~Wants(x) /\ ~Offers(x)
<1>1. IsSeq(x.mailbox) /\ Len(x.mailbox) = 0
  BY EmptyIs
<1>2. \A i \in 1 .. Len(x.mailbox) : FALSE
  BY <1>1
<1> QED
  BY <1>1, <1>2 DEF InOrder, Wants, Offers, HasJob, Transfers

(***************************************************************************)
(* Its events.  A message that came is in the queue once; a failure that   *)
(* is found before it ends the session before the message is taken.        *)
(***************************************************************************)
Arrivals == {"incomingData", "parsed"}
Failures == {"connectionFailed", "connectionTimeout", "connectionError"}

Came(q)  == \E e \in Range(q) : e.name \in Arrivals
Fails(q) == \E i \in 1 .. Len(q) :
                /\ q[i].name \in Failures
                /\ \A j \in 1 .. Len(q) : j < i => q[j].name \notin Arrivals

OneCame(q) ==
    /\ IsSeq(q)
    /\ \A i, j \in 1 .. Len(q) : q[i].name \in Arrivals /\ q[j].name \in Arrivals => i = j
    /\ \A i, j \in 1 .. Len(q) :
           q[i].name = "syncFinished" /\ q[j].name = "incomingData" => j < i
    /\ \A e \in Range(q) : e.name # "initiateSync"

LEMMA OffQueue ==
    ASSUME NEW q, OneCame(q), q # <<>>
    PROVE  /\ OneCame(Tail(q)) /\ (Came(Tail(q)) => Came(q))
           /\ Head(q).name \in Arrivals => Came(q) /\ ~Came(Tail(q)) /\ ~Fails(q)
           /\ Head(q).name = "syncFinished" => \A e \in Range(Tail(q)) : e.name # "incomingData"
           /\ Fails(q) /\ Head(q).name \notin Failures => Fails(Tail(q))
           /\ Range(Tail(q)) \subseteq Range(q) /\ Head(q) \in Range(q)
<1> DEFINE t == Tail(q)
           n == Len(t)
<1>1. /\ IsSeq(t) /\ n \in Nat /\ Len(q) = n + 1 /\ Head(q) = q[1]
      /\ Range(q) = {Head(q)} \cup Range(t)
      /\ \A i \in 1 .. n : i + 1 \in 1 .. Len(q) /\ t[i] = q[i + 1]
  BY TailIs DEF OneCame
<1>2. \A x \in Range(t) : \E i \in 1 .. n : t[i] = x
  BY <1>1, SeqIs
<1>3. 1 \in 1 .. Len(q) /\ \A k \in 1 .. Len(q) : k = 1 \/ k - 1 \in 1 .. n
  BY <1>1
<1>4. \A i \in 1 .. n : i \in Nat /\ i # 0
  BY <1>1
<1> HIDE DEF t, n
<1>5. OneCame(t)
  <2>1. ASSUME NEW i \in 1 .. n, NEW j \in 1 .. n, t[i].name \in Arrivals, t[j].name \in Arrivals
        PROVE  i = j
    <3>1. i + 1 = j + 1
      BY <1>1, <2>1 DEF OneCame
    <3> QED
      BY <1>4, <3>1
  <2>2. ASSUME NEW i \in 1 .. n, NEW j \in 1 .. n,
               t[i].name = "syncFinished", t[j].name = "incomingData"
        PROVE  j < i
    <3>1. j + 1 < i + 1
      BY <1>1, <2>2 DEF OneCame
    <3> QED
      BY <1>4, <3>1
  <2>3. \A e \in Range(t) : e.name # "initiateSync"
    BY <1>1 DEF OneCame
  <2> QED
    BY <1>1, <2>1, <2>2, <2>3 DEF OneCame, n
<1>6. Came(t) => Came(q)
  BY <1>1 DEF Came
<1>7. ASSUME Head(q).name \in Arrivals PROVE Came(q) /\ ~Came(t) /\ ~Fails(q)
  <2>1. Came(q)
    BY <1>1, <1>7 DEF Came
  <2>2. ~Came(t)
    <3> SUFFICES ASSUME NEW e \in Range(t), e.name \in Arrivals PROVE FALSE
      BY DEF Came
    <3>1. PICK i \in 1 .. n : t[i] = e
      BY <1>2
    <3>2. i + 1 = 1
      BY <1>1, <1>3, <1>7, <3>1 DEF OneCame
    <3> QED
      BY <1>4, <3>2
  <2>3. ~Fails(q)
    <3> SUFFICES ASSUME NEW i \in 1 .. Len(q), q[i].name \in Failures,
                        \A j \in 1 .. Len(q) : j < i => q[j].name \notin Arrivals
                 PROVE  FALSE
      BY DEF Fails
    <3>1. ~(1 < i)
      BY <1>1, <1>3, <1>7
    <3>2. i = 1
      BY <1>1, <3>1
    <3> QED
      BY <1>1, <1>7, <3>2 DEF Arrivals, Failures
  <2> QED
    BY <2>1, <2>2, <2>3
<1>8. ASSUME Head(q).name = "syncFinished", NEW e \in Range(t), e.name = "incomingData"
      PROVE  FALSE
  <2>1. PICK i \in 1 .. n : t[i] = e
    BY <1>2
  <2>2. i + 1 < 1
    BY <1>1, <1>3, <1>8, <2>1 DEF OneCame
  <2> QED
    BY <1>4, <2>2
<1>9. ASSUME Fails(q), Head(q).name \notin Failures PROVE Fails(t)
  <2>1. PICK i \in 1 .. Len(q) : /\ q[i].name \in Failures
                                 /\ \A j \in 1 .. Len(q) : j < i => q[j].name \notin Arrivals
    BY <1>9 DEF Fails
  <2> DEFINE k == i - 1
  <2>2. k \in 1 .. n /\ k + 1 = i
    BY <1>1, <1>3, <1>9, <2>1
  <2> HIDE DEF k
  <2>3. t[k].name \in Failures
    BY <1>1, <2>1, <2>2
  <2>4. ASSUME NEW j \in 1 .. n, j < k PROVE t[j].name \notin Arrivals
    <3>1. j + 1 < i
      BY <1>4, <2>2, <2>4
    <3> QED
      BY <1>1, <2>1, <3>1
  <2> QED
    BY <2>2, <2>3, <2>4 DEF Fails, n
<1> QED
  BY <1>1, <1>5, <1>6, <1>7, <1>8, <1>9 DEF t

LEMMA MoreQueue ==
    ASSUME NEW q, OneCame(q), NEW more, IsSeq(more),
           \A e \in Range(more) : e.name \notin Arrivals \cup {"initiateSync"}
    PROVE  /\ OneCame(q \o more) /\ (Came(q \o more) <=> Came(q))
           /\ Fails(q) => Fails(q \o more)
           /\ ~Came(q) /\ more # <<>> /\ Head(more).name \in Failures => Fails(q \o more)
           /\ Range(q \o more) = Range(q) \cup Range(more)
<1> DEFINE r == q \o more
           a == Len(q)
           b == Len(more)
<1>1. /\ IsSeq(r) /\ Range(r) = Range(q) \cup Range(more) /\ Len(r) = a + b
      /\ \A i \in 1 .. a : r[i] = q[i]
      /\ \A i \in 1 .. b : r[a + i] = more[i]
  BY JoinIs DEF OneCame
<1>2. /\ a \in Nat /\ b \in Nat
      /\ \A i \in 1 .. a : q[i] \in Range(q)
      /\ \A i \in 1 .. b : more[i] \in Range(more)
  BY SeqIs DEF OneCame
<1>3. /\ \A i, j \in 1 .. a : q[i].name \in Arrivals /\ q[j].name \in Arrivals => i = j
      /\ \A i, j \in 1 .. a : q[i].name = "syncFinished" /\ q[j].name = "incomingData" => j < i
      /\ \A e \in Range(q) : e.name # "initiateSync"
  BY DEF OneCame
<1>4. Fails(q) <=> \E i \in 1 .. a : /\ q[i].name \in Failures
                                     /\ \A j \in 1 .. a : j < i => q[j].name \notin Arrivals
  BY DEF Fails
<1>5. more # <<>> => Head(more) = more[1] /\ 1 \in 1 .. b
  BY TailIs
<1> HIDE DEF r, a, b
<1>6. ASSUME NEW i \in 1 .. a + b, i \notin 1 .. a
      PROVE  r[i].name \notin Arrivals /\ a < i
  <2> DEFINE k == i - a
  <2>1. k \in 1 .. b /\ a + k = i /\ a < i
    BY <1>2, <1>6
  <2> HIDE DEF k
  <2> QED
    BY <1>1, <1>2, <2>1
<1>7. 1 .. a \subseteq 1 .. a + b
  BY <1>2
<1>8. OneCame(r)
  <2>1. ASSUME NEW i \in 1 .. a + b, NEW j \in 1 .. a + b,
               r[i].name \in Arrivals, r[j].name \in Arrivals
        PROVE  i = j
    <3>1. i \in 1 .. a /\ j \in 1 .. a
      BY <1>6, <2>1
    <3> QED
      BY <1>1, <1>3, <2>1, <3>1
  <2>2. ASSUME NEW i \in 1 .. a + b, NEW j \in 1 .. a + b,
               r[i].name = "syncFinished", r[j].name = "incomingData"
        PROVE  j < i
    <3>1. j \in 1 .. a
      BY <1>6, <2>2 DEF Arrivals
    <3>2. CASE i \in 1 .. a
      BY <1>1, <1>3, <2>2, <3>1, <3>2
    <3>3. CASE i \notin 1 .. a
      BY <1>2, <1>6, <3>1, <3>3
    <3> QED
      BY <3>2, <3>3
  <2>3. \A e \in Range(r) : e.name # "initiateSync"
    BY <1>1, <1>3
  <2> QED
    BY <1>1, <2>1, <2>2, <2>3 DEF OneCame
<1>9. Came(r) <=> Came(q)
  BY <1>1 DEF Came
<1>10. ASSUME NEW i \in 1 .. a + b, r[i].name \in Failures,
              \A j \in 1 .. a : j < i => q[j].name \notin Arrivals
       PROVE  Fails(r)
  <2>1. ASSUME NEW j \in 1 .. a + b, j < i PROVE r[j].name \notin Arrivals
    BY <1>1, <1>6, <1>10, <2>1
  <2> QED
    BY <1>1, <1>10, <2>1 DEF Fails
<1>11. Fails(q) => Fails(r)
  <2> SUFFICES ASSUME Fails(q) PROVE Fails(r)
    OBVIOUS
  <2>1. PICK i \in 1 .. a : /\ q[i].name \in Failures
                            /\ \A j \in 1 .. a : j < i => q[j].name \notin Arrivals
    BY <1>4
  <2> QED
    BY <1>1, <1>7, <1>10, <2>1
<1>12. ASSUME ~Came(q), more # <<>>, Head(more).name \in Failures PROVE Fails(r)
  <2> DEFINE i == a + 1
  <2>1. i \in 1 .. a + b /\ r[i] = more[1]
    BY <1>1, <1>2, <1>5, <1>12
  <2>2. \A j \in 1 .. a : q[j].name \notin Arrivals
    BY <1>2, <1>12 DEF Came
  <2> HIDE DEF i
  <2> QED
    BY <1>5, <1>10, <1>12, <2>1, <2>2
<1> QED
  BY <1>1, <1>8, <1>9, <1>11, <1>12 DEF r

LEMMA OnQueue ==
    ASSUME NEW q, OneCame(q), NEW e, e.name \in Arrivals, ~Came(q),
           e.name = "incomingData" => ~Ends(q)
    PROVE  /\ OneCame(Append(q, e)) /\ (Fails(q) => Fails(Append(q, e)))
           /\ Range(Append(q, e)) = Range(q) \cup {e}
<1> DEFINE r == Append(q, e)
           n == Len(q)
<1>1. /\ IsSeq(r) /\ Len(r) = n + 1 /\ r = q \o <<e>>
      /\ \A k \in DOMAIN r : (k \in DOMAIN q /\ r[k] = q[k]) \/ (k = n + 1 /\ r[k] = e)
  BY AppendIs DEF OneCame
<1>2. /\ DOMAIN r = 1 .. n + 1 /\ DOMAIN q = 1 .. n /\ n \in Nat
      /\ \A i \in 1 .. n : q[i] \in Range(q)
  BY <1>1, SeqIs DEF OneCame
<1>3. Range(r) = Range(q) \cup {e}
  BY <1>1, OneIs, JoinIs DEF OneCame
<1>4. \A i \in 1 .. n : q[i].name \notin Arrivals
  BY <1>2 DEF Came
<1>5. e.name = "incomingData" => \A i \in 1 .. n : q[i].name # "syncFinished"
  BY <1>2 DEF Ends
<1>6. Fails(q) <=> \E i \in 1 .. n : /\ q[i].name \in Failures
                                     /\ \A j \in 1 .. n : j < i => q[j].name \notin Arrivals
  BY DEF Fails
<1> HIDE DEF r, n
<1>7. ASSUME NEW k \in 1 .. n + 1
      PROVE  (k \in 1 .. n /\ r[k] = q[k]) \/ (k = n + 1 /\ r[k] = e)
  BY <1>1, <1>2
<1>8. \A k \in 1 .. n : r[k] = q[k] /\ k \in 1 .. n + 1 /\ k \in Nat /\ k < n + 1
  BY <1>2, <1>7
<1>9. OneCame(r)
  <2>1. ASSUME NEW i \in 1 .. n + 1, NEW j \in 1 .. n + 1,
               r[i].name \in Arrivals, r[j].name \in Arrivals
        PROVE  i = j
    BY <1>4, <1>7, <2>1
  <2>2. ASSUME NEW i \in 1 .. n + 1, NEW j \in 1 .. n + 1,
               r[i].name = "syncFinished", r[j].name = "incomingData"
        PROVE  j < i
    <3>1. j = n + 1 /\ e.name = "incomingData"
      BY <1>4, <1>7, <2>2 DEF Arrivals
    <3>2. i \in 1 .. n
      BY <1>7, <2>2, <3>1
    <3> QED
      BY <1>5, <1>8, <2>2, <3>1, <3>2
  <2>3. \A x \in Range(r) : x.name # "initiateSync"
    BY <1>3 DEF OneCame, Arrivals
  <2> QED
    BY <1>1, <2>1, <2>2, <2>3 DEF OneCame
<1>10. ASSUME Fails(q) PROVE Fails(r)
  <2>1. PICK i \in 1 .. n : q[i].name \in Failures
    BY <1>6, <1>10
  <2>2. i \in 1 .. n + 1 /\ r[i].name \in Failures
    BY <1>8, <2>1
  <2>3. ASSUME NEW j \in 1 .. n + 1, j < i PROVE r[j].name \notin Arrivals
    <3>1. j # n + 1
      BY <1>8, <2>3
    <3> QED
      BY <1>4, <1>7, <3>1
  <2> QED
    BY <1>1, <2>2, <2>3 DEF Fails
<1> QED
  BY <1>3, <1>9, <1>10 DEF r

(***************************************************************************)
(* The inductive invariant, of the server: its worker, what its main       *)
(* thread has still to do, its queue, its session, and the message.        *)
(***************************************************************************)
\* A thread is told to exit when the transport is closed, and it is gone before
\* the transport is released
Threads(w, m, s) ==
    /\ w.thread = "exiting" => Waits(m)
    /\ w.thread = "ended" => Waits(m) \/ Releases(m)
    /\ Releases(m) => w.thread \notin {"running", "exiting"}
    /\ w.thread # "none" => Shuts(m) \/ Replies(m) \/ s.state # "closed"

\* One message is waited for, or is in the queue, or is answered
Turns(w, m, q, s) ==
    /\ Replies(m) \/ Reads(m) => ~Wants(w) /\ ~Came(q)
    /\ Wants(w) \/ Offers(w) => ~Came(q)
    /\ Replies(m) /\ Receives(Tail(m)) => s.state = "open"
    /\ w.thread = "none" /\ s.state = "none" /\ m = <<>> => ~Came(q)
    /\ s.state = "none" => \A e \in Range(q) : e.name # "parsed"

\* A message that is kept is offered still, or the session will hear that it is
\* not before it takes another, or the transport is being closed
Keeps(w, m, q, s, i) ==
    /\ Replies(m) => i = NoMessage
    /\ i # NoMessage => Shuts(m) \/ (s.state = "open" /\ (Offers(w) \/ Fails(q)))

ServerFine(w, m, q, s, i) ==
    /\ Stage(m) /\ InOrder(w) /\ OneCame(q)
    /\ Threads(w, m, s) /\ Turns(w, m, q, s) /\ Keeps(w, m, q, s, i)

MessageInv ==
    ServerFine(worker["server"], main["server"], queue["server"], session["server"], iMessage)

LEMMA MessageSet ==
    ASSUME NEW w, NEW m, NEW q, NEW s, NEW i, ServerFine(w, m, q, s, i),
           worker'["server"] = w, main'["server"] = m, queue'["server"] = q,
           session'["server"] = s, iMessage' = i
    PROVE  MessageInv'
BY DEF MessageInv

-----------------------------------------------------------------------------
(***************************************************************************)
(* What the client does concerns none of this                              *)
(***************************************************************************)
Apart == /\ worker'["server"] = worker["server"] /\ main'["server"] = main["server"]
         /\ queue'["server"] = queue["server"] /\ session'["server"] = session["server"]
         /\ iMessage' = iMessage

LEMMA ApartStep ==
    ASSUME MessageInv, Apart
    PROVE  MessageInv'
BY DEF Apart, MessageInv

LEMMA OtherIs ==
    ASSUME NEW f, OverDevices(f), NEW x, NEW g, g = [f EXCEPT !["client"] = x]
    PROVE  g["server"] = f["server"]
BY DEF OverDevices, Devices

LEMMA OverIs ==
    ASSUME IInv
    PROVE  OverDevices(worker) /\ OverDevices(main) /\ OverDevices(queue) /\ OverDevices(session)
BY DEF IInv, TypeOK

LEMMA DoneApart ==
    ASSUME IInv, NEW name, NEW x, Done("client", name, x)
    PROVE  worker'["server"] = worker["server"] /\ main'["server"] = main["server"]
<1>1. /\ worker' = [worker EXCEPT !["client"] = [x EXCEPT !.job = "idle"]]
      /\ main' = main \/ main' = [main EXCEPT !["client"] = Tail(main["client"])]
  BY DEF Done
<1> QED
  BY <1>1, OtherIs, OverIs

LEMMA EmitApart ==
    ASSUME IInv, NEW names, NEW message,
           Emit("client", names) \/ EmitData("client", message) \/ UNCHANGED queue
    PROVE  queue'["server"] = queue["server"]
<1>1. CASE Emit("client", names)
  <2> DEFINE r == queue["client"] \o [i \in 1 .. Len(names) |-> Event("client", names[i])]
  <2>1. queue' = [queue EXCEPT !["client"] = r]
    BY <1>1 DEF Emit
  <2> HIDE DEF r
  <2> QED
    BY <2>1, OtherIs, OverIs
<1>2. CASE EmitData("client", message)
  <2> DEFINE r == Append(queue["client"], [Event("client", "incomingData") EXCEPT !.message = message])
  <2>1. queue' = [queue EXCEPT !["client"] = r]
    BY <1>2 DEF EmitData
  <2> HIDE DEF r
  <2> QED
    BY <2>1, OtherIs, OverIs
<1> QED
  BY <1>1, <1>2

LEMMA ClientApart ==
    ASSUME IInv, session' = session, ClientWorks \/ ClientTimeout
    PROVE  Apart
<1>1. CASE ClientDeclines
  <2>1. /\ Done("client", Head(worker["client"].mailbox).name, Taken("client"))
        /\ Emit("client", <<"connectionFailed">>) \/ UNCHANGED queue
        /\ iMessage' = iMessage
    BY <1>1 DEF ClientDeclines
  <2> QED
    BY <2>1, DoneApart, EmitApart DEF Apart
<1>2. CASE ClientRefused
  <2>1. /\ Done("client", Head(worker["client"].mailbox).name, Taken("client"))
        /\ Emit("client", <<"connectionError">>) \/ UNCHANGED queue
        /\ iMessage' = iMessage
    BY <1>2 DEF ClientRefused
  <2> QED
    BY <2>1, DoneApart, EmitApart DEF Apart
<1>3. CASE ClientRequests
  <2>1. PICK x : worker' = [worker EXCEPT !["client"] = x]
    BY <1>3 DEF ClientRequests
  <2> QED
    BY <1>3, <2>1, OtherIs, OverIs DEF Apart, ClientRequests
<1>4. CASE ClientResponse
  <2>1. PICK connected :
            Done("client", worker["client"].job,
                 [worker["client"] EXCEPT !.connected = connected, !.pending = FALSE])
    BY <1>4 DEF ClientResponse
  <2>2. \/ EmitData("client", Head(link.toClient).headers.body)
        \/ Emit("client", <<"connectionError">>) \/ UNCHANGED queue
    BY <1>4 DEF ClientResponse
  <2>3. iMessage' = iMessage
    BY <1>4 DEF ClientResponse
  <2> QED
    BY <2>1, <2>2, <2>3, DoneApart, EmitApart DEF Apart
<1>5. CASE ClientTimeout
  <2>1. /\ Done("client", worker["client"].job, worker["client"])
        /\ Emit("client", <<"connectionTimeout">>) \/ UNCHANGED queue
        /\ iMessage' = iMessage
    BY <1>5 DEF ClientTimeout
  <2> QED
    BY <2>1, DoneApart, EmitApart DEF Apart
<1>6. CASE ClientLinkError
  <2>1. /\ Done("client", worker["client"].job, [worker["client"] EXCEPT !.connected = FALSE])
        /\ Emit("client", <<"connectionError">>) \/ UNCHANGED queue
        /\ iMessage' = iMessage
    BY <1>6 DEF ClientLinkError
  <2> QED
    BY <2>1, DoneApart, EmitApart DEF Apart
<1>7. CASE ThreadEnds("client")
  <2>1. worker' = [worker EXCEPT !["client"] = [NoWorker EXCEPT !.thread = "ended"]]
    BY <1>7 DEF ThreadEnds
  <2> QED
    BY <1>7, <2>1, OtherIs, OverIs DEF Apart, ThreadEnds
<1> QED
  BY <1>1, <1>2, <1>3, <1>4, <1>5, <1>6, <1>7 DEF ClientWorks

LEMMA PostApart ==
    ASSUME IInv, NEW job, NEW steps, PostAnd("client", job, steps)
    PROVE  worker'["server"] = worker["server"] /\ main'["server"] = main["server"]
<1>1. /\ worker' = [worker EXCEPT !["client"] = Post("client", job)]
      /\ main' = [main EXCEPT !["client"] = steps \o Tail(main["client"])]
  BY DEF PostAnd, Then
<1> QED
  BY <1>1, OtherIs, OverIs

LEMMA ThenApart ==
    ASSUME IInv, NEW steps, Then("client", steps)
    PROVE  main'["server"] = main["server"]
<1>1. main' = [main EXCEPT !["client"] = steps \o Tail(main["client"])]
  BY DEF Then
<1> QED
  BY <1>1, OtherIs, OverIs

LEMMA TransportApart ==
    ASSUME IInv, session' = session, TransportSteps("client")
    PROVE  Apart
<1>1. CASE SendSyncML("client")
  <2>1. queue' = queue /\ iMessage' = iMessage
    BY <1>1 DEF SendSyncML
  <2>2. \/ \E steps : Then("client", steps) /\ worker' = worker
        \/ \E job, steps : PostAnd("client", job, steps)
    BY <1>1 DEF SendSyncML
  <2> QED
    BY <2>1, <2>2, PostApart, ThenApart DEF Apart
<1>2. CASE DoSend("client")
  BY <1>2, PostApart DEF DoSend, Apart
<1>3. CASE Receive("client")
  BY <1>3, PostApart DEF Receive, Apart
<1>4. CASE WaitForPut("client")
  BY <1>4, PostApart DEF WaitForPut, Apart
<1>5. CASE Close("client")
  <2>1. queue' = queue /\ iMessage' = iMessage
    BY <1>5 DEF Close
  <2>2. \/ \E steps : Then("client", steps) /\ worker' = worker
        \/ \E job, steps : PostAnd("client", job, steps)
    BY <1>5 DEF Close
  <2> QED
    BY <2>1, <2>2, PostApart, ThenApart DEF Apart
<1>6. CASE ExitThread("client")
  <2>1. worker' = [worker EXCEPT !["client"] = [worker["client"] EXCEPT !.thread = "exiting"]]
    BY <1>6 DEF ExitThread
  <2>2. worker'["server"] = worker["server"]
    BY <2>1, OtherIs, OverIs
  <2> QED
    BY <1>6, <2>2, ThenApart DEF Apart, ExitThread
<1>7. CASE WaitForThread("client")
  BY <1>7, ThenApart DEF WaitForThread, Apart
<1>8. CASE Release("client")
  <2>1. worker' = [worker EXCEPT !["client"] = NoWorker]
    BY <1>8 DEF Release
  <2>2. worker'["server"] = worker["server"]
    BY <2>1, OtherIs, OverIs
  <2>3. iMessage' = iMessage
    BY <1>8 DEF Release
  <2> QED
    BY <1>8, <2>2, <2>3, ThenApart DEF Apart, Release
<1> QED
  BY <1>1, <1>2, <1>3, <1>4, <1>5, <1>6, <1>7, <1>8 DEF TransportSteps

LEMMA AbortApart ==
    ASSUME IInv, NEW outcome, AbortSync("client", outcome)
    PROVE  session'["server"] = session["server"] /\ main'["server"] = main["server"]
<1>1. CASE session["client"].state = "closed"
  BY <1>1 DEF AbortSync
<1>2. CASE session["client"].state # "closed"
  <2>1. /\ session' = [session EXCEPT !["client"] = Ended("client", outcome)]
        /\ main' = [main EXCEPT !["client"] = Exit]
    BY <1>2 DEF AbortSync, Run
  <2> QED
    BY <2>1, OtherIs, OverIs
<1> QED
  BY <1>1, <1>2

LEMMA ProcessApart ==
    ASSUME IInv, NEW s, NEW message, ProcessMessage("client", s, message)
    PROVE  session'["server"] = session["server"] /\ main'["server"] = main["server"]
<1>1. PICK x, steps : /\ session' = [session EXCEPT !["client"] = x]
                      /\ main' = [main EXCEPT !["client"] = steps]
  BY DEF ProcessMessage, Run
<1> QED
  BY <1>1, OtherIs, OverIs

LEMMA EventApart ==
    ASSUME IInv, HandleEvent("client")
    PROVE  Apart
<1> DEFINE d == "client"
           q == queue[d]
<1>0. ASSUME NEW r, queue' = [queue EXCEPT ![d] = r] PROVE queue'["server"] = queue["server"]
  BY <1>0, OtherIs, OverIs
<1>1. Dequeue(d) => queue'["server"] = queue["server"]
  <2>1. Dequeue(d) => queue' = [queue EXCEPT ![d] = Tail(q)]
    BY DEF Dequeue
  <2> QED
    BY <1>0, <2>1
<1>2. CASE InitiateSync(d)
  <2>1. iMessage' = iMessage
    BY <1>2 DEF InitiateSync
  <2>2. \E r : queue' = [queue EXCEPT ![d] = r]
    BY <1>2 DEF InitiateSync, Prepared
  <2>3. \/ \E outcome : AbortSync(d, outcome) /\ worker' = worker
        \/ /\ InitTransport(d, asked[d]) /\ session' = [session EXCEPT ![d] = Begun(d)]
           /\ Run(d, <<FirstMessage(d), Do("receive")>>)
    BY <1>2 DEF InitiateSync
  <2>4. CASE \E outcome : AbortSync(d, outcome) /\ worker' = worker
    BY <1>0, <2>1, <2>2, <2>4, AbortApart DEF Apart
  <2>5. CASE /\ InitTransport(d, asked[d]) /\ session' = [session EXCEPT ![d] = Begun(d)]
             /\ Run(d, <<FirstMessage(d), Do("receive")>>)
    <3> DEFINE x == Begun(d)
               m == <<FirstMessage(d), Do("receive")>>
    <3>1. /\ worker' = [worker EXCEPT ![d] = NewWorker(asked[d])]
          /\ session' = [session EXCEPT ![d] = x] /\ main' = [main EXCEPT ![d] = m]
      BY <2>5 DEF InitTransport, Run
    <3> HIDE DEF x, m
    <3> QED
      BY <1>0, <2>1, <2>2, <3>1, OtherIs, OverIs DEF Apart
  <2> QED
    BY <2>3, <2>4, <2>5
<1>3. CASE ReceiveSyncFinished(d)
  <2>1. /\ session' = [session EXCEPT ![d] = NoSession]
        /\ queue' = [queue EXCEPT ![d] = Kept(Tail(q), ForSession)]
        /\ UNCHANGED <<worker, iMessage, main>>
    BY <1>3 DEF ReceiveSyncFinished
  <2> QED
    BY <1>0, <2>1, OtherIs, OverIs DEF Apart
<1>4. CASE IncomingData(d)
  <2> DEFINE e == Head(q)
  <2>1. worker' = worker /\ iMessage' = iMessage
    BY <1>4 DEF IncomingData
  <2>2. \/ /\ UNCHANGED <<session, main>> /\ queue' = [queue EXCEPT ![d] = Tail(q)]
        \/ Serve(d, e.message)
        \/ /\ UNCHANGED <<session, main>> /\ \E r : queue' = [queue EXCEPT ![d] = r]
    BY <1>4 DEF IncomingData, ListenError
  <2>3. CASE Serve(d, e.message)
    <3>1. \E r : queue' = [queue EXCEPT ![d] = r]
      BY <2>3 DEF Serve, Prepared
    <3>2. \/ \E x : session' = [session EXCEPT ![d] = x] /\ main' = [main EXCEPT ![d] = Exit]
          \/ \E s : ProcessMessage(d, s, e.message)
      BY <2>3 DEF Serve, Run
    <3>3. session'["server"] = session["server"] /\ main'["server"] = main["server"]
      BY <3>2, ProcessApart, OtherIs, OverIs
    <3> QED
      BY <1>0, <2>1, <3>1, <3>3 DEF Apart
  <2> QED
    BY <1>0, <2>1, <2>2, <2>3 DEF Apart
<1>5. CASE StateChanged(d) /\ Dequeue(d)
  BY <1>1, <1>5 DEF StateChanged, agentVars, Apart
<1>6. CASE HandleParsingComplete(d) /\ Dequeue(d)
  <2>1. worker' = worker /\ iMessage' = iMessage
    BY <1>6 DEF HandleParsingComplete
  <2>2. \/ \E s : ProcessMessage(d, s, Head(queue[d]).message)
        \/ UNCHANGED <<session, main>>
    BY <1>6 DEF HandleParsingComplete
  <2> QED
    BY <1>1, <1>6, <2>1, <2>2, ProcessApart DEF Apart
<1>7. CASE SuspendSync(d) /\ Dequeue(d)
  BY <1>1, <1>7, AbortApart DEF SuspendSync, Apart
<1>8. CASE TransportEvent(d) /\ Dequeue(d)
  <2>1. worker' = worker /\ iMessage' = iMessage
    BY <1>8 DEF TransportEvent
  <2>2. AbortSync(d, "connectionError") \/ UNCHANGED <<session, main>>
    BY <1>8 DEF TransportEvent, ListenError
  <2> QED
    BY <1>1, <1>8, <2>1, <2>2, AbortApart DEF Apart
<1> QED
  BY <1>2, <1>3, <1>4, <1>5, <1>6, <1>7, <1>8 DEF HandleEvent

-----------------------------------------------------------------------------
(***************************************************************************)
(* What the worker of the server does                                      *)
(***************************************************************************)
\* What a queue becomes when a worker reports a failure, or nothing
Grown(q, r) ==
    /\ OneCame(r) /\ (Came(r) => Came(q)) /\ (Fails(q) => Fails(r))
    /\ \A e \in Range(r) : e.name = "parsed" => e \in Range(q)

LEMMA ServerIs ==
    ASSUME IInv, MessageInv
    PROVE  /\ ServerFine(worker["server"], main["server"], queue["server"], session["server"], iMessage)
           /\ Fine(worker["server"], main["server"], queue["server"], session["server"],
                   listening["server"], asked["server"], told["server"])
           /\ IsSeq(main["server"]) /\ WorkerHas \subseteq DOMAIN worker["server"]
           /\ "server" \in Devices
BY Names DEF MessageInv, IInv, FineAt, Fine, Program, Fits

LEMMA SetServer ==
    ASSUME NEW f, OverDevices(f), NEW x, NEW g, g = [f EXCEPT !["server"] = x]
    PROVE  g["server"] = x
BY DEF OverDevices, Devices

LEMMA Unheard ==
    ASSUME IInv, MessageInv, queue' = queue
    PROVE  Grown(queue["server"], queue'["server"])
BY ServerIs DEF Grown, ServerFine

LEMMA Heard ==
    ASSUME IInv, MessageInv, NEW name \in Failures,
           Emit("server", <<name>>) \/ Emit("server", <<name, name>>)
    PROVE  /\ Grown(queue["server"], queue'["server"])
           /\ ~Came(queue["server"]) => Fails(queue'["server"])
<1> DEFINE q == queue["server"]
<1>1. ASSUME NEW names, names = <<name>> \/ names = <<name, name>>, Emit("server", names)
      PROVE  Grown(q, queue'["server"]) /\ (~Came(q) => Fails(queue'["server"]))
  <2> DEFINE n == Len(names)
             more == [i \in 1 .. n |-> Event("server", names[i])]
             r == q \o more
  <2>1. n \in Nat /\ 1 \in 1 .. n /\ n # 0 /\ \A i \in 1 .. n : names[i] = name
    BY <1>1
  <2>2. \A x : Event("server", x).name = x
    BY DEF Event
  <2> HIDE DEF n
  <2>3. \A i \in 1 .. n : more[i].name = name
    BY <2>1, <2>2
  <2>4. IsSeq(more) /\ Len(more) = n
    <3>1. more = [i \in 1 .. n |-> more[i]]
      OBVIOUS
    <3> HIDE DEF more
    <3> QED
      BY <2>1, <3>1, FunIs
  <2>5. queue' = [queue EXCEPT !["server"] = r]
    BY <1>1 DEF Emit, n
  <2> HIDE DEF more
  <2>6. \A e \in Range(more) : e.name = name
    BY <2>3, <2>4, SeqIs
  <2>7. more # <<>> /\ Head(more).name = name
    <3>1. more # <<>>
      BY <2>1, <2>4, EmptyIs
    <3>2. Head(more) = more[1]
      BY <2>4, <3>1, TailIs
    <3> QED
      BY <2>1, <2>3, <3>1, <3>2
  <2>8. OneCame(q) /\ name \in Failures /\ name \notin Arrivals \cup {"initiateSync"} /\ name # "parsed"
    BY ServerIs DEF ServerFine, Failures, Arrivals
  <2>9. /\ OneCame(r) /\ (Came(r) <=> Came(q)) /\ (Fails(q) => Fails(r))
        /\ ~Came(q) => Fails(r)
        /\ Range(r) = Range(q) \cup Range(more)
    BY <2>4, <2>6, <2>7, <2>8, MoreQueue
  <2> HIDE DEF r
  <2>10. queue'["server"] = r
    BY <2>5, SetServer, OverIs
  <2> QED
    BY <2>6, <2>8, <2>9, <2>10 DEF Grown
<1> QED
  BY <1>1

\* A main thread that waited goes on with what it was about
LEMMA AwaitedStage ==
    ASSUME NEW m, Stage(m), Step(m, "await")
    PROVE  /\ Stage(Tail(m)) /\ Tail(m) # <<>> /\ ~Replies(m) /\ ~Replies(Tail(m))
           /\ Shuts(m) <=> Shuts(Tail(m))
           /\ Reads(m) <=> Reads(Tail(m))
           /\ ~Waits(m) /\ ~Waits(Tail(m)) /\ ~Releases(m) /\ ~Releases(Tail(m))
<1>1. Leaves(m) \/ Connects(m)
  BY DEF Stage, Shuts, Reads, Says, Closes, Exits, Waits, Releases, Receives, Puts, Replies, Step
<1>2. CASE Leaves(m)
  BY <1>2 DEF Stage, Shuts, Reads, Closes, Leaves, Exits, Waits, Releases, Receives, Puts, Connects,
              Replies, Step
<1>3. CASE Connects(m)
  BY <1>3 DEF Stage, Shuts, Reads, Closes, Leaves, Exits, Waits, Releases, Receives, Puts, Connects,
              Replies, Step
<1> QED
  BY <1>1, <1>2, <1>3

LEMMA WorkedFine ==
    ASSUME NEW w, NEW m, NEW q, NEW s, NEW i, ServerFine(w, m, q, s, i),
           NEW x, InOrder(x), x.thread = w.thread, Wants(x) => Wants(w), Offers(x) => Offers(w),
           NEW n, n = m \/ (Step(m, "await") /\ n = Tail(m)),
           NEW r, Grown(q, r), NEW j \in {i, NoMessage},
           Offers(w) => Offers(x) \/ j = NoMessage \/ Fails(r)
    PROVE  ServerFine(x, n, r, s, j)
<1>1. /\ Stage(m) /\ Threads(w, m, s) /\ Turns(w, m, q, s) /\ Keeps(w, m, q, s, i)
  BY DEF ServerFine
<1>2. /\ Stage(n) /\ (n = <<>> => m = <<>>)
      /\ Shuts(m) <=> Shuts(n)
      /\ Reads(m) <=> Reads(n)
      /\ Replies(m) <=> Replies(n)
      /\ Replies(n) => n = m
      /\ Waits(m) <=> Waits(n)
      /\ Releases(m) <=> Releases(n)
  BY <1>1, AwaitedStage
<1>3. Threads(x, n, s)
  BY <1>1, <1>2 DEF Threads
<1>4. Turns(x, n, r, s)
  BY <1>1, <1>2 DEF Turns, Grown
<1>5. Keeps(x, n, r, s, j)
  BY <1>1, <1>2 DEF Keeps, Grown
<1> QED
  BY <1>2, <1>3, <1>4, <1>5 DEF ServerFine, Grown

LEMMA DoneFine ==
    ASSUME IInv, MessageInv, session' = session, NEW name, NEW x, Done("server", name, x),
           WorkerHas \subseteq DOMAIN x, x.thread = worker["server"].thread,
           \/ x.mailbox = worker["server"].mailbox /\ name = worker["server"].job
           \/ /\ worker["server"].mailbox # <<>> /\ x.mailbox = Tail(worker["server"].mailbox)
              /\ name = Head(worker["server"].mailbox).name /\ worker["server"].job = "idle",
           Grown(queue["server"], queue'["server"]), iMessage' \in {iMessage, NoMessage},
           \/ iMessage' = NoMessage
           \/ ~Came(queue["server"]) => Fails(queue'["server"])
           \/ name # "waitForGet"
    PROVE  MessageInv'
<1> DEFINE w == worker["server"]
           m == main["server"]
           q == queue["server"]
           r == queue'["server"]
           s == session["server"]
           n == IF name \in Blocking THEN Tail(m) ELSE m
           done == [x EXCEPT !.job = "idle"]
           j == iMessage'
<1>1. ServerFine(w, m, q, s, iMessage) /\ Fits(w, m)
  BY ServerIs DEF Fine
<1>2. /\ WorkerHas \subseteq DOMAIN done /\ done.mailbox = x.mailbox /\ done.job = "idle"
      /\ done.thread = w.thread
  BY DEF WorkerHas
<1>3. /\ worker' = [worker EXCEPT !["server"] = done]
      /\ main' = main \/ main' = [main EXCEPT !["server"] = n]
      /\ name \in Blocking => main' = [main EXCEPT !["server"] = n]
      /\ name \notin Blocking => main' = main
  BY DEF Done
<1> HIDE DEF done
<1>4. InOrder(w) /\ Turns(w, m, q, s)
  BY <1>1 DEF ServerFine
<1>5. w.job = "idle" => w.job \notin Transfers
  BY DEF Transfers
<1>6. done.job \notin Transfers
  BY <1>2 DEF Transfers
<1>7. /\ InOrder(done) /\ (Wants(done) => Wants(w)) /\ (Offers(done) => Offers(w))
      /\ Offers(w) => Offers(done) \/ name = "waitForGet"
  <2>1. CASE x.mailbox = w.mailbox /\ name = w.job
    BY <1>2, <1>4, <1>6, <2>1, EndedJob
  <2>2. CASE /\ w.mailbox # <<>> /\ x.mailbox = Tail(w.mailbox)
             /\ name = Head(w.mailbox).name /\ w.job = "idle"
    BY <1>2, <1>4, <1>5, <1>6, <2>2, TakenJob
  <2> QED
    BY <2>1, <2>2
<1>8. name \in Blocking => Step(m, "await")
  <2>1. CASE name = w.job
    BY <1>1, <2>1 DEF Fits, Awaits, Step
  <2>2. CASE w.mailbox # <<>> /\ name = Head(w.mailbox).name
    <3>1. Head(w.mailbox) = w.mailbox[1] /\ 1 \in 1 .. Len(w.mailbox)
      BY <1>4, <2>2, TailIs DEF InOrder
    <3> QED
      BY <1>1, <2>2, <3>1 DEF Fits, Awaits, Step
  <2> QED
    BY <2>1, <2>2
<1>9. Offers(w) => Offers(done) \/ j = NoMessage \/ Fails(r)
  <2> SUFFICES ASSUME Offers(w), ~Offers(done) PROVE j = NoMessage \/ Fails(r)
    OBVIOUS
  <2>1. ~Came(q) /\ name = "waitForGet"
    BY <1>4, <1>7 DEF Turns
  <2> QED
    BY <2>1 DEF Transfers
<1>10. n = m \/ (Step(m, "await") /\ n = Tail(m))
  BY <1>8
<1>0. OverDevices(worker) /\ OverDevices(main)
  BY OverIs
<1>11. worker'["server"] = done
  <2>1. worker' = [worker EXCEPT !["server"] = done]
    BY <1>3
  <2> QED
    BY <1>0, <2>1 DEF OverDevices, Devices
<1>12. main'["server"] = n
  <2>1. CASE name \in Blocking
    <3>1. main' = [main EXCEPT !["server"] = n]
      BY <1>3, <2>1
    <3> HIDE DEF n
    <3> QED
      BY <1>0, <3>1 DEF OverDevices, Devices
  <2>2. CASE name \notin Blocking
    BY <1>3, <2>2
  <2> QED
    BY <2>1, <2>2
<1>13. Grown(q, r) /\ j \in {iMessage, NoMessage}
  OBVIOUS
<1> HIDE DEF n, w, m, q, r, s, j
<1>14. ServerFine(done, n, r, s, j)
  BY <1>1, <1>2, <1>7, <1>9, <1>10, <1>13, WorkedFine
<1> QED
  BY <1>11, <1>12, <1>14, MessageSet DEF r, s, j

\* A message is only taken from a client that is waited for
LEMMA PutFine ==
    ASSUME IInv, MessageInv, session' = session, PutRequest
    PROVE  MessageInv'
<1> DEFINE w == worker["server"]
           m == main["server"]
           q == queue["server"]
           s == session["server"]
           x == [w EXCEPT !.job = "idle"]
           e == [Event("server", "incomingData") EXCEPT !.message = Request.headers.body]
           r == Append(q, e)
<1>1. /\ Requested("PUT") /\ ~Refuses /\ Done("server", "waitForPut", w)
      /\ EmitData("server", Request.headers.body) /\ iMessage' = iMessage
  BY DEF PutRequest
<1>2. w.job = "waitForPut" /\ w.thread \in {"running", "exiting"}
  BY <1>1 DEF Refuses, Requested, Waiting, Alive
<1>3. worker' = [worker EXCEPT !["server"] = x] /\ main' = main
  BY <1>1 DEF Done, Blocking
<1>4. queue' = [queue EXCEPT !["server"] = r] /\ e.name = "incomingData"
  BY <1>1 DEF EmitData, Event
<1>5. /\ ServerFine(w, m, q, s, iMessage) /\ IsSeq(m) /\ WorkerHas \subseteq DOMAIN w
      /\ Fine(w, m, q, s, listening["server"], asked["server"], told["server"])
  BY ServerIs
<1>6. /\ WorkerHas \subseteq DOMAIN x /\ x.mailbox = w.mailbox /\ x.job = "idle"
      /\ x.thread = w.thread
  BY <1>5 DEF WorkerHas
<1>7. x.job \notin Transfers
  BY <1>6 DEF Transfers
<1>8. worker'["server"] = x /\ main'["server"] = m /\ queue'["server"] = r
  <2> HIDE DEF x, r
  <2> QED
    BY <1>3, <1>4, OverIs DEF OverDevices, Devices
<1> HIDE DEF e, w, m, q, s, x, r
<1>9. /\ Stage(m) /\ InOrder(w) /\ OneCame(q) /\ Threads(w, m, s) /\ Turns(w, m, q, s)
      /\ Keeps(w, m, q, s, iMessage)
  BY <1>5 DEF ServerFine
<1>10. InOrder(x) /\ ~Wants(x) /\ ~Offers(x)
  BY <1>2, <1>6, <1>7, <1>9, EndedJob
<1>11. Wants(w) /\ ~Offers(w)
  BY <1>2, <1>9 DEF Wants, Offers, HasJob, InOrder, Transfers
<1>12. ~Came(q) /\ ~Replies(m) /\ ~Reads(m)
  BY <1>9, <1>11 DEF Turns
<1>13. ~Ends(q)
  <2> SUFFICES ASSUME Ends(q) PROVE FALSE
    OBVIOUS
  <2>1. s.state = "closed" /\ ~Reports(m) /\ ~Deletes(m)
    BY <1>5 DEF Fine
  <2>2. Shuts(m)
    BY <1>2, <1>9, <1>12, <2>1 DEF Threads
  <2> QED
    BY <1>5, <2>1, <2>2, Concludes
<1>14. e.name \in Arrivals
  BY <1>4 DEF Arrivals
<1>15. /\ OneCame(r) /\ (Fails(q) => Fails(r)) /\ Range(r) = Range(q) \cup {e}
  BY <1>4, <1>9, <1>12, <1>13, <1>14, OnQueue DEF r
<1>16. Threads(x, m, s)
  BY <1>6, <1>9 DEF Threads
<1>17. Turns(x, m, r, s)
  BY <1>2, <1>4, <1>6, <1>9, <1>10, <1>12, <1>15 DEF Turns
<1>18. Keeps(x, m, r, s, iMessage)
  BY <1>9, <1>11, <1>15 DEF Keeps
<1>19. ServerFine(x, m, r, s, iMessage)
  BY <1>9, <1>10, <1>15, <1>16, <1>17, <1>18 DEF ServerFine
<1> QED
  BY <1>1, <1>8, <1>19, MessageSet DEF s

LEMMA EndsFine ==
    ASSUME IInv, MessageInv, session' = session, ThreadEnds("server")
    PROVE  MessageInv'
<1> DEFINE w == worker["server"]
           m == main["server"]
           q == queue["server"]
           s == session["server"]
           x == [NoWorker EXCEPT !.thread = "ended"]
<1>1. /\ w.thread = "exiting" /\ worker' = [worker EXCEPT !["server"] = x]
      /\ main' = main /\ queue' = queue /\ iMessage' = iMessage
  BY DEF ThreadEnds
<1>2. WorkerHas \subseteq DOMAIN x /\ x.mailbox = <<>> /\ x.job = "idle" /\ x.thread = "ended"
  BY DEF NoWorker, WorkerHas
<1> HIDE DEF x
<1>3. InOrder(x) /\ ~Wants(x) /\ ~Offers(x)
  BY <1>2, NoJobs DEF Transfers
<1>4. worker'["server"] = x
  BY <1>1, OverIs DEF OverDevices, Devices
<1>5. ServerFine(w, m, q, s, iMessage)
  BY ServerIs
<1> HIDE DEF w, m, q, s
<1>6. /\ Stage(m) /\ OneCame(q) /\ Threads(w, m, s) /\ Turns(w, m, q, s)
      /\ Keeps(w, m, q, s, iMessage)
  BY <1>5 DEF ServerFine
<1>7. Waits(m) /\ Shuts(m) /\ m # <<>>
  BY <1>1, <1>6 DEF Threads, Shuts, Waits, Step
<1>8. Threads(x, m, s)
  BY <1>2, <1>7 DEF Threads, Waits, Releases, Step
<1>9. Turns(x, m, q, s)
  BY <1>3, <1>6, <1>7 DEF Turns
<1>10. Keeps(x, m, q, s, iMessage)
  BY <1>6, <1>7 DEF Keeps
<1>11. ServerFine(x, m, q, s, iMessage)
  BY <1>3, <1>6, <1>8, <1>9, <1>10 DEF ServerFine
<1> QED
  BY <1>1, <1>4, <1>11, MessageSet DEF m, q, s

LEMMA WaitsFine ==
    ASSUME IInv, MessageInv, session' = session, ServerWaits
    PROVE  MessageInv'
<1> DEFINE w == worker["server"]
           m == main["server"]
           q == queue["server"]
           s == session["server"]
           name == Head(w.mailbox).name
           x == [Taken("server") EXCEPT !.job = name]
<1>1. /\ w.mailbox # <<>> /\ w.job = "idle"
      /\ worker' = [worker EXCEPT !["server"] = x]
      /\ main' = main /\ queue' = queue /\ iMessage' = iMessage
      /\ w.connected = (name # "waitForConnect")
  BY DEF ServerWaits, TakesJob
<1>2. /\ ServerFine(w, m, q, s, iMessage) /\ WorkerHas \subseteq DOMAIN w
  BY ServerIs
<1>3. /\ WorkerHas \subseteq DOMAIN Taken("server") /\ Taken("server").mailbox = Tail(w.mailbox)
      /\ Taken("server").thread = w.thread /\ Taken("server").connected = w.connected
  BY <1>2 DEF Taken, WorkerHas
<1>4. /\ WorkerHas \subseteq DOMAIN x /\ x.mailbox = Tail(w.mailbox) /\ x.job = name
      /\ x.thread = w.thread /\ x.connected = w.connected
  BY <1>3 DEF WorkerHas
<1> HIDE DEF x
<1>5. worker'["server"] = x
  BY <1>1, OverIs DEF OverDevices, Devices
<1>6. w.job \notin Transfers /\ InOrder(w) /\ (x.job \in Transfers => x.connected)
  BY <1>1, <1>2, <1>4 DEF Transfers, ServerFine
<1>7. /\ InOrder(x) /\ (Wants(x) => Wants(w)) /\ (Offers(x) => Offers(w))
      /\ Offers(w) => Offers(x)
  <2>1. x.job = Head(w.mailbox).name
    BY <1>4
  <2>2. /\ InOrder(x) /\ (Wants(x) => Wants(w)) /\ (Offers(x) => Offers(w))
        /\ Offers(w) => Offers(x) \/ (Head(w.mailbox).name = "waitForGet" /\ x.job # "waitForGet")
    BY <1>1, <1>4, <1>6, <2>1, TakenJob
  <2> QED
    BY <2>1, <2>2
<1>8. Grown(q, q)
  BY <1>2 DEF Grown, ServerFine
<1> HIDE DEF w, m, q, s
<1>9. ServerFine(x, m, q, s, iMessage)
  BY <1>2, <1>4, <1>7, <1>8, WorkedFine
<1> QED
  BY <1>1, <1>5, <1>9, MessageSet DEF m, q, s

LEMMA WorkerFine ==
    ASSUME IInv, MessageInv, session' = session, ServerWorks \/ ServerTimeout
    PROVE  MessageInv'
<1> DEFINE w == worker["server"]
           q == queue["server"]
           r == queue'["server"]
           known(connected) == [w EXCEPT !.connected = connected]
<1>0. WorkerHas \subseteq DOMAIN w
  BY ServerIs
<1>1. ASSUME NEW connected
      PROVE  /\ WorkerHas \subseteq DOMAIN known(connected) /\ known(connected).mailbox = w.mailbox
             /\ known(connected).thread = w.thread
  BY <1>0 DEF WorkerHas
<1>2. /\ WorkerHas \subseteq DOMAIN Taken("server") /\ Taken("server").mailbox = Tail(w.mailbox)
      /\ Taken("server").thread = w.thread
  BY <1>0 DEF Taken, WorkerHas
<1>3. \A name : name \in {"connectionFailed", "connectionTimeout", "connectionError"}
                    => name \in Failures
  BY DEF Failures
<1>4. CASE ServerDeclines
  <2> DEFINE name == Head(w.mailbox).name
  <2>1. /\ w.mailbox # <<>> /\ w.job = "idle"
        /\ Done("server", name, Taken("server")) /\ iMessage' = iMessage
        /\ name \in Transfers => Emit("server", <<"connectionFailed">>)
        /\ Emit("server", <<"connectionFailed">>) \/ queue' = queue
    BY <1>4 DEF ServerDeclines, TakesJob, Transfers
  <2>2. Grown(q, r) /\ (name \in Transfers /\ ~Came(q) => Fails(r))
    BY <1>3, <2>1, Heard, Unheard
  <2>3. ~Came(q) => Fails(r) \/ name # "waitForGet"
    BY <2>2 DEF Transfers
  <2>4. name = Head(w.mailbox).name
    OBVIOUS
  <2> HIDE DEF name
  <2> QED
    BY <1>2, <2>1, <2>2, <2>3, <2>4, DoneFine
<1>5. CASE ServerWaits
  BY <1>5, WaitsFine
<1>6. CASE RequestRefused
  BY <1>6, ApartStep DEF RequestRefused, Apart
<1>7. CASE ConnectRequest
  <2>1. /\ Done("server", w.job, known(TRUE)) /\ queue' = queue /\ iMessage' = iMessage
        /\ Requested("CONNECT") /\ ~Refuses
    BY <1>7 DEF ConnectRequest
  <2>2. ~w.connected
    BY <2>1 DEF Refuses
  <2>3. w.job # "waitForGet"
    BY <2>2, ServerIs DEF ServerFine, InOrder, Transfers
  <2> HIDE DEF known
  <2> QED
    BY <1>1, <2>1, <2>3, Unheard, DoneFine
<1>8. CASE DisconnectRequest
  <2>1. /\ Done("server", w.job, known(FALSE)) /\ iMessage' = iMessage
        /\ w.job # "waitForDisconnect" => Emit("server", <<"connectionError">>)
        /\ Emit("server", <<"connectionError">>) \/ queue' = queue
    BY <1>8 DEF DisconnectRequest
  <2>2. Grown(q, r) /\ (w.job = "waitForGet" /\ ~Came(q) => Fails(r))
    BY <1>3, <2>1, Heard, Unheard
  <2>3. ~Came(q) => Fails(r) \/ w.job # "waitForGet"
    BY <2>2
  <2> HIDE DEF known
  <2> QED
    BY <1>1, <2>1, <2>2, <2>3, DoneFine
<1>9. CASE PutRequest
  BY <1>9, PutFine
<1>10. CASE GetRequest
  <2>1. /\ Done("server", "waitForGet", w) /\ queue' = queue /\ iMessage' = NoMessage
        /\ Requested("GET") /\ ~Refuses
    BY <1>10 DEF GetRequest
  <2>2. w.job = "waitForGet"
    BY <2>1 DEF Refuses
  <2>3. w.mailbox = w.mailbox /\ "waitForGet" = w.job
    BY <2>2
  <2> QED
    BY <1>0, <2>1, <2>3, Unheard, DoneFine
<1>11. CASE ServerTimeout
  <2>1. /\ Done("server", w.job, w) /\ iMessage' = iMessage
        /\ Emit("server", <<"connectionTimeout">>)
    BY <1>11 DEF ServerTimeout
  <2>2. Grown(q, r) /\ (~Came(q) => Fails(r))
    BY <1>3, <2>1, Heard
  <2> QED
    BY <1>0, <2>1, <2>2, DoneFine
<1>12. CASE ServerLinkError
  <2>1. /\ Done("server", w.job, known(FALSE)) /\ iMessage' = iMessage
        /\ \/ Emit("server", <<"connectionError", "connectionError">>)
           \/ Emit("server", <<"connectionError">>)
    BY <1>12 DEF ServerLinkError
  <2>2. Grown(q, r) /\ (~Came(q) => Fails(r))
    BY <1>3, <2>1, Heard
  <2> HIDE DEF known
  <2> QED
    BY <1>1, <2>1, <2>2, DoneFine
<1>13. CASE ThreadEnds("server")
  BY <1>13, EndsFine
<1> QED
  BY <1>4, <1>5, <1>6, <1>7, <1>8, <1>9, <1>10, <1>11, <1>12, <1>13 DEF ServerWorks

-----------------------------------------------------------------------------
(***************************************************************************)
(* What the transport of the server does in its main thread                *)
(***************************************************************************)
LEMMA StageIs ==
    ASSUME NEW m
    PROVE  /\ m = <<>> => ~Says(m) /\ ~Shuts(m) /\ ~Reads(m) /\ ~Replies(m)
           /\ Says(m) => m # <<>> /\ ~Shuts(m) /\ ~Reads(m) /\ ~Replies(m)
           /\ Shuts(m) => m # <<>> /\ ~Says(m) /\ ~Reads(m) /\ ~Replies(m)
           /\ Reads(m) => m # <<>> /\ ~Says(m) /\ ~Shuts(m) /\ ~Replies(m)
           /\ Replies(m) => m # <<>> /\ ~Says(m) /\ ~Shuts(m) /\ ~Reads(m)
           /\ Waits(m) => Shuts(m) /\ ~Releases(m)
           /\ Releases(m) => Shuts(m) /\ ~Waits(m)
           /\ Closes(m) \/ Leaves(m) \/ Exits(m) => Shuts(m) /\ ~Waits(m) /\ ~Releases(m)
           /\ Receives(m) \/ Connects(m) \/ Puts(m) => Reads(m)
<1>1. Leaves(m) => ~Connects(m)
  BY DEF Leaves, Connects, Exits, Puts, Step
<1> QED
  BY <1>1 DEF Says, Shuts, Reads, Replies, Closes, Leaves, Exits, Waits, Releases, Receives,
              Connects, Puts, Step

LEMMA HeadTells ==
    ASSUME NEW m, Stage(m), NEW name, Step(m, name)
    PROVE  /\ name # "doSend"
           /\ name = "send" => Replies(m)
           /\ name = "receive" => Receives(m)
           /\ name = "waitForPut" => Puts(m)
           /\ name = "close" => Closes(m)
           /\ name = "exit" => Exits(m)
           /\ name = "wait" => Waits(m)
           /\ name = "release" => Releases(m)
           /\ name \in {"report", "delete"} => Says(m)
BY DEF Stage, Says, Shuts, Reads, Replies, Closes, Leaves, Exits, Waits, Releases, Receives,
       Connects, Puts, Step

LEMMA JobIs == \A name, message : Job(name, message).name = name
BY DEF Job

LEMMA NextStage ==
    ASSUME NEW steps, Then("server", steps), IInv, MessageInv, main["server"] # <<>>
    PROVE  /\ main'["server"] = steps \o Tail(main["server"]) /\ IsSeq(Tail(main["server"]))
           /\ steps = <<>> => main'["server"] = Tail(main["server"])
<1> DEFINE n == steps \o Tail(main["server"])
<1>1. main' = [main EXCEPT !["server"] = n]
  BY DEF Then
<1>2. IsSeq(Tail(main["server"]))
  BY ServerIs, TailIs
<1>3. steps = <<>> => n = Tail(main["server"])
  BY <1>2, NoneIs
<1> HIDE DEF n
<1>4. main'["server"] = n
  BY <1>1, OverIs DEF OverDevices, Devices
<1> QED
  BY <1>2, <1>3, <1>4 DEF n

LEMMA PostIs ==
    ASSUME IInv, MessageInv, NEW job, NEW steps, PostAnd("server", job, steps),
           job.name \in Transfers => ~Wants(worker["server"]), main["server"] # <<>>
    PROVE  LET x == worker'["server"]
               w == worker["server"]
           IN  /\ InOrder(x) /\ x.thread = w.thread
               /\ Wants(x) <=> Wants(w) \/ job.name = "waitForPut"
               /\ Offers(x) <=> Offers(w) \/ job.name = "waitForGet"
               /\ Then("server", steps)
<1> DEFINE w == worker["server"]
           x == [w EXCEPT !.mailbox = Append(@, job)]
<1>1. worker' = [worker EXCEPT !["server"] = x] /\ Then("server", steps)
  BY DEF PostAnd, Post
<1>2. InOrder(w)
  BY ServerIs DEF ServerFine
<1>3. /\ InOrder(x) /\ x.thread = w.thread
      /\ Wants(x) <=> Wants(w) \/ job.name = "waitForPut"
      /\ Offers(x) <=> Offers(w) \/ job.name = "waitForGet"
  BY <1>2, PostedJob
<1> HIDE DEF x
<1>4. worker'["server"] = x
  BY <1>1, OverIs DEF OverDevices, Devices
<1> QED
  BY <1>1, <1>3, <1>4

LEMMA SendFine ==
    ASSUME IInv, MessageInv, session' = session, SendSyncML("server")
    PROVE  MessageInv' /\ iMessage = NoMessage
<1> DEFINE w == worker["server"]
           m == main["server"]
           q == queue["server"]
           s == session["server"]
           job == Job("waitForGet", NoMessage)
           x == worker'["server"]
           n == Tail(m)
<1>1. /\ Step(m, "send") /\ PostAnd("server", job, <<>>) /\ queue' = queue
  BY DEF SendSyncML, AtStep, Step
<1>2. ServerFine(w, m, q, s, iMessage)
  BY ServerIs
<1>3. job.name = "waitForGet"
  BY JobIs
<1>4. /\ Stage(m) /\ OneCame(q) /\ Threads(w, m, s) /\ Turns(w, m, q, s)
      /\ Keeps(w, m, q, s, iMessage)
  BY <1>2 DEF ServerFine
<1>5. Replies(m) /\ m # <<>>
  BY <1>1, <1>4, HeadTells DEF Step
<1>6. ~Wants(w) /\ ~Came(q) /\ iMessage = NoMessage
  BY <1>4, <1>5 DEF Turns, Keeps
<1> HIDE DEF job
<1>7. /\ InOrder(x) /\ x.thread = w.thread /\ ~Wants(x) /\ Offers(x) /\ Then("server", <<>>)
  BY <1>1, <1>3, <1>5, <1>6, PostIs
<1>8. main'["server"] = n
  BY <1>5, <1>7, NextStage
<1> HIDE DEF w, m, q, s, x, n
<1>9. Closes(n) \/ (Receives(n) /\ s.state = "open")
  BY <1>4, <1>5 DEF Replies, Turns, n
<1>10. /\ Stage(n) /\ ~Replies(n) /\ n # <<>> /\ ~Waits(n) /\ ~Releases(n)
       /\ Shuts(n) \/ s.state = "open"
  BY <1>9, StageIs DEF Stage
<1>11. ~Waits(m) /\ ~Releases(m)
  BY <1>5, StageIs
<1>12. Threads(x, n, s)
  BY <1>4, <1>7, <1>10, <1>11 DEF Threads
<1>13. Turns(x, n, q, s)
  BY <1>4, <1>6, <1>7, <1>10 DEF Turns
<1>14. \A j : Keeps(x, n, q, s, j)
  BY <1>7, <1>10 DEF Keeps
<1>15. ServerFine(x, n, q, s, iMessage')
  BY <1>4, <1>7, <1>10, <1>12, <1>13, <1>14 DEF ServerFine
<1> QED
  BY <1>1, <1>6, <1>8, <1>15, MessageSet DEF x, n, q, s

\* The server waits for a message of its client, or for the client first
LEMMA ReadsFine ==
    ASSUME IInv, MessageInv, UNCHANGED <<session, queue, iMessage>>, Reads(main["server"]),
           NEW job, NEW steps, PostAnd("server", job, steps),
           \/ job.name = "waitForPut" /\ main'["server"] = <<>>
           \/ job.name = "waitForConnect" /\ Connects(main'["server"])
    PROVE  MessageInv'
<1> DEFINE w == worker["server"]
           m == main["server"]
           q == queue["server"]
           s == session["server"]
           x == worker'["server"]
           n == main'["server"]
<1>1. ServerFine(w, m, q, s, iMessage)
  BY ServerIs
<1>2. m # <<>> /\ ~Shuts(m) /\ ~Replies(m) /\ ~Waits(m) /\ ~Releases(m)
  BY StageIs
<1>3. /\ Stage(m) /\ OneCame(q) /\ Threads(w, m, s) /\ Turns(w, m, q, s)
      /\ Keeps(w, m, q, s, iMessage)
  BY <1>1 DEF ServerFine
<1>4. ~Wants(w) /\ ~Came(q)
  BY <1>3 DEF Turns
<1>5. /\ InOrder(x) /\ x.thread = w.thread
      /\ Wants(x) <=> Wants(w) \/ job.name = "waitForPut"
      /\ Offers(x) <=> Offers(w) \/ job.name = "waitForGet"
  BY <1>2, <1>4, PostIs
<1>6. n = <<>> \/ (job.name = "waitForConnect" /\ Connects(n))
  OBVIOUS
<1> HIDE DEF w, m, q, s, x, n
<1>7. Offers(x) <=> Offers(w)
  BY <1>5
<1>8. /\ Stage(n) /\ ~Replies(n) /\ ~Shuts(n) /\ ~Waits(n) /\ ~Releases(n)
      /\ Reads(n) => ~Wants(x)
  BY <1>4, <1>5, <1>6, StageIs DEF Stage
<1>9. Threads(x, n, s)
  BY <1>2, <1>3, <1>5, <1>8 DEF Threads
<1>10. Turns(x, n, q, s)
  BY <1>3, <1>4, <1>8 DEF Turns
<1>11. Keeps(x, n, q, s, iMessage)
  BY <1>2, <1>3, <1>7, <1>8 DEF Keeps
<1>12. ServerFine(x, n, q, s, iMessage)
  BY <1>3, <1>5, <1>8, <1>9, <1>10, <1>11 DEF ServerFine
<1> QED
  BY <1>12, MessageSet DEF x, n, q, s

\* The steps of close()
LEMMA ShutsFine ==
    ASSUME IInv, MessageInv, UNCHANGED <<session, queue, iMessage>>, Shuts(main["server"]),
           LET n == main'["server"]
               x == worker'["server"]
           IN  /\ Shuts(n) /\ InOrder(x)
               /\ Wants(x) => Wants(worker["server"])
               /\ Offers(x) => Offers(worker["server"])
               /\ x.thread = "exiting" => Waits(n)
               /\ x.thread = "ended" => Waits(n) \/ Releases(n)
               /\ Releases(n) => x.thread \notin {"running", "exiting"}
    PROVE  MessageInv'
<1> DEFINE w == worker["server"]
           m == main["server"]
           q == queue["server"]
           s == session["server"]
           x == worker'["server"]
           n == main'["server"]
<1>1. ServerFine(w, m, q, s, iMessage)
  BY ServerIs
<1>2. /\ Shuts(n) /\ InOrder(x) /\ (Wants(x) => Wants(w)) /\ (Offers(x) => Offers(w))
      /\ x.thread = "exiting" => Waits(n)
      /\ x.thread = "ended" => Waits(n) \/ Releases(n)
      /\ Releases(n) => x.thread \notin {"running", "exiting"}
  OBVIOUS
<1> HIDE DEF w, m, q, s, x, n
<1>3. OneCame(q) /\ Turns(w, m, q, s) /\ Keeps(w, m, q, s, iMessage)
  BY <1>1 DEF ServerFine
<1>4. Stage(n) /\ n # <<>> /\ ~Replies(n) /\ ~Reads(n)
  BY <1>2, StageIs DEF Stage
<1>5. Threads(x, n, s)
  BY <1>2 DEF Threads
<1>6. Turns(x, n, q, s)
  BY <1>2, <1>3, <1>4 DEF Turns
<1>7. Keeps(x, n, q, s, iMessage)
  BY <1>2, <1>4 DEF Keeps
<1>8. ServerFine(x, n, q, s, iMessage)
  BY <1>2, <1>3, <1>4, <1>5, <1>6, <1>7 DEF ServerFine
<1> QED
  BY <1>8, MessageSet DEF x, n, q, s


LEMMA NextSteps ==
    ASSUME NEW t, IsSeq(t)
    PROVE  /\ Says(t) => Releases(<<Do("release")>> \o t)
           /\ Says(t) => Exits(<<Do("exit"), Do("wait"), Do("release")>> \o t)
           /\ Says(t) => Leaves(<<Do("await"), Do("exit"), Do("wait"), Do("release")>> \o t)
           /\ t = <<>> => Connects(<<Do("await"), Do("waitForPut")>> \o t)
<1> DEFINE a == Do("await")
           e == Do("exit")
           w == Do("wait")
           r == Do("release")
           p == Do("waitForPut")
<1>1. /\ a.do = "await" /\ e.do = "exit" /\ w.do = "wait" /\ r.do = "release"
      /\ p.do = "waitForPut"
  BY DoIs
<1> HIDE DEF a, e, w, r, p
<1>2. <<r>> \o t # <<>> /\ Head(<<r>> \o t) = r /\ Tail(<<r>> \o t) = t
  BY PushOne
<1>3. <<w, r>> \o t # <<>> /\ Head(<<w, r>> \o t) = w /\ Tail(<<w, r>> \o t) = <<r>> \o t
  BY PushTwo
<1>4. /\ <<e, w, r>> \o t # <<>> /\ Head(<<e, w, r>> \o t) = e
      /\ Tail(<<e, w, r>> \o t) = <<w, r>> \o t
  BY PushThree
<1>5. /\ <<a, e, w, r>> \o t # <<>> /\ Head(<<a, e, w, r>> \o t) = a
      /\ Tail(<<a, e, w, r>> \o t) = <<e, w, r>> \o t
  BY PushFour
<1>6. <<p>> \o t # <<>> /\ Head(<<p>> \o t) = p /\ Tail(<<p>> \o t) = t
  BY PushOne
<1>7. <<a, p>> \o t # <<>> /\ Head(<<a, p>> \o t) = a /\ Tail(<<a, p>> \o t) = <<p>> \o t
  BY PushTwo
<1>8. t = <<>> => Connects(<<a, p>> \o t)
  BY <1>1, <1>6, <1>7 DEF Connects, Puts, Step
<1>9. Says(t) => Releases(<<r>> \o t)
  BY <1>1, <1>2 DEF Releases, Step
<1>10. Says(t) => Exits(<<e, w, r>> \o t)
  BY <1>1, <1>3, <1>4, <1>9 DEF Exits, Waits, Step
<1>11. Says(t) => Leaves(<<a, e, w, r>> \o t)
  BY <1>1, <1>5, <1>10 DEF Leaves, Step
<1> QED
  BY <1>8, <1>9, <1>10, <1>11 DEF a, e, w, r, p

LEMMA AtIs ==
    ASSUME IInv, MessageInv, NEW name, AtStep("server", name)
    PROVE  Step(main["server"], name) /\ Stage(main["server"]) /\ main["server"] # <<>>
BY ServerIs DEF AtStep, Step, ServerFine

LEMMA ReceiveFine ==
    ASSUME IInv, MessageInv, session' = session, Receive("server") \/ WaitForPut("server")
    PROVE  MessageInv'
<1> DEFINE m == main["server"]
<1>0. \A name : Job(name, NoMessage).name = name
  BY JobIs
<1>1. UNCHANGED <<session, queue, iMessage>>
  BY DEF Receive, WaitForPut
<1>2. CASE WaitForPut("server")
  <2>1. PostAnd("server", Job("waitForPut", NoMessage), <<>>) /\ AtStep("server", "waitForPut")
    BY <1>2 DEF WaitForPut
  <2>2. Puts(m)
    BY <2>1, AtIs, HeadTells
  <2>3. Reads(m) /\ Tail(m) = <<>> /\ m # <<>>
    BY <2>2, StageIs DEF Puts
  <2>4. Then("server", <<>>)
    BY <2>1 DEF PostAnd
  <2>5. main'["server"] = <<>>
    BY <2>3, <2>4, NextStage
  <2> QED
    BY <1>0, <1>1, <2>1, <2>3, <2>5, ReadsFine
<1>3. CASE Receive("server")
  <2>1. AtStep("server", "receive")
    BY <1>3 DEF Receive
  <2>2. Receives(m)
    BY <2>1, AtIs, HeadTells
  <2>3. Reads(m) /\ Tail(m) = <<>> /\ m # <<>>
    BY <2>2, StageIs DEF Receives
  <2>4. CASE PostAnd("server", Job("waitForPut", NoMessage), <<>>)
    <3>1. Then("server", <<>>)
      BY <2>4 DEF PostAnd
    <3>2. main'["server"] = <<>>
      BY <2>3, <3>1, NextStage
    <3> QED
      BY <1>0, <1>1, <2>3, <2>4, <3>2, ReadsFine
  <2>5. CASE PostAnd("server", Job("waitForConnect", NoMessage), <<Do("await"), Do("waitForPut")>>)
    <3>1. Then("server", <<Do("await"), Do("waitForPut")>>)
      BY <2>5 DEF PostAnd
    <3>2. main'["server"] = <<Do("await"), Do("waitForPut")>> \o Tail(m) /\ IsSeq(Tail(m))
      BY <2>3, <3>1, NextStage
    <3>3. Connects(main'["server"])
      BY <2>3, <3>2, NextSteps
    <3> QED
      BY <1>0, <1>1, <2>3, <2>5, <3>3, ReadsFine
  <2> QED
    BY <1>3, <2>4, <2>5 DEF Receive
<1> QED
  BY <1>2, <1>3

LEMMA CloseFine ==
    ASSUME IInv, MessageInv, session' = session, Close("server")
    PROVE  MessageInv'
<1> DEFINE w == worker["server"]
           m == main["server"]
           x == worker'["server"]
           n == main'["server"]
           job == Job("waitForDisconnect", NoMessage)
<1>1. AtStep("server", "close") /\ UNCHANGED <<session, queue, iMessage>>
  BY DEF Close
<1>2. Closes(m) /\ m # <<>>
  BY <1>1, AtIs, HeadTells
<1>3. Shuts(m) /\ ~Waits(m) /\ ~Releases(m) /\ Says(Tail(m))
  BY <1>2, StageIs DEF Closes
<1>4. InOrder(w) /\ w.thread \notin {"exiting", "ended"}
  BY <1>3, ServerIs DEF ServerFine, Threads
<1>5. CASE w.thread # "running" /\ Then("server", <<Do("release")>>) /\ UNCHANGED worker
  <2>1. n = <<Do("release")>> \o Tail(m) /\ IsSeq(Tail(m))
    BY <1>2, <1>5, NextStage
  <2>2. Releases(n)
    BY <1>3, <2>1, NextSteps
  <2>3. Shuts(n)
    BY <2>2, StageIs
  <2> QED
    BY <1>1, <1>3, <1>4, <1>5, <2>2, <2>3, ShutsFine
<1>6. CASE PostAnd("server", job, <<Do("await"), Do("exit"), Do("wait"), Do("release")>>)
  <2>1. job.name = "waitForDisconnect"
    BY JobIs
  <2>2. job.name \notin Transfers
    BY <2>1 DEF Transfers
  <2> HIDE DEF job
  <2>3. /\ InOrder(x) /\ x.thread = w.thread /\ (Wants(x) <=> Wants(w))
        /\ (Offers(x) <=> Offers(w))
        /\ Then("server", <<Do("await"), Do("exit"), Do("wait"), Do("release")>>)
    BY <1>2, <1>6, <2>1, <2>2, PostIs
  <2>4. /\ n = <<Do("await"), Do("exit"), Do("wait"), Do("release")>> \o Tail(m)
        /\ IsSeq(Tail(m))
    BY <1>2, <2>3, NextStage
  <2>5. Leaves(n)
    BY <1>3, <2>4, NextSteps
  <2>6. Shuts(n) /\ ~Releases(n)
    BY <2>5, StageIs
  <2> QED
    BY <1>1, <1>3, <1>4, <2>3, <2>6, ShutsFine
<1>7. CASE Then("server", <<Do("exit"), Do("wait"), Do("release")>>) /\ UNCHANGED worker
  <2>1. n = <<Do("exit"), Do("wait"), Do("release")>> \o Tail(m) /\ IsSeq(Tail(m))
    BY <1>2, <1>7, NextStage
  <2>2. Exits(n)
    BY <1>3, <2>1, NextSteps
  <2>3. Shuts(n) /\ ~Releases(n)
    BY <2>2, StageIs
  <2> QED
    BY <1>1, <1>3, <1>4, <1>7, <2>3, ShutsFine
<1> QED
  BY <1>5, <1>6, <1>7 DEF Close

LEMMA ExitFine ==
    ASSUME IInv, MessageInv, session' = session,
           ExitThread("server") \/ WaitForThread("server")
    PROVE  MessageInv'
<1> DEFINE w == worker["server"]
           m == main["server"]
           x == worker'["server"]
           n == main'["server"]
<1>1. UNCHANGED <<session, queue, iMessage>> /\ Then("server", <<>>)
  BY DEF ExitThread, WaitForThread
<1>2. /\ InOrder(w) /\ Threads(w, m, session["server"]) /\ m # <<>>
      /\ WorkerHas \subseteq DOMAIN w
  BY ServerIs, AtIs DEF ServerFine, ExitThread, WaitForThread
<1>3. n = Tail(m)
  BY <1>1, <1>2, NextStage
<1>4. CASE ExitThread("server")
  <2>1. Exits(m)
    BY <1>4, AtIs, HeadTells DEF ExitThread
  <2>2. Shuts(m) /\ Waits(n)
    BY <1>3, <2>1, StageIs DEF Exits
  <2>3. Shuts(n) /\ ~Releases(n)
    BY <2>2, StageIs
  <2> DEFINE v == [w EXCEPT !.thread = "exiting"]
  <2>4. worker' = [worker EXCEPT !["server"] = v]
    BY <1>4 DEF ExitThread
  <2>5. /\ v.thread = "exiting" /\ v.mailbox = w.mailbox /\ v.job = w.job
        /\ v.connected = w.connected /\ DOMAIN v = DOMAIN w
    BY <1>2 DEF WorkerHas
  <2> HIDE DEF v
  <2>6. x = v
    BY <2>4, OverIs DEF OverDevices, Devices
  <2>7. InOrder(v) /\ (Wants(v) <=> Wants(w)) /\ (Offers(v) <=> Offers(w))
    BY <1>2, <2>5 DEF InOrder, Wants, Offers, HasJob
  <2> QED
    BY <1>1, <2>2, <2>3, <2>5, <2>6, <2>7, ShutsFine
<1>5. CASE WaitForThread("server")
  <2>1. Waits(m) /\ w.thread = "ended" /\ x = w
    BY <1>5, AtIs, HeadTells DEF WaitForThread
  <2>2. Shuts(m) /\ Releases(n)
    BY <1>3, <2>1, StageIs DEF Waits
  <2>3. Shuts(n)
    BY <2>2, StageIs
  <2> QED
    BY <1>1, <1>2, <2>1, <2>2, <2>3, ShutsFine
<1> QED
  BY <1>4, <1>5

LEMMA ReleaseFine ==
    ASSUME IInv, MessageInv, session' = session, Release("server")
    PROVE  MessageInv' /\ worker["server"].thread \notin {"running", "exiting"}
<1> DEFINE w == worker["server"]
           m == main["server"]
           q == queue["server"]
           s == session["server"]
           x == NoWorker
           n == Tail(m)
<1>1. /\ AtStep("server", "release") /\ worker' = [worker EXCEPT !["server"] = x]
      /\ iMessage' = NoMessage /\ queue' = queue /\ Then("server", <<>>)
  BY DEF Release
<1>2. Releases(m) /\ m # <<>>
  BY <1>1, AtIs, HeadTells
<1>3. Says(n) /\ w.thread \notin {"running", "exiting"}
  BY <1>2, ServerIs DEF Releases, ServerFine, Threads
<1>4. main'["server"] = n
  BY <1>1, <1>2, NextStage
<1>5. WorkerHas \subseteq DOMAIN x /\ x.mailbox = <<>> /\ x.job = "idle" /\ x.thread = "none"
  BY DEF NoWorker, WorkerHas
<1> HIDE DEF x
<1>6. worker'["server"] = x
  BY <1>1, OverIs DEF OverDevices, Devices
<1>7. InOrder(x) /\ ~Wants(x) /\ ~Offers(x)
  BY <1>5, NoJobs DEF Transfers
<1>8. OneCame(q) /\ Turns(w, m, q, s)
  BY ServerIs DEF ServerFine
<1> HIDE DEF w, m, q, s, n
<1>9. n # <<>> /\ ~Shuts(n) /\ ~Reads(n) /\ ~Replies(n) /\ Stage(n) /\ ~Releases(n)
  BY <1>3, StageIs DEF Stage
<1>10. Threads(x, n, s)
  BY <1>5, <1>9 DEF Threads
<1>11. Turns(x, n, q, s)
  BY <1>7, <1>8, <1>9 DEF Turns
<1>12. Keeps(x, n, q, s, NoMessage)
  BY <1>9 DEF Keeps
<1>13. ServerFine(x, n, q, s, NoMessage)
  BY <1>7, <1>8, <1>9, <1>10, <1>11, <1>12 DEF ServerFine
<1> QED
  BY <1>1, <1>3, <1>4, <1>6, <1>13, MessageSet DEF q, s, w

LEMMA TransportFine ==
    ASSUME IInv, MessageInv, session' = session, TransportSteps("server")
    PROVE  MessageInv'
<1>1. ~DoSend("server")
  BY AtIs, HeadTells DEF DoSend
<1> QED
  BY <1>1, SendFine, ReceiveFine, CloseFine, ExitFine, ReleaseFine DEF TransportSteps

-----------------------------------------------------------------------------
(***************************************************************************)
(* What the agent and the session of the server do                         *)
(***************************************************************************)
\* A main thread between two events
LEMMA IdleIs ==
    ASSUME IInv, MessageInv, main["server"] = <<>>
    PROVE  LET w == worker["server"]
               q == queue["server"]
               s == session["server"]
           IN  /\ OneCame(q) /\ InOrder(w) /\ w.thread \notin {"exiting", "ended"}
               /\ w.thread # "none" => s.state # "closed"
               /\ Wants(w) \/ Offers(w) => ~Came(q)
               /\ w.thread = "none" /\ s.state = "none" => ~Came(q)
               /\ s.state = "none" => \A e \in Range(q) : e.name # "parsed"
               /\ iMessage # NoMessage => s.state = "open" /\ (Offers(w) \/ Fails(q))
               /\ listening["server"] => s.state = "none"
               /\ Ends(q) => s.state = "closed"
<1> DEFINE m == main["server"]
<1>1. ~Shuts(m) /\ ~Waits(m) /\ ~Releases(m) /\ ~Replies(m)
  BY StageIs
<1> QED
  BY <1>1, ServerIs DEF ServerFine, Threads, Turns, Keeps, Fine

\* An event that leaves the session as it is
LEMMA QuietFine ==
    ASSUME IInv, MessageInv, main["server"] = <<>>, UNCHANGED <<session, main, worker, iMessage>>,
           NEW r, r = queue'["server"], OneCame(r), Came(r) => Came(queue["server"]),
           \A e \in Range(r) : e.name = "parsed" => e \in Range(queue["server"]),
           \/ Fails(queue["server"]) => Fails(r)
           \/ session["server"].state # "open"
    PROVE  MessageInv'
<1> DEFINE w == worker["server"]
           m == main["server"]
           q == queue["server"]
           s == session["server"]
<1>1. ServerFine(w, m, q, s, iMessage)
  BY ServerIs
<1>2. m = <<>> /\ ~Replies(m) /\ ~Reads(m) /\ ~Shuts(m)
  BY StageIs
<1>3. /\ \A e \in Range(r) : e.name = "parsed" => e \in Range(q)
      /\ Came(r) => Came(q)
      /\ (Fails(q) => Fails(r)) \/ s.state # "open"
  OBVIOUS
<1> HIDE DEF w, m, q, s
<1>4. /\ Stage(m) /\ InOrder(w) /\ Threads(w, m, s) /\ Turns(w, m, q, s)
      /\ Keeps(w, m, q, s, iMessage)
  BY <1>1 DEF ServerFine
<1>5. Turns(w, m, r, s)
  BY <1>2, <1>3, <1>4 DEF Turns
<1>6. Keeps(w, m, r, s, iMessage)
  BY <1>2, <1>3, <1>4 DEF Keeps
<1>7. ServerFine(w, m, r, s, iMessage)
  BY <1>4, <1>5, <1>6 DEF ServerFine
<1> QED
  BY <1>7, MessageSet DEF w, m, s

\* An event that ends the session
LEMMA ClosedFine ==
    ASSUME IInv, MessageInv, main["server"] = <<>>, UNCHANGED <<worker, iMessage>>,
           NEW r, r = queue'["server"], OneCame(r), Came(r) => Came(queue["server"]),
           session'["server"].state = "closed", main'["server"] = Exit
    PROVE  MessageInv'
<1> DEFINE w == worker["server"]
           n == main'["server"]
           q == queue["server"]
           s == session'["server"]
<1>1. /\ InOrder(w) /\ w.thread \notin {"exiting", "ended"}
      /\ Wants(w) \/ Offers(w) => ~Came(q)
  BY IdleIs
<1>2. Shuts(n) /\ ~Replies(n) /\ ~Reads(n) /\ ~Releases(n) /\ n # <<>> /\ Stage(n)
  BY ExitStage, StageIs DEF Stage
<1>3. Came(r) => Came(q)
  OBVIOUS
<1>4. s.state = "closed"
  OBVIOUS
<1> HIDE DEF w, n, q, s
<1>5. Threads(w, n, s)
  BY <1>1, <1>2 DEF Threads
<1>6. Turns(w, n, r, s)
  BY <1>1, <1>2, <1>3, <1>4 DEF Turns
<1>7. Keeps(w, n, r, s, iMessage)
  BY <1>2 DEF Keeps
<1>8. ServerFine(w, n, r, s, iMessage)
  BY <1>1, <1>2, <1>5, <1>6, <1>7 DEF ServerFine
<1> QED
  BY <1>8, MessageSet DEF w, n, s

LEMMA AbortsTo ==
    ASSUME IInv, MessageInv, NEW outcome, AbortSync("server", outcome)
    PROVE  \/ session["server"].state = "closed" /\ UNCHANGED <<session, main>>
           \/ session'["server"].state = "closed" /\ main'["server"] = Exit
<1>1. CASE session["server"].state = "closed"
  BY <1>1 DEF AbortSync
<1>2. CASE session["server"].state # "closed"
  <2> DEFINE x == Ended("server", outcome)
  <2>1. session' = [session EXCEPT !["server"] = x] /\ main' = [main EXCEPT !["server"] = Exit]
    BY <1>2 DEF AbortSync, Run
  <2>2. x.state = "closed"
    BY ServerIs DEF Ended, Fine, SessionHas
  <2> HIDE DEF x
  <2>3. session'["server"] = x /\ main'["server"] = Exit
    BY <2>1, OverIs DEF OverDevices, Devices
  <2> QED
    BY <2>2, <2>3
<1> QED
  BY <1>1, <1>2

\* The session answers the message that it took
LEMMA ProcessFine ==
    ASSUME IInv, MessageInv, main["server"] = <<>>, UNCHANGED <<worker, iMessage>>,
           ~Wants(worker["server"]), ~Offers(worker["server"]), iMessage = NoMessage,
           NEW r, r = queue'["server"], OneCame(r), ~Came(r),
           NEW old, SessionHas \subseteq DOMAIN old, old.state = "open",
           NEW message, ProcessMessage("server", old, message)
    PROVE  MessageInv'
<1> DEFINE w == worker["server"]
           n == main'["server"]
           s == session'["server"]
           k == message.n + 1
           a == Send(Message(k, message.of))
           b == Do("receive")
           taken == [old EXCEPT !.turn = k, !.of = message.of]
           finished == [taken EXCEPT !.state = "closed", !.turn = cfg.length, !.outcome = "finished"]
           next == IF k < cfg.length THEN taken ELSE finished
           steps == IF k < cfg.length THEN <<a>> \o <<b>>
                    ELSE IF k = cfg.length THEN <<a>> \o Exit ELSE Exit
<1>1. session' = [session EXCEPT !["server"] = next] /\ main' = [main EXCEPT !["server"] = steps]
  BY DEF ProcessMessage, Run
<1>2. taken.state = "open" /\ finished.state = "closed"
  BY DEF SessionHas
<1>3. a.do = "send" /\ b.do = "receive"
  BY DoIs DEF Send
<1> HIDE DEF taken, finished, a, b
<1>4. s = next /\ n = steps
  <2> HIDE DEF next, steps
  <2> QED
    BY <1>1, OverIs DEF OverDevices, Devices
<1>5. <<a>> \o <<b>> # <<>> /\ Head(<<a>> \o <<b>>) = a /\ Tail(<<a>> \o <<b>>) = <<b>>
  BY OneIs, PushOne
<1>6. <<b>> # <<>> /\ Head(<<b>>) = b /\ Tail(<<b>>) = <<>>
  BY OneIs
<1>7. IsSeq(Exit) /\ Closes(Exit) /\ Shuts(Exit)
  <2>1. IsSeq(Exit)
    BY ExitIs
  <2> QED
    BY <2>1, ExitStage
<1>8. <<a>> \o Exit # <<>> /\ Head(<<a>> \o Exit) = a /\ Tail(<<a>> \o Exit) = Exit
  BY <1>7, PushOne
<1>9. ~Receives(Exit)
  BY <1>7 DEF Closes, Receives, Step
<1>10. \/ s.state = "open" /\ Replies(n)
       \/ s.state = "closed" /\ Replies(n) /\ ~Receives(Tail(n))
       \/ s.state = "closed" /\ Shuts(n)
  <2>1. CASE k < cfg.length
    BY <1>2, <1>3, <1>4, <1>5, <1>6, <2>1 DEF Replies, Receives, Step
  <2>2. CASE ~(k < cfg.length) /\ k = cfg.length
    BY <1>2, <1>3, <1>4, <1>7, <1>8, <1>9, <2>2 DEF Replies, Step
  <2>3. CASE ~(k < cfg.length) /\ k # cfg.length
    BY <1>2, <1>4, <1>7, <2>3
  <2> QED
    BY <2>1, <2>2, <2>3
<1>11. InOrder(w) /\ w.thread \notin {"exiting", "ended"} /\ ~Wants(w) /\ ~Offers(w)
  BY IdleIs
<1> HIDE DEF w, n, s, next, steps
<1>12. Stage(n) /\ n # <<>> /\ (Replies(n) \/ Shuts(n)) /\ s.state # "none"
  BY <1>10, StageIs DEF Stage
<1>13. n = Exit \/ Replies(n)
  BY <1>3, <1>4, <1>5, <1>6, <1>7, <1>8 DEF steps, Replies, Receives, Step
<1>14. ~Releases(n)
  BY <1>7, <1>13, StageIs
<1>15. Threads(w, n, s)
  BY <1>11, <1>12, <1>14 DEF Threads
<1>16. Turns(w, n, r, s)
  BY <1>10, <1>11, <1>12, StageIs DEF Turns
<1>17. Keeps(w, n, r, s, NoMessage)
  BY DEF Keeps
<1>18. ServerFine(w, n, r, s, NoMessage)
  BY <1>11, <1>12, <1>15, <1>16, <1>17 DEF ServerFine
<1> QED
  BY <1>18, MessageSet DEF w, n, s

LEMMA ReportFine ==
    ASSUME IInv, MessageInv, ReportEnd("server")
    PROVE  MessageInv'
<1> DEFINE w == worker["server"]
           m == main["server"]
           q == queue["server"]
           s == session["server"]
           e == Enqueue("server", "syncFinished")
           r == Append(q, e)
           n == Tail(m)
<1>1. /\ AtStep("server", "report") /\ queue' = [queue EXCEPT !["server"] = r]
      /\ Then("server", <<>>) /\ UNCHANGED <<worker, session, iMessage>>
  BY DEF ReportEnd, agentVars
<1>2. Step(m, "report") /\ Says(m) /\ m # <<>>
  BY <1>1, AtIs, HeadTells
<1>3. n = <<>> /\ ~Shuts(m) /\ ~Replies(m) /\ ~Waits(m) /\ ~Releases(m)
  BY <1>2, StageIs DEF Says
<1>4. main'["server"] = <<>>
  BY <1>1, <1>2, <1>3, NextStage
<1>5. s.state = "closed"
  <2>1. Head(m) \in Range(m)
    BY <1>2, ServerIs, TailOf
  <2>2. Reports(m)
    BY <1>2, <2>1 DEF Reports, Step
  <2> QED
    BY <2>2, ServerIs DEF Fine
<1>6. ServerFine(w, m, q, s, iMessage)
  BY ServerIs
<1>7. e.name = "syncFinished"
  BY DEF Enqueue
<1> HIDE DEF e
<1>8. /\ OneCame(q) /\ InOrder(w) /\ Threads(w, m, s) /\ Turns(w, m, q, s)
      /\ Keeps(w, m, q, s, iMessage)
  BY <1>6 DEF ServerFine
<1>9. w.thread = "none" /\ iMessage = NoMessage
  BY <1>3, <1>5, <1>8 DEF Threads, Keeps
<1>10. OneCame(r) /\ (Came(r) <=> Came(q))
  <2> DEFINE more == <<e>>
  <2>1. IsSeq(more) /\ Range(more) = {e}
    BY OneIs
  <2>2. r = q \o more
    BY <1>8, AppendIs DEF OneCame
  <2> HIDE DEF more, r
  <2>3. \A x \in Range(more) : x.name \notin Arrivals \cup {"initiateSync"}
    BY <1>7, <2>1 DEF Arrivals
  <2> QED
    BY <1>8, <2>1, <2>2, <2>3, MoreQueue
<1> HIDE DEF r
<1>11. queue'["server"] = r
  BY <1>1, OverIs DEF OverDevices, Devices
<1> DEFINE none == <<>>
<1>12. ~Shuts(none) /\ ~Reads(none) /\ ~Replies(none) /\ ~Releases(none) /\ Stage(none)
  BY StageIs DEF Stage
<1>13. main'["server"] = none
  BY <1>4
<1> HIDE DEF none, w, m, q, s
<1>14. Threads(w, none, s)
  BY <1>9, <1>12 DEF Threads
<1>15. Turns(w, none, r, s)
  BY <1>5, <1>8, <1>10, <1>12 DEF Turns
<1>16. Keeps(w, none, r, s, iMessage)
  BY <1>9 DEF Keeps
<1>17. ServerFine(w, none, r, s, iMessage)
  BY <1>8, <1>10, <1>12, <1>14, <1>15, <1>16 DEF ServerFine
<1> QED
  BY <1>1, <1>11, <1>13, <1>17, MessageSet DEF w, s

LEMMA DeleteFine ==
    ASSUME IInv, MessageInv, DeleteTransport("server")
    PROVE  MessageInv'
<1> DEFINE w == worker["server"]
           m == main["server"]
           q == queue["server"]
           s == session["server"]
           a == Do("close")
           b == Do("delete")
           n == <<a, b>>
<1>1. /\ main["server"] = <<>> /\ main' = [main EXCEPT !["server"] = n]
      /\ s.state = "none" /\ UNCHANGED <<worker, session, queue, iMessage>>
  BY DEF DeleteTransport, Run, InLoop, Busy, agentVars
<1>2. a.do = "close" /\ b.do = "delete"
  BY DoIs
<1> HIDE DEF a, b
<1>3. n # <<>> /\ Head(n) = a /\ Tail(n) = <<b>>
  OBVIOUS
<1>4. <<b>> # <<>> /\ Head(<<b>>) = b /\ Tail(<<b>>) = <<>>
  BY OneIs
<1> HIDE DEF n
<1>5. Closes(n)
  BY <1>2, <1>3, <1>4 DEF Closes, Says, Step
<1>6. Shuts(n) /\ ~Replies(n) /\ ~Reads(n) /\ ~Releases(n) /\ n # <<>> /\ Stage(n)
  BY <1>5, StageIs DEF Stage
<1>7. main'["server"] = n
  BY <1>1, OverIs DEF OverDevices, Devices
<1>8. /\ InOrder(w) /\ w.thread \notin {"exiting", "ended"} /\ OneCame(q)
      /\ Wants(w) \/ Offers(w) => ~Came(q)
      /\ s.state = "none" => \A e \in Range(q) : e.name # "parsed"
  BY <1>1, IdleIs
<1> HIDE DEF w, m, q, s
<1>9. Threads(w, n, s)
  BY <1>6, <1>8 DEF Threads
<1>10. Turns(w, n, q, s)
  BY <1>6, <1>8 DEF Turns
<1>11. Keeps(w, n, q, s, iMessage)
  BY <1>6 DEF Keeps
<1>12. ServerFine(w, n, q, s, iMessage)
  BY <1>6, <1>8, <1>9, <1>10, <1>11 DEF ServerFine
<1> QED
  BY <1>1, <1>7, <1>12, MessageSet DEF w, q, s

\* A queue that no message is in
LEMMA NoneCame ==
    ASSUME NEW q, IsSeq(q), \A e \in Range(q) : e.name \notin Arrivals \cup {"initiateSync"}
    PROVE  OneCame(q) /\ ~Came(q) /\ \A e \in Range(q) : e.name # "parsed"
<1>1. \A i \in 1 .. Len(q) : q[i] \in Range(q)
  BY SeqIs
<1> QED
  BY <1>1 DEF OneCame, Came, Arrivals

LEMMA DeletedFine ==
    ASSUME IInv, MessageInv, Deleted("server")
    PROVE  MessageInv'
<1> DEFINE w == worker["server"]
           m == main["server"]
           q == queue["server"]
           s == session["server"]
           r == Kept(q, TransportEvents)
           n == Tail(m)
<1>1. /\ AtStep("server", "delete") /\ queue' = [queue EXCEPT !["server"] = r]
      /\ Then("server", <<>>) /\ UNCHANGED <<worker, session, iMessage>>
  BY DEF Deleted, agentVars
<1>2. Step(m, "delete") /\ Says(m) /\ m # <<>>
  BY <1>1, AtIs, HeadTells
<1>3. n = <<>> /\ ~Shuts(m) /\ ~Replies(m) /\ ~Waits(m) /\ ~Releases(m)
  BY <1>2, StageIs DEF Says
<1>4. main'["server"] = <<>>
  BY <1>1, <1>2, <1>3, NextStage
<1>5. s.state = "none"
  <2>1. Head(m) \in Range(m)
    BY <1>2, ServerIs, TailOf
  <2>2. Deletes(m)
    BY <1>2, <2>1 DEF Deletes, Step
  <2> QED
    BY <2>2, ServerIs DEF Fine
<1>6. ServerFine(w, m, q, s, iMessage)
  BY ServerIs
<1>7. /\ OneCame(q) /\ InOrder(w) /\ Threads(w, m, s) /\ Turns(w, m, q, s)
      /\ Keeps(w, m, q, s, iMessage)
  BY <1>6 DEF ServerFine
<1>8. iMessage = NoMessage /\ w.thread \notin {"exiting", "ended"}
  BY <1>3, <1>5, <1>7 DEF Threads, Keeps
<1>9. OneCame(r) /\ ~Came(r) /\ \A e \in Range(r) : e.name # "parsed"
  <2>1. IsSeq(r) /\ \A e \in Range(r) : e \in Range(q) /\ e.name \notin TransportEvents
    BY <1>7, KeptIs DEF OneCame
  <2>2. \A e \in Range(q) : e.name \notin {"parsed", "initiateSync"}
    BY <1>5, <1>7 DEF Turns, OneCame
  <2> HIDE DEF r
  <2>3. \A e \in Range(r) : e.name \notin Arrivals \cup {"initiateSync"}
    BY <2>1, <2>2 DEF TransportEvents, Arrivals
  <2> QED
    BY <2>1, <2>3, NoneCame
<1> HIDE DEF r
<1>10. queue'["server"] = r
  BY <1>1, OverIs DEF OverDevices, Devices
<1> DEFINE none == <<>>
<1>11. ~Shuts(none) /\ ~Reads(none) /\ ~Replies(none) /\ ~Releases(none) /\ Stage(none)
  BY StageIs DEF Stage
<1>12. main'["server"] = none
  BY <1>4
<1> HIDE DEF none, w, m, q, s
<1>13. Threads(w, none, s)
  BY <1>5, <1>8, <1>11 DEF Threads
<1>14. Turns(w, none, r, s)
  BY <1>9, <1>11 DEF Turns
<1>15. Keeps(w, none, r, s, iMessage)
  BY <1>8 DEF Keeps
<1>16. ServerFine(w, none, r, s, iMessage)
  BY <1>7, <1>9, <1>11, <1>13, <1>14, <1>15 DEF ServerFine
<1> QED
  BY <1>1, <1>10, <1>12, <1>16, MessageSet DEF w, s

LEMMA ListenFine ==
    ASSUME IInv, MessageInv, Listen
    PROVE  MessageInv'
<1> DEFINE w == worker["server"]
           q == queue["server"]
           s == session["server"]
           x == NewWorker(asked["server"] + 1)
           a == Do("receive")
           n == <<a>>
<1>1. /\ main["server"] = <<>> /\ main' = [main EXCEPT !["server"] = n]
      /\ worker' = [worker EXCEPT !["server"] = x] /\ w.thread = "none"
      /\ s.state = "none" /\ UNCHANGED <<session, queue, iMessage>>
  BY DEF Listen, Run, InLoop, Busy, Accept, InitTransport
<1>2. a.do = "receive"
  BY DoIs
<1> HIDE DEF a
<1>3. n # <<>> /\ Head(n) = a /\ Tail(n) = <<>>
  BY OneIs
<1> HIDE DEF n
<1>4. Receives(n)
  BY <1>2, <1>3 DEF Receives, Step
<1>5. Reads(n) /\ ~Replies(n) /\ ~Shuts(n) /\ ~Releases(n) /\ n # <<>> /\ Stage(n)
  BY <1>4, StageIs DEF Stage
<1>6. WorkerHas \subseteq DOMAIN x /\ x.mailbox = <<>> /\ x.job = "idle" /\ x.thread = "running"
  BY DEF NewWorker, NoWorker, WorkerHas
<1> HIDE DEF x
<1>7. main'["server"] = n /\ worker'["server"] = x
  BY <1>1, OverIs DEF OverDevices, Devices
<1>8. /\ OneCame(q) /\ ~Came(q) /\ iMessage = NoMessage
      /\ \A e \in Range(q) : e.name # "parsed"
  BY <1>1, IdleIs
<1>9. InOrder(x) /\ ~Wants(x) /\ ~Offers(x)
  BY <1>6, NoJobs DEF Transfers
<1> HIDE DEF w, q, s
<1>10. Threads(x, n, s)
  BY <1>1, <1>5, <1>6 DEF Threads
<1>11. Turns(x, n, q, s)
  BY <1>5, <1>8, <1>9 DEF Turns
<1>12. Keeps(x, n, q, s, iMessage)
  BY <1>8 DEF Keeps
<1>13. ServerFine(x, n, q, s, iMessage)
  BY <1>5, <1>8, <1>9, <1>10, <1>11, <1>12 DEF ServerFine
<1> QED
  BY <1>1, <1>7, <1>13, MessageSet DEF q, s

\* What becomes of the queue when its first event is handled
LEMMA TakenQueue ==
    ASSUME IInv, MessageInv, main["server"] = <<>>, queue["server"] # <<>>,
           NEW x, x.name \notin Arrivals \cup {"initiateSync"},
           NEW r \in {Tail(queue["server"]), Append(Tail(queue["server"]), x)}
    PROVE  LET q == queue["server"]
           IN  /\ OneCame(r) /\ (Came(r) => Came(q)) /\ Head(q).name # "initiateSync"
               /\ \A e \in Range(r) : e.name = "parsed" => e \in Range(q)
               /\ Head(q).name \in Arrivals =>
                      ~Came(r) /\ ~Wants(worker["server"]) /\ ~Offers(worker["server"])
                      /\ iMessage = NoMessage
               /\ Head(q).name \notin Failures => (Fails(q) => Fails(r))
<1> DEFINE w == worker["server"]
           q == queue["server"]
           t == Tail(q)
           more == <<x>>
<1>1. /\ OneCame(q) /\ (Wants(w) \/ Offers(w) => ~Came(q))
      /\ iMessage # NoMessage => Offers(w) \/ Fails(q)
  BY IdleIs
<1>2. /\ OneCame(t) /\ (Came(t) => Came(q))
      /\ Head(q).name \in Arrivals => Came(q) /\ ~Came(t) /\ ~Fails(q)
      /\ Fails(q) /\ Head(q).name \notin Failures => Fails(t)
      /\ Range(t) \subseteq Range(q) /\ Head(q) \in Range(q)
  BY <1>1, OffQueue
<1>3. IsSeq(more) /\ Range(more) = {x}
  BY OneIs
<1>4. Append(t, x) = t \o more
  BY <1>2, AppendIs DEF OneCame
<1> HIDE DEF more, t, q, w
<1>5. \A e \in Range(more) : e.name \notin Arrivals \cup {"initiateSync"}
  BY <1>3
<1>6. /\ OneCame(t \o more) /\ (Came(t \o more) <=> Came(t)) /\ (Fails(t) => Fails(t \o more))
      /\ Range(t \o more) = Range(t) \cup Range(more)
  BY <1>2, <1>3, <1>5, MoreQueue
<1>7. r = t \/ r = t \o more
  BY <1>4 DEF t, q
<1>8. /\ OneCame(r) /\ (Came(r) <=> Came(t)) /\ (Fails(t) => Fails(r))
      /\ \A e \in Range(r) : e.name = "parsed" => e \in Range(q)
  BY <1>2, <1>3, <1>5, <1>6, <1>7 DEF Arrivals
<1>9. Head(q).name # "initiateSync"
  BY <1>1, <1>2 DEF OneCame
<1> QED
  BY <1>1, <1>2, <1>8, <1>9 DEF q, w

LEMMA FinishedFine ==
    ASSUME IInv, MessageInv, main["server"] = <<>>, queue["server"] # <<>>,
           Head(queue["server"]).name = "syncFinished", ReceiveSyncFinished("server")
    PROVE  MessageInv'
<1> DEFINE w == worker["server"]
           q == queue["server"]
           s == session["server"]
           t == Tail(q)
           r == Kept(t, ForSession)
<1>1. /\ session' = [session EXCEPT !["server"] = NoSession]
      /\ queue' = [queue EXCEPT !["server"] = r] /\ UNCHANGED <<worker, main, iMessage>>
  BY DEF ReceiveSyncFinished
<1>2. OneCame(q) /\ InOrder(w) /\ w.thread \notin {"exiting", "ended"}
  BY IdleIs
<1>3. /\ OneCame(t) /\ Head(q) \in Range(q)
      /\ \A e \in Range(t) : e.name # "incomingData"
  BY <1>2, OffQueue
<1>4. Ends(q)
  BY <1>3 DEF Ends
<1>5. w.thread = "none" /\ iMessage = NoMessage
  BY <1>4, IdleIs
<1>6. OneCame(r) /\ ~Came(r) /\ \A e \in Range(r) : e.name # "parsed"
  <2>1. IsSeq(r) /\ \A e \in Range(r) : e \in Range(t) /\ e.name \notin ForSession
    BY <1>3, KeptIs DEF OneCame
  <2> HIDE DEF r
  <2>2. \A e \in Range(r) : e.name \notin Arrivals \cup {"initiateSync"}
    BY <1>3, <2>1 DEF ForSession, Arrivals
  <2> QED
    BY <2>1, <2>2, NoneCame
<1> HIDE DEF r
<1>7. session'["server"] = NoSession /\ queue'["server"] = r
  BY <1>1, OverIs DEF OverDevices, Devices
<1> DEFINE none == <<>>
<1>8. ~Shuts(none) /\ ~Reads(none) /\ ~Replies(none) /\ ~Releases(none) /\ Stage(none)
  BY StageIs DEF Stage
<1>9. main'["server"] = none
  BY <1>1
<1> HIDE DEF none, w, q, s
<1>10. Threads(w, none, NoSession)
  BY <1>5, <1>8 DEF Threads
<1>11. Turns(w, none, r, NoSession)
  BY <1>6, <1>8 DEF Turns
<1>12. Keeps(w, none, r, NoSession, iMessage)
  BY <1>5 DEF Keeps
<1>13. ServerFine(w, none, r, NoSession, iMessage)
  BY <1>2, <1>6, <1>8, <1>10, <1>11, <1>12 DEF ServerFine
<1> QED
  BY <1>1, <1>7, <1>9, <1>13, MessageSet DEF w

LEMMA DataFine ==
    ASSUME IInv, MessageInv, main["server"] = <<>>, queue["server"] # <<>>,
           Head(queue["server"]).name = "incomingData", IncomingData("server")
    PROVE  MessageInv'
<1> DEFINE d == "server"
           w == worker[d]
           q == queue[d]
           s == session[d]
           h == Head(q)
           changed == Enqueue(d, "stateChanged")
           parsed == [name |-> "parsed", message |-> h.message, of |-> h.of]
<1>1. /\ UNCHANGED <<worker, iMessage>>
      /\ \/ UNCHANGED <<session, main>> /\ queue' = [queue EXCEPT ![d] = Tail(q)]
         \/ Serve(d, h.message)
         \/ /\ UNCHANGED <<session, main>> /\ s.state # "none"
            /\ queue' = [queue EXCEPT ![d] = Append(Tail(q), parsed)]
  BY DEF IncomingData, ListenError
<1>2. h.name \in Arrivals /\ h.name \notin Failures
  BY DEF Arrivals, Failures
<1>3. changed.name \notin Arrivals \cup {"initiateSync"}
  BY DEF Enqueue, Arrivals
<1>4. ASSUME NEW r \in {Tail(q), Append(Tail(q), changed)}
      PROVE  /\ OneCame(r) /\ (Came(r) => Came(q))
             /\ \A e \in Range(r) : e.name = "parsed" => e \in Range(q)
             /\ ~Came(r) /\ ~Wants(w) /\ ~Offers(w) /\ iMessage = NoMessage
             /\ Fails(q) => Fails(r)
  BY <1>2, <1>3, TakenQueue
<1>5. ASSUME NEW r, queue' = [queue EXCEPT ![d] = r] PROVE queue'[d] = r
  BY <1>5, OverIs DEF OverDevices, Devices
<1>6. CASE UNCHANGED <<session, main>> /\ queue' = [queue EXCEPT ![d] = Tail(q)]
  <2> DEFINE r == Tail(q)
  <2>1. queue'[d] = r
    BY <1>5, <1>6
  <2>2. /\ OneCame(r) /\ (Came(r) => Came(q)) /\ (Fails(q) => Fails(r))
        /\ \A e \in Range(r) : e.name = "parsed" => e \in Range(q)
    BY <1>4
  <2> HIDE DEF r
  <2> QED
    BY <1>1, <1>6, <2>1, <2>2, QuietFine
<1>7. CASE Serve(d, h.message)
  <2> DEFINE created == [NoSession EXCEPT !.state = "open", !.of = h.message.of]
             closed == [created EXCEPT !.state = "closed", !.outcome = "internalError"]
  <2>1. /\ SessionHas \subseteq DOMAIN created /\ created.state = "open"
        /\ closed.state = "closed"
    BY DEF NoSession, SessionHas
  <2>2. \/ /\ session' = [session EXCEPT ![d] = closed] /\ main' = [main EXCEPT ![d] = Exit]
           /\ queue' = [queue EXCEPT ![d] = Tail(q)]
        \/ /\ ProcessMessage(d, created, h.message)
           /\ queue' = [queue EXCEPT ![d] = Append(Tail(q), changed)]
    BY <1>7 DEF Serve, Prepared, Run
  <2> HIDE DEF created, closed
  <2>3. CASE /\ session' = [session EXCEPT ![d] = closed] /\ main' = [main EXCEPT ![d] = Exit]
             /\ queue' = [queue EXCEPT ![d] = Tail(q)]
    <3> DEFINE r == Tail(q)
    <3>1. queue'[d] = r
      BY <1>5, <2>3
    <3>2. OneCame(r) /\ (Came(r) => Came(q))
      BY <1>4
    <3> HIDE DEF r
    <3>3. session'[d] = closed /\ main'[d] = Exit
      BY <2>3, OverIs DEF OverDevices, Devices
    <3> QED
      BY <1>1, <2>1, <3>1, <3>2, <3>3, ClosedFine
  <2>4. CASE /\ ProcessMessage(d, created, h.message)
             /\ queue' = [queue EXCEPT ![d] = Append(Tail(q), changed)]
    <3> DEFINE r == Append(Tail(q), changed)
    <3>1. queue'[d] = r
      BY <1>5, <2>4
    <3>2. OneCame(r) /\ ~Came(r) /\ ~Wants(w) /\ ~Offers(w) /\ iMessage = NoMessage
      BY <1>4
    <3> HIDE DEF r
    <3> QED
      BY <1>1, <2>1, <2>4, <3>1, <3>2, ProcessFine
  <2> QED
    BY <2>2, <2>3, <2>4
<1>8. CASE /\ UNCHANGED <<session, main>> /\ s.state # "none"
           /\ queue' = [queue EXCEPT ![d] = Append(Tail(q), parsed)]
  <2> DEFINE r == Append(Tail(q), parsed)
             none == <<>>
  <2>1. queue'[d] = r
    BY <1>5, <1>8
  <2>2. /\ OneCame(Tail(q)) /\ ~Came(Tail(q)) /\ ~Wants(w) /\ ~Offers(w)
        /\ iMessage = NoMessage
    BY <1>4
  <2>3. parsed.name = "parsed" /\ parsed.name \in Arrivals
    BY DEF Arrivals
  <2> HIDE DEF parsed
  <2>4. OneCame(r)
    BY <2>2, <2>3, OnQueue
  <2>5. /\ InOrder(w) /\ w.thread \notin {"exiting", "ended"}
        /\ w.thread # "none" => s.state # "closed"
    BY IdleIs
  <2>6. ~Shuts(none) /\ ~Reads(none) /\ ~Replies(none) /\ ~Releases(none) /\ Stage(none)
    BY StageIs DEF Stage
  <2>7. main'[d] = none /\ session'[d] = s /\ s.state # "none"
    BY <1>8
  <2> HIDE DEF none, w, q, s, r, d
  <2>8. Threads(w, none, s)
    BY <2>5, <2>6 DEF Threads
  <2>9. Turns(w, none, r, s)
    BY <2>2, <2>6, <2>7 DEF Turns
  <2>10. Keeps(w, none, r, s, iMessage)
    BY <2>2 DEF Keeps
  <2>11. ServerFine(w, none, r, s, iMessage)
    BY <2>4, <2>5, <2>6, <2>8, <2>9, <2>10 DEF ServerFine
  <2> QED
    BY <1>1, <2>1, <2>7, <2>11, MessageSet DEF w, d
<1> QED
  BY <1>1, <1>6, <1>7, <1>8

LEMMA HandledFine ==
    ASSUME IInv, MessageInv, HandleEvent("server")
    PROVE  MessageInv'
<1> DEFINE d == "server"
           w == worker[d]
           q == queue[d]
           s == session[d]
           h == Head(q)
           r == Tail(q)
<1>1. main[d] = <<>> /\ q # <<>>
  BY DEF HandleEvent, Handles, InLoop
<1>2. /\ OneCame(r) /\ (Came(r) => Came(q)) /\ h.name # "initiateSync"
      /\ \A e \in Range(r) : e.name = "parsed" => e \in Range(q)
      /\ h.name \in Arrivals => ~Came(r) /\ ~Wants(w) /\ ~Offers(w) /\ iMessage = NoMessage
      /\ h.name \notin Failures => (Fails(q) => Fails(r))
  <2> DEFINE x == Enqueue(d, "stateChanged")
  <2>1. x.name \notin Arrivals \cup {"initiateSync"}
    BY DEF Enqueue, Arrivals
  <2> HIDE DEF x
  <2> QED
    BY <1>1, <2>1, TakenQueue
<1>3. Dequeue(d) => queue'[d] = r
  <2>1. Dequeue(d) => queue' = [queue EXCEPT ![d] = r]
    BY DEF Dequeue
  <2> HIDE DEF r
  <2> QED
    BY <2>1, OverIs DEF OverDevices, Devices
<1>4. CASE Handles(d, "initiateSync") /\ InitiateSync(d)
  BY <1>2, <1>4 DEF Handles
<1>5. CASE Handles(d, "syncFinished") /\ ReceiveSyncFinished(d)
  BY <1>1, <1>5, FinishedFine DEF Handles
<1>6. CASE Handles(d, "incomingData") /\ IncomingData(d)
  BY <1>1, <1>6, DataFine DEF Handles
<1>7. CASE Handles(d, "stateChanged") /\ StateChanged(d) /\ Dequeue(d)
  <2>1. UNCHANGED <<session, main, worker, iMessage>> /\ h.name \notin Failures
    BY <1>7 DEF StateChanged, agentVars, Handles, Failures
  <2> HIDE DEF r
  <2> QED
    BY <1>1, <1>2, <1>3, <1>7, <2>1, QuietFine
<1>8. CASE Handles(d, "parsed") /\ HandleParsingComplete(d) /\ Dequeue(d)
  <2>1. UNCHANGED <<worker, iMessage>> /\ h.name \in Arrivals /\ h.name \notin Failures
    BY <1>8 DEF HandleParsingComplete, Handles, Arrivals, Failures
  <2>2. CASE s.state = "open"
    <3>1. ProcessMessage(d, s, h.message)
      BY <1>8, <2>2 DEF HandleParsingComplete
    <3>2. SessionHas \subseteq DOMAIN s
      BY ServerIs DEF Fine
    <3> HIDE DEF r
    <3> QED
      BY <1>1, <1>2, <1>3, <1>8, <2>1, <2>2, <3>1, <3>2, ProcessFine
  <2>3. CASE s.state # "open"
    <3>1. UNCHANGED <<session, main>>
      BY <1>8, <2>3 DEF HandleParsingComplete
    <3> HIDE DEF r
    <3> QED
      BY <1>1, <1>2, <1>3, <1>8, <2>1, <2>3, <3>1, QuietFine
  <2> QED
    BY <2>2, <2>3
<1>9. ASSUME NEW outcome, AbortSync(d, outcome), Dequeue(d), UNCHANGED <<worker, iMessage>>
      PROVE  MessageInv'
  <2>1. CASE s.state = "closed" /\ UNCHANGED <<session, main>>
    <3>1. s.state # "open"
      BY <2>1
    <3> HIDE DEF r
    <3> QED
      BY <1>1, <1>2, <1>3, <1>9, <2>1, <3>1, QuietFine
  <2>2. CASE session'[d].state = "closed" /\ main'[d] = Exit
    <3> HIDE DEF r
    <3> QED
      BY <1>1, <1>2, <1>3, <1>9, <2>2, ClosedFine
  <2> QED
    BY <1>9, <2>1, <2>2, AbortsTo
<1>10. CASE Handles(d, "suspendSync") /\ SuspendSync(d) /\ Dequeue(d)
  BY <1>9, <1>10 DEF SuspendSync
<1>11. CASE TransportEvent(d) /\ Dequeue(d)
  <2>1. UNCHANGED <<worker, iMessage>>
    BY <1>11 DEF TransportEvent
  <2>2. CASE AbortSync(d, "connectionError")
    BY <1>9, <1>11, <2>1, <2>2
  <2>3. CASE UNCHANGED <<session, main>> /\ s.state # "open"
    <3> HIDE DEF r
    <3> QED
      BY <1>1, <1>2, <1>3, <1>11, <2>1, <2>3, QuietFine
  <2>4. listening[d] => s.state # "open"
    BY <1>1, IdleIs
  <2>5. \/ UNCHANGED <<session, main>> /\ (listening[d] \/ s.state # "open")
        \/ AbortSync(d, "connectionError")
    BY <1>11 DEF TransportEvent, ListenError
  <2> QED
    BY <2>2, <2>3, <2>4, <2>5
<1> QED
  BY <1>4, <1>5, <1>6, <1>7, <1>8, <1>10, <1>11 DEF HandleEvent

LEMMA AskedFine ==
    ASSUME IInv, MessageInv,
           AbortSession("server") \/ AbortListen("server") \/ PauseSync("server")
    PROVE  MessageInv'
<1> DEFINE q == queue["server"]
           s == session["server"]
<1>1. CASE AbortSession("server")
  <2>1. /\ main["server"] = <<>> /\ s.state # "closed" /\ UNCHANGED <<worker, queue, iMessage>>
        /\ AbortSync("server", "aborted")
    BY <1>1 DEF AbortSession, InLoop
  <2>2. session'["server"].state = "closed" /\ main'["server"] = Exit
    BY <2>1, AbortsTo
  <2>3. OneCame(q) /\ queue'["server"] = q
    BY <2>1, IdleIs
  <2> QED
    BY <2>1, <2>2, <2>3, ClosedFine
<1>2. CASE AbortListen("server")
  BY <1>2, ApartStep DEF AbortListen, workerVars, Apart
<1>3. CASE PauseSync("server")
  <2> DEFINE e == Enqueue("server", "suspendSync")
             more == <<e>>
             r == Append(q, e)
  <2>1. /\ main["server"] = <<>> /\ UNCHANGED <<session, main, worker, iMessage>>
        /\ queue' = [queue EXCEPT !["server"] = r]
    BY <1>3 DEF PauseSync, InLoop
  <2>2. e.name = "suspendSync"
    BY DEF Enqueue
  <2> HIDE DEF e
  <2>3. OneCame(q) /\ IsSeq(more) /\ Range(more) = {e}
    BY <2>1, IdleIs, OneIs
  <2>4. r = q \o more
    BY <2>3, AppendIs DEF OneCame
  <2> HIDE DEF more, r
  <2>5. \A x \in Range(more) : x.name \notin Arrivals \cup {"initiateSync"} /\ x.name # "parsed"
    BY <2>2, <2>3 DEF Arrivals
  <2>6. /\ OneCame(r) /\ (Came(r) <=> Came(q)) /\ (Fails(q) => Fails(r))
        /\ Range(r) = Range(q) \cup Range(more)
    BY <2>3, <2>4, <2>5, MoreQueue
  <2>7. queue'["server"] = r
    BY <2>1, OverIs DEF OverDevices, Devices
  <2> QED
    BY <2>1, <2>5, <2>6, <2>7, QuietFine
<1> QED
  BY <1>1, <1>2, <1>3

-----------------------------------------------------------------------------
\* The rest of what the client and its application do
LEMMA ClientRest ==
    ASSUME IInv, \/ ReportEnd("client") \/ DeleteTransport("client") \/ Deleted("client")
                 \/ StartSync \/ AbortSession("client") \/ AbortListen("client")
                 \/ PauseSync("client")
    PROVE  Apart
<1> DEFINE q == queue["client"]
<1>0. ASSUME NEW r, queue' = [queue EXCEPT !["client"] = r] PROVE queue'["server"] = queue["server"]
  BY <1>0, OtherIs, OverIs
<1>1. CASE ReportEnd("client")
  <2> DEFINE r == Append(q, Enqueue("client", "syncFinished"))
  <2>1. /\ queue' = [queue EXCEPT !["client"] = r] /\ Then("client", <<>>)
        /\ UNCHANGED <<worker, session, iMessage>>
    BY <1>1 DEF ReportEnd, agentVars
  <2> HIDE DEF r
  <2> QED
    BY <1>0, <2>1, ThenApart DEF Apart
<1>2. CASE DeleteTransport("client")
  <2> DEFINE m == <<Do("close"), Do("delete")>>
  <2>1. /\ main' = [main EXCEPT !["client"] = m] /\ UNCHANGED <<worker, session, queue, iMessage>>
    BY <1>2 DEF DeleteTransport, Run, agentVars
  <2> HIDE DEF m
  <2> QED
    BY <2>1, OtherIs, OverIs DEF Apart
<1>3. CASE Deleted("client")
  <2> DEFINE r == Kept(q, TransportEvents)
  <2>1. /\ queue' = [queue EXCEPT !["client"] = r] /\ Then("client", <<>>)
        /\ UNCHANGED <<worker, session, iMessage>>
    BY <1>3 DEF Deleted, agentVars
  <2> HIDE DEF r
  <2> QED
    BY <1>0, <2>1, ThenApart DEF Apart
<1>4. CASE StartSync
  <2> DEFINE x == [NoSession EXCEPT !.state = "created"]
             r == Append(q, [Enqueue("client", "initiateSync") EXCEPT !.of = asked["client"] + 1])
  <2>1. /\ session' = [session EXCEPT !["client"] = x] /\ queue' = [queue EXCEPT !["client"] = r]
        /\ UNCHANGED <<worker, main, iMessage>>
    BY <1>4 DEF StartSync
  <2> HIDE DEF x, r
  <2> QED
    BY <1>0, <2>1, OtherIs, OverIs DEF Apart
<1>5. CASE AbortSession("client")
  <2>1. AbortSync("client", "aborted") /\ UNCHANGED <<worker, queue, iMessage>>
    BY <1>5 DEF AbortSession
  <2> QED
    BY <2>1, AbortApart DEF Apart
<1>6. CASE AbortListen("client")
  BY <1>6 DEF AbortListen, workerVars, Apart
<1>7. CASE PauseSync("client")
  <2> DEFINE r == Append(q, Enqueue("client", "suspendSync"))
  <2>1. queue' = [queue EXCEPT !["client"] = r] /\ UNCHANGED <<worker, session, main, iMessage>>
    BY <1>7 DEF PauseSync
  <2> HIDE DEF r
  <2> QED
    BY <1>0, <2>1 DEF Apart
<1> QED
  BY <1>1, <1>2, <1>3, <1>4, <1>5, <1>6, <1>7

\* The steps of the device that keeps a message, and all others
LEMMA StepIs ==
    ASSUME IInv, [Next]_vars
    PROVE  \/ Apart
           \/ session' = session /\ (ServerWorks \/ ServerTimeout \/ TransportSteps("server"))
           \/ ReportEnd("server") \/ HandleEvent("server") \/ DeleteTransport("server")
           \/ Deleted("server") \/ Listen
           \/ AbortSession("server") \/ AbortListen("server") \/ PauseSync("server")
<1>0. \A d \in Devices : d = "client" \/ d = "server"
  BY DEF Devices
<1>1. ASSUME MainThread("client") PROVE Apart
  BY <1>1, TransportApart, EventApart, ClientRest DEF MainThread, EventLoop, agentVars
<1>2. ASSUME Workers("client") PROVE Apart
  <2>1. ClientWorks /\ session' = session
    BY <1>2 DEF Workers, agentVars
  <2> QED
    BY <2>1, ClientApart
<1>3. Workers("server") => ServerWorks /\ session' = session
  BY DEF Workers, agentVars
<1>4. CASE Timeout
  BY <1>4, ClientApart DEF Timeout, agentVars
<1>5. CASE Application
  BY <1>0, <1>5, ClientRest DEF Application
<1>6. CASE Breaks
  BY <1>6 DEF Breaks, LinkBreaks, Apart
<1>7. CASE UNCHANGED vars
  BY <1>7 DEF vars, workerVars, agentVars, Apart
<1>8. MainThread("server") =>
          \/ session' = session /\ TransportSteps("server")
          \/ ReportEnd("server") \/ HandleEvent("server") \/ DeleteTransport("server")
          \/ Deleted("server")
  BY DEF MainThread, EventLoop, agentVars
<1> QED
  BY <1>0, <1>1, <1>2, <1>3, <1>4, <1>5, <1>6, <1>7, <1>8 DEF Next

LEMMA MessageBegins == Init => MessageInv
<1> SUFFICES ASSUME Init PROVE MessageInv
  OBVIOUS
<1> DEFINE w == NoWorker
           m == <<>>
           q == <<>>
           s == NoSession
<1>1. /\ worker["server"] = w /\ main["server"] = m /\ queue["server"] = q
      /\ session["server"] = s /\ iMessage = NoMessage
  BY DEF Init, Devices
<1>2. WorkerHas \subseteq DOMAIN w /\ w.mailbox = <<>> /\ w.job = "idle" /\ w.thread = "none"
  BY DEF NoWorker, WorkerHas
<1>3. InOrder(w) /\ ~Wants(w) /\ ~Offers(w)
  <2> HIDE DEF w
  <2> QED
    BY <1>2, NoJobs DEF Transfers
<1>4. OneCame(q) /\ ~Came(q) /\ \A e \in Range(q) : e.name # "parsed"
  <2>1. IsSeq(q) /\ Range(q) = {}
    BY EmptyIs
  <2> HIDE DEF q
  <2> QED
    BY <2>1, NoneCame
<1>5. ~Shuts(m) /\ ~Reads(m) /\ ~Replies(m) /\ ~Releases(m) /\ Stage(m)
  BY StageIs DEF Stage
<1>6. s.state = "none"
  BY DEF NoSession
<1> HIDE DEF w, m, q, s
<1>7. Threads(w, m, s)
  BY <1>2, <1>5 DEF Threads
<1>8. Turns(w, m, q, s)
  BY <1>3, <1>4, <1>5 DEF Turns
<1>9. Keeps(w, m, q, s, NoMessage)
  BY DEF Keeps
<1>10. ServerFine(w, m, q, s, NoMessage)
  BY <1>3, <1>4, <1>5, <1>7, <1>8, <1>9 DEF ServerFine
<1> QED
  BY <1>1, <1>10 DEF MessageInv

LEMMA MessageStays == IInv /\ MessageInv /\ [Next]_vars => MessageInv'
BY StepIs, ApartStep, WorkerFine, TransportFine, ReportFine, HandledFine, DeleteFine, DeletedFine,
   ListenFine, AskedFine

\* The three that change the message: one of them finds none, as the message
\* before it was fetched, or the worker failed, which ended the session
LEMMA MessageStep ==
    ASSUME IInv, MessageInv, [Next]_vars, iMessage # NoMessage, iMessage' # iMessage
    PROVE  GetRequest \/ (AtStep("server", "release") /\ ~Alive("server"))
<1>1. ~Apart
  BY DEF Apart
<1>2. ASSUME session' = session, TransportSteps("server")
      PROVE  AtStep("server", "release") /\ ~Alive("server")
  <2>1. ~SendSyncML("server")
    BY <1>2, SendFine
  <2>2. Release("server")
    BY <1>2, <2>1 DEF TransportSteps, DoSend, Receive, WaitForPut, Close, ExitThread, WaitForThread
  <2> QED
    BY <1>2, <2>2, ReleaseFine DEF Release, Alive
<1>3. ServerWorks \/ ServerTimeout => GetRequest
  BY DEF ServerWorks, ServerTimeout, ServerDeclines, ServerWaits, RequestRefused, ConnectRequest,
         DisconnectRequest, PutRequest, ServerLinkError, ThreadEnds
<1>4. ~ReportEnd("server") /\ ~DeleteTransport("server") /\ ~Deleted("server") /\ ~Listen
  BY DEF ReportEnd, DeleteTransport, Deleted, Listen
<1>5. ~AbortSession("server") /\ ~AbortListen("server") /\ ~PauseSync("server")
  BY DEF AbortSession, AbortListen, PauseSync, workerVars
<1>6. ~HandleEvent("server")
  BY DEF HandleEvent, InitiateSync, ReceiveSyncFinished, IncomingData, StateChanged,
         HandleParsingComplete, SuspendSync, TransportEvent
<1> QED
  BY <1>1, <1>2, <1>3, <1>4, <1>5, <1>6, StepIs

\* A worker of the server waits for a message first or for its fetching first,
\* but never for a message that comes before a fetching; one message is waited
\* for, queued or answered at a time; and a message that is kept is offered, or a
\* failure is queued before the next one (OBEXTransport.cpp, OBEXServerWorker.cpp)
THEOREM TurnsKept == Spec => []MessageInv
BY AgentInvariant, MessageBegins, MessageStays, PTL DEF Spec

\* A message that a server keeps for its client (OBEXTransport::iMessage) is
\* fetched by it, or dropped at close() once the worker is gone
THEOREM FetchedOrDropped == Spec => MessageFetched
<1>1. /\ IInv /\ MessageInv /\ [Next]_vars
      => [iMessage # NoMessage /\ iMessage' # iMessage =>
              \/ GetRequest
              \/ AtStep("server", "release") /\ ~Alive("server")]_vars
  BY MessageStep
<1> QED
  BY <1>1, AgentInvariant, TurnsKept, PTL DEF Spec, MessageFetched

=============================================================================
