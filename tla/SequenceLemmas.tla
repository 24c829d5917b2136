--------------------------- MODULE SequenceLemmas ---------------------------
(***************************************************************************)
(* Sequences of whatever they hold: queues of events, packages and         *)
(* requests whose elements are of several kinds, for the proofs that are   *)
(* about their order and not about what they are made of.                  *)
(***************************************************************************)
EXTENDS SequencesExt, SequenceTheorems, WellFoundedInduction, TLAPS

IsSeq(s) == s \in Seq(Range(s))

LEMMA SeqIs ==
    ASSUME NEW s, IsSeq(s)
    PROVE  /\ Len(s) \in Nat /\ DOMAIN s = 1 .. Len(s)
           /\ \A i \in 1 .. Len(s) : s[i] \in Range(s)
           /\ \A x \in Range(s) : \E i \in 1 .. Len(s) : s[i] = x
<1>1. Len(s) \in Nat /\ DOMAIN s = 1 .. Len(s)
  BY LenProperties DEF IsSeq
<1> QED
  BY <1>1 DEF Range

LEMMA AnySeq ==
    ASSUME NEW S, NEW s \in Seq(S)
    PROVE  IsSeq(s) /\ Range(s) \subseteq S
<1>1. Len(s) \in Nat /\ DOMAIN s = 1 .. Len(s) /\ \A i \in 1 .. Len(s) : s[i] \in S
  BY LenProperties, ElementOfSeq
<1>2. \A i \in 1 .. Len(s) : s[i] \in Range(s)
  BY <1>1 DEF Range
<1>3. s \in Seq(Range(s))
  <2>1. s \in [1 .. Len(s) -> S]
    BY LenProperties
  <2>2. s \in [1 .. Len(s) -> Range(s)]
    BY <1>2, <2>1
  <2> QED
    BY <1>1, <2>2, SeqDef
<1> QED
  BY <1>1, <1>3 DEF IsSeq, Range

LEMMA FunIs ==
    ASSUME NEW n \in Nat, NEW s, s = [i \in 1 .. n |-> s[i]]
    PROVE  IsSeq(s) /\ Len(s) = n
<1> DEFINE S == {s[i] : i \in 1 .. n}
<1>1. s \in Seq(S) /\ Len(s) = n
  <2>1. \A i \in 1 .. n : s[i] \in S
    OBVIOUS
  <2> HIDE DEF S
  <2>2. s \in [1 .. n -> S]
    BY <2>1
  <2>3. s \in Seq(S)
    BY <2>2, SeqDef
  <2> QED
    BY <2>2, <2>3, LenProperties
<1> QED
  BY <1>1, AnySeq

LEMMA EmptyIs == IsSeq(<<>>) /\ Range(<<>>) = {} /\ Len(<<>>) = 0
<1> DEFINE e == <<>>
           S == {}
<1>1. e \in Seq(S) /\ Len(e) = 0
  BY EmptySeq
<1> HIDE DEF e, S
<1>2. IsSeq(e) /\ Range(e) \subseteq S
  BY <1>1, AnySeq
<1> QED
  BY <1>1, <1>2 DEF e, S

LEMMA OneIs ==
    ASSUME NEW x
    PROVE  IsSeq(<<x>>) /\ Range(<<x>>) = {x} /\ Len(<<x>>) = 1
<1>1. <<x>> \in Seq({x}) /\ Len(<<x>>) = 1 /\ <<x>>[1] = x
  OBVIOUS
<1>2. IsSeq(<<x>>) /\ Range(<<x>>) \subseteq {x}
  BY <1>1, AnySeq
<1>3. x \in Range(<<x>>)
  BY <1>1, <1>2, SeqIs
<1> QED
  BY <1>1, <1>2, <1>3

LEMMA JoinIs ==
    ASSUME NEW s, NEW t, IsSeq(s), IsSeq(t)
    PROVE  /\ IsSeq(s \o t) /\ Range(s \o t) = Range(s) \cup Range(t)
           /\ Len(s \o t) = Len(s) + Len(t)
           /\ \A i \in 1 .. Len(s) : (s \o t)[i] = s[i]
           /\ \A i \in 1 .. Len(t) : (s \o t)[Len(s) + i] = t[i]
<1> DEFINE S == Range(s) \cup Range(t)
           a == Len(s)
           b == Len(t)
           u == s \o t
<1>1. s \in Seq(S) /\ t \in Seq(S)
  <2>1. Range(s) \subseteq S /\ Range(t) \subseteq S
    OBVIOUS
  <2> HIDE DEF S
  <2> QED
    BY <2>1, SeqMonotonic DEF IsSeq
<1>2. a \in Nat /\ b \in Nat
  BY SeqIs
<1> HIDE DEF S
<1>3. /\ u \in Seq(S) /\ Len(u) = a + b
      /\ \A i \in 1 .. a + b : u[i] = IF i <= a THEN s[i] ELSE t[i - a]
  BY <1>1, ConcatProperties
<1>4. IsSeq(u) /\ Range(u) \subseteq S
  BY <1>3, AnySeq
<1> HIDE DEF a, b, u
<1>5. \A i \in 1 .. a : i \in 1 .. a + b /\ u[i] = s[i]
  BY <1>2, <1>3
<1>6. \A i \in 1 .. b : a + i \in 1 .. a + b /\ u[a + i] = t[i]
  <2> SUFFICES ASSUME NEW i \in 1 .. b PROVE a + i \in 1 .. a + b /\ u[a + i] = t[i]
    OBVIOUS
  <2> DEFINE j == a + i
  <2>1. j \in 1 .. a + b /\ ~(j <= a) /\ j - a = i
    BY <1>2
  <2> HIDE DEF j
  <2>2. u[j] = t[i]
    BY <1>3, <2>1
  <2> QED
    BY <2>1, <2>2 DEF j
<1>7. \A i \in 1 .. a + b : u[i] \in Range(u)
  BY <1>3, <1>4, SeqIs
<1>8. S \subseteq Range(u)
  <2>1. \A x \in Range(s) : x \in Range(u)
    BY <1>5, <1>7, SeqIs DEF a
  <2>2. \A x \in Range(t) : x \in Range(u)
    BY <1>6, <1>7, SeqIs DEF b
  <2> QED
    BY <2>1, <2>2 DEF S
<1> QED
  BY <1>3, <1>4, <1>5, <1>6, <1>8 DEF S, a, b, u

LEMMA TailOf ==
    ASSUME NEW s, IsSeq(s), s # <<>>
    PROVE  Head(s) \in Range(s) /\ IsSeq(Tail(s)) /\ Range(Tail(s)) \subseteq Range(s)
<1>1. Head(s) \in Range(s) /\ Tail(s) \in Seq(Range(s))
  BY HeadTailProperties DEF IsSeq
<1> QED
  BY <1>1, AnySeq

LEMMA TailIs ==
    ASSUME NEW s, IsSeq(s), s # <<>>
    PROVE  /\ IsSeq(Tail(s)) /\ Len(Tail(s)) \in Nat /\ Len(s) = Len(Tail(s)) + 1
           /\ Head(s) = s[1] /\ Range(s) = {Head(s)} \cup Range(Tail(s))
           /\ \A i \in 1 .. Len(Tail(s)) : i + 1 \in 1 .. Len(s) /\ Tail(s)[i] = s[i + 1]
<1> DEFINE n == Len(s)
           t == Tail(s)
<1>1. IsSeq(t) /\ Range(t) \subseteq Range(s) /\ Head(s) \in Range(s)
  BY TailOf
<1>2. n \in Nat /\ \A x \in Range(s) : \E i \in 1 .. n : s[i] = x
  BY SeqIs
<1>3. /\ Head(s) = s[1] /\ n # 0 /\ Len(t) = n - 1
      /\ \A i \in 1 .. n - 1 : t[i] = s[i + 1]
  BY HeadTailProperties, EmptySeq DEF IsSeq
<1> HIDE DEF n, t
<1>4. Len(t) \in Nat /\ n = Len(t) + 1
  BY <1>2, <1>3
<1>5. \A i \in 1 .. Len(t) : i + 1 \in 1 .. n /\ t[i] = s[i + 1]
  BY <1>2, <1>3
<1>6. \A i \in 1 .. n : i = 1 \/ (i - 1 \in 1 .. Len(t) /\ t[i - 1] = s[i])
  <2> SUFFICES ASSUME NEW i \in 1 .. n, i # 1 PROVE i - 1 \in 1 .. Len(t) /\ t[i - 1] = s[i]
    OBVIOUS
  <2>1. i - 1 \in 1 .. n - 1 /\ (i - 1) + 1 = i
    BY <1>2
  <2> QED
    BY <1>3, <2>1
<1>7. \A i \in 1 .. Len(t) : t[i] \in Range(t)
  BY <1>1, SeqIs
<1>8. Range(s) \subseteq {Head(s)} \cup Range(t)
  BY <1>2, <1>3, <1>6, <1>7
<1> QED
  BY <1>1, <1>3, <1>4, <1>5, <1>8 DEF n, t

LEMMA ChangedIs ==
    ASSUME NEW s, IsSeq(s), NEW i \in DOMAIN s, NEW x, NEW t, t = [s EXCEPT ![i] = x]
    PROVE  IsSeq(t) /\ Range(t) \subseteq Range(s) \cup {x}
<1> DEFINE S == Range(s) \cup {x}
<1>1. s \in Seq(S) /\ x \in S
  <2>1. Range(s) \subseteq S /\ x \in S
    OBVIOUS
  <2> HIDE DEF S
  <2> QED
    BY <2>1, SeqMonotonic DEF IsSeq
<1> HIDE DEF S
<1>2. t \in Seq(S)
  BY <1>1, SeqIs, ExceptSeq
<1> QED
  BY <1>2, AnySeq DEF S

LEMMA SliceIs ==
    ASSUME NEW s, IsSeq(s), NEW m \in Nat, NEW n \in Nat, n <= Len(s)
    PROVE  /\ IsSeq(SubSeq(s, m + 1, n)) /\ Range(SubSeq(s, m + 1, n)) \subseteq Range(s)
           /\ Len(SubSeq(s, m + 1, n)) = IF m <= n THEN n - m ELSE 0
           /\ \A i \in 1 .. n - m : SubSeq(s, m + 1, n)[i] = s[m + i]
<1> DEFINE k == m + 1
           part == SubSeq(s, k, n)
<1>1. k \in Int /\ n \in Int /\ \A i \in k .. n : s[i] \in Range(s)
  <2>1. \A i \in k .. n : i \in 1 .. Len(s)
    BY SeqIs
  <2> QED
    BY <2>1, SeqIs
<1>2. k = m + 1
  OBVIOUS
<1> HIDE DEF k
<1>3. /\ part \in Seq(Range(s)) /\ Len(part) = IF k <= n THEN n - k + 1 ELSE 0
      /\ \A i \in 1 .. n - k + 1 : part[i] = s[k + i - 1]
  BY <1>1, SubSeqProperties
<1>4. IsSeq(part) /\ Range(part) \subseteq Range(s)
  BY <1>3, AnySeq
<1> HIDE DEF part
<1>5. Len(part) = IF m <= n THEN n - m ELSE 0
  BY <1>2, <1>3
<1>6. \A i \in 1 .. n - m : i \in 1 .. n - k + 1 /\ k + i - 1 = m + i
  BY <1>2
<1> QED
  BY <1>3, <1>4, <1>5, <1>6 DEF part, k

LEMMA WithoutIs ==
    ASSUME NEW s, IsSeq(s), NEW i \in DOMAIN s
    PROVE  /\ IsSeq(SubSeq(s, 1, i - 1) \o SubSeq(s, i + 1, Len(s)))
           /\ Range(SubSeq(s, 1, i - 1) \o SubSeq(s, i + 1, Len(s))) \subseteq Range(s)
<1> DEFINE a == SubSeq(s, 0 + 1, i - 1)
           b == SubSeq(s, i + 1, Len(s))
<1>1. i \in Nat /\ i - 1 \in Nat /\ i - 1 <= Len(s) /\ Len(s) \in Nat /\ Len(s) <= Len(s)
  BY SeqIs
<1>2. IsSeq(a) /\ Range(a) \subseteq Range(s)
  BY <1>1, SliceIs
<1>3. IsSeq(b) /\ Range(b) \subseteq Range(s)
  BY <1>1, SliceIs
<1>4. a = SubSeq(s, 1, i - 1)
  OBVIOUS
<1> HIDE DEF a, b
<1>5. IsSeq(a \o b) /\ Range(a \o b) \subseteq Range(s)
  BY <1>2, <1>3, JoinIs
<1> QED
  BY <1>4, <1>5 DEF b

LEMMA AppendIs ==
    ASSUME NEW s, IsSeq(s), NEW x
    PROVE  /\ IsSeq(Append(s, x)) /\ Len(Append(s, x)) = Len(s) + 1
           /\ Append(s, x) = s \o <<x>>
           /\ \A k \in DOMAIN Append(s, x) :
                  \/ k \in DOMAIN s /\ Append(s, x)[k] = s[k]
                  \/ k = Len(s) + 1 /\ Append(s, x)[k] = x
<1> DEFINE S == Range(s) \cup {x}
           n == Len(s)
           t == Append(s, x)
<1>1. s \in Seq(S) /\ x \in S
  <2>1. Range(s) \subseteq S /\ x \in S
    OBVIOUS
  <2> HIDE DEF S
  <2> QED
    BY <2>1, SeqMonotonic DEF IsSeq
<1> HIDE DEF S
<1>2. t = s \o <<x>>
  BY <1>1, AppendIsConcat
<1>3. /\ t \in Seq(S) /\ Len(t) = n + 1
      /\ \A i \in 1 .. n : t[i] = s[i]
      /\ t[n + 1] = x
  BY <1>1, AppendProperties
<1>4. IsSeq(t)
  BY <1>3, AnySeq
<1>5. n \in Nat /\ DOMAIN s = 1 .. n
  BY SeqIs
<1>6. DOMAIN t = 1 .. n + 1
  BY <1>3, <1>4, SeqIs
<1> HIDE DEF n, t
<1>7. \A k \in 1 .. n + 1 : k \in 1 .. n \/ k = n + 1
  BY <1>5
<1> QED
  BY <1>2, <1>3, <1>4, <1>5, <1>6, <1>7 DEF n, t

\* A set of places that is not empty has a last one
LEMMA LastPlace ==
    ASSUME NEW n \in Nat, NEW P, P \subseteq 1 .. n, P # {}
    PROVE  Max(P) \in P /\ \A i \in P : i <= Max(P)
<1> DEFINE R == {ss \in Nat \X Nat : ss[1] < ss[2]}
           Q == {n - i : i \in P}
<1>1. Q \subseteq Nat /\ Q # {}
  <2>1. \A i \in P : n - i \in Nat
    OBVIOUS
  <2> QED
    BY <2>1
<1>2. IsWellFoundedOn(R, Nat)
  BY NatLessThanWellFounded DEF OpToRel
<1>3. \A x, y \in Nat : x < y => <<x, y>> \in R
  OBVIOUS
<1> HIDE DEF R
<1>4. PICK q \in Q : \A r \in Q : ~(<<r, q>> \in R)
  <2> HIDE DEF Q
  <2> QED
    BY <1>1, <1>2, WFMin
<1>5. PICK m \in P : q = n - m
  OBVIOUS
<1>6. \A i \in P : i <= m
  <2> SUFFICES ASSUME NEW i \in P, ~(i <= m) PROVE FALSE
    OBVIOUS
  <2>1. n - i \in Q /\ n - i \in Nat /\ n - m \in Nat /\ n - i < n - m
    BY <1>1
  <2> QED
    BY <1>3, <1>4, <1>5, <2>1
<1>7. \E x \in P : \A y \in P : x >= y
  BY <1>6
<1>8. Max(P) = CHOOSE x \in P : \A y \in P : x >= y
  BY DEF Max
<1>9. Max(P) \in P /\ \A y \in P : Max(P) >= y
  BY <1>7, <1>8
<1> QED
  BY <1>9

\* Steps put in front of others
LEMMA Pushed ==
    ASSUME NEW s, NEW t, IsSeq(s), s # <<>>, IsSeq(t)
    PROVE  /\ s \o t # <<>> /\ Head(s \o t) = Head(s) /\ Tail(s \o t) = Tail(s) \o t
<1> DEFINE u == s \o t
           a == Len(Tail(s))
           b == Len(t)
           v == Tail(s) \o t
<1>1. /\ IsSeq(Tail(s)) /\ a \in Nat /\ Len(s) = a + 1 /\ Head(s) = s[1]
      /\ \A i \in 1 .. a : i + 1 \in 1 .. Len(s) /\ Tail(s)[i] = s[i + 1]
  BY TailIs
<1>2. b \in Nat
  BY SeqIs
<1>3. /\ IsSeq(u) /\ Len(u) = a + 1 + b
      /\ \A i \in 1 .. Len(s) : u[i] = s[i]
      /\ \A i \in 1 .. b : u[Len(s) + i] = t[i]
  BY <1>1, JoinIs
<1>4. /\ IsSeq(v) /\ Len(v) = a + b
      /\ \A i \in 1 .. a : v[i] = Tail(s)[i]
      /\ \A i \in 1 .. b : v[a + i] = t[i]
  BY <1>1, JoinIs
<1> HIDE DEF u, v
<1>5. u # <<>>
  BY <1>1, <1>2, <1>3, EmptyIs
<1>6. /\ IsSeq(Tail(u)) /\ Len(Tail(u)) \in Nat /\ Len(u) = Len(Tail(u)) + 1 /\ Head(u) = u[1]
      /\ \A i \in 1 .. Len(Tail(u)) : Tail(u)[i] = u[i + 1]
  BY <1>3, <1>5, TailIs
<1> HIDE DEF a, b
<1>7. Len(Tail(u)) = a + b
  BY <1>1, <1>2, <1>3, <1>6
<1>8. ASSUME NEW i \in 1 .. a + b PROVE Tail(u)[i] = v[i]
  <2>1. CASE i <= a
    <3>1. i \in 1 .. a /\ i + 1 \in 1 .. Len(s)
      BY <1>1, <1>2, <2>1
    <3> QED
      BY <1>1, <1>3, <1>4, <1>6, <1>7, <3>1
  <2>2. CASE ~(i <= a)
    <3> DEFINE k == i - a
    <3>1. k \in 1 .. b /\ a + k = i /\ i + 1 = Len(s) + k
      BY <1>1, <1>2, <2>2
    <3> HIDE DEF k
    <3>2. v[a + k] = t[k] /\ u[Len(s) + k] = t[k]
      BY <1>3, <1>4, <3>1
    <3> QED
      BY <1>6, <1>7, <3>1, <3>2
  <2> QED
    BY <2>1, <2>2
<1>9. Tail(u) = v
  <2> DEFINE S == Range(Tail(u)) \cup Range(v)
             x == Tail(u)
  <2>1. x \in Seq(S) /\ v \in Seq(S)
    <3>1. x \in Seq(Range(x)) /\ v \in Seq(Range(v))
      BY <1>4, <1>6 DEF IsSeq
    <3>2. Range(x) \subseteq S /\ Range(v) \subseteq S
      OBVIOUS
    <3> HIDE DEF S, x
    <3> QED
      BY <3>1, <3>2
  <2>2. Len(x) = Len(v) /\ \A i \in 1 .. Len(x) : x[i] = v[i]
    BY <1>4, <1>7, <1>8
  <2> HIDE DEF S, x
  <2>3. x = v
    BY <2>1, <2>2, SeqEqual
  <2> QED
    BY <2>3 DEF x
<1>10. 1 \in 1 .. Len(s)
  BY <1>1
<1>11. Head(u) = Head(s)
  BY <1>1, <1>3, <1>6, <1>10
<1> QED
  BY <1>5, <1>9, <1>11 DEF u, v

LEMMA NoneIs ==
    ASSUME NEW t, IsSeq(t)
    PROVE  <<>> \o t = t
BY ConcatEmptySeq DEF IsSeq

LEMMA PushOne ==
    ASSUME NEW a, NEW t, IsSeq(t)
    PROVE  <<a>> \o t # <<>> /\ Head(<<a>> \o t) = a /\ Tail(<<a>> \o t) = t
<1> DEFINE s == <<a>>
<1>1. IsSeq(s) /\ s # <<>> /\ Head(s) = a /\ Tail(s) = <<>>
  BY OneIs
<1> HIDE DEF s
<1> QED
  BY <1>1, Pushed, NoneIs DEF s

LEMMA PushTwo ==
    ASSUME NEW a, NEW b, NEW t, IsSeq(t)
    PROVE  <<a, b>> \o t # <<>> /\ Head(<<a, b>> \o t) = a /\ Tail(<<a, b>> \o t) = <<b>> \o t
<1> DEFINE s == <<a, b>>
<1>1. s \in Seq({a, b}) /\ s # <<>> /\ Head(s) = a /\ Tail(s) = <<b>>
  OBVIOUS
<1> HIDE DEF s
<1> QED
  BY <1>1, AnySeq, Pushed DEF s

LEMMA PushThree ==
    ASSUME NEW a, NEW b, NEW c, NEW t, IsSeq(t)
    PROVE  /\ <<a, b, c>> \o t # <<>> /\ Head(<<a, b, c>> \o t) = a
           /\ Tail(<<a, b, c>> \o t) = <<b, c>> \o t
<1> DEFINE s == <<a, b, c>>
<1>1. s \in Seq({a, b, c}) /\ s # <<>> /\ Head(s) = a /\ Tail(s) = <<b, c>>
  OBVIOUS
<1> HIDE DEF s
<1> QED
  BY <1>1, AnySeq, Pushed DEF s

LEMMA PushFour ==
    ASSUME NEW a, NEW b, NEW c, NEW e, NEW t, IsSeq(t)
    PROVE  /\ <<a, b, c, e>> \o t # <<>> /\ Head(<<a, b, c, e>> \o t) = a
           /\ Tail(<<a, b, c, e>> \o t) = <<b, c, e>> \o t
<1> DEFINE s == <<a, b, c, e>>
<1>1. s \in Seq({a, b, c, e}) /\ s # <<>> /\ Head(s) = a /\ Tail(s) = <<b, c, e>>
  OBVIOUS
<1> HIDE DEF s
<1> QED
  BY <1>1, AnySeq, Pushed DEF s

=============================================================================
