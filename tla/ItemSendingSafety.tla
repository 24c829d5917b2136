-------------------------- MODULE ItemSendingSafety --------------------------
(***************************************************************************)
(* Every change is sent, once and in order, and with its data if the       *)
(* plug-in has it: for any changes and any number of them in a message.    *)
(***************************************************************************)
EXTENDS ItemSendingProps, FiniteSetTheorems, SequenceTheorems, TLAPS

Sent == [msg : Nat, cmd : Nat, key : STRING, type : Types, data : Fetched \cup {"none"}]

Messages == [id : Nat, cmd : Nat, room : Nat, state : {"sent", "written", "full"}]

(* Every variable the proof is about has its type.                         *)
TypeOK ==
    /\ cfg \in Configs /\ message \in Messages /\ session \in {"open", "ended"}
    /\ session = "ended" => message.state = "sent" /\ timers = 0
    /\ message.room <= cfg.max
    /\ timers \in Nat /\ large \in Nat /\ sent \in Seq(Sent)

(***************************************************************************)
(* The items that have been asked the prefetcher for, and those that it    *)
(* was told to fetch.                                                      *)
(***************************************************************************)
Count == Len(cfg.items)
Taken == Len(sent) + IF large > 0 THEN 1 ELSE 0
FetchedTo(pf) == Count - Len(pf.ids)

\* What is left is what has not been sent; the item that is sent in chunks is the next
LeftInv ==
    /\ Len(sent) <= Len(Changes) /\ left = SubSeq(Changes, Len(sent) + 1, Len(Changes))
    /\ \A i \in DOMAIN sent : sent[i].key = Changes[i].key
    /\ large > 0 => Len(sent) < Count

(***************************************************************************)
(* A prefetcher that is ahead holds the items between those two places:    *)
(* what it has of them it found there, unless its plug-in is not trusted.  *)
(***************************************************************************)
Honest(pf) == \A k \in DOMAIN pf.fetched : pf.fetched[k] = "NULL" => k \notin there

Prefetcher(pf) == pf = [ids |-> pf.ids, fetched |-> pf.fetched, hint |-> pf.hint] /\ pf.hint \in Int

KeysOf(from, to) == {cfg.items[i].key : i \in from .. to}

Ahead(pf, taken) ==
    /\ Prefetcher(pf)
    /\ pf.ids = SubSeq(Keys(cfg.items), FetchedTo(pf) + 1, Count)
    /\ FetchedTo(pf) \in 0 .. Count /\ (taken <= FetchedTo(pf) \/ FetchedTo(pf) = Count)
    /\ DOMAIN pf.fetched = KeysOf(taken + 1, FetchedTo(pf))
    /\ \A k \in DOMAIN pf.fetched : pf.fetched[k] \in Fetched
    /\ ~cfg.omits => Honest(pf)

\* A batch of less than no items leaves more items than the message has room for
Enough(pf, taken, room) == pf.hint < 0 => FetchedTo(pf) - taken > room

PrefetcherInv ==
    session = "open" =>
        /\ Ahead(prefetcher, Taken)
        /\ left # <<>> => /\ message.state = "sent" => prefetcher.hint >= 0
                          /\ message.state = "written" =>
                                 Enough(prefetcher, Taken, message.room)

IInv == TypeOK /\ LeftInv /\ PrefetcherInv /\ SentWhole

-----------------------------------------------------------------------------
(***************************************************************************)
(* The changes of a configuration                                          *)
(***************************************************************************)
Items == Change({"Add", "Replace"})

LEMMA CfgType ==
    ASSUME TypeOK
    PROVE  /\ cfg.items \in Seq(Items) /\ cfg.removed \in Seq(Change({"Delete"}))
           /\ cfg.max \in Nat /\ cfg.max > 0 /\ cfg.omits \in BOOLEAN
           /\ ListsOnce(cfg.items)
  BY ConfigsAssumption DEF TypeOK, Cfg, Items

LEMMA CountType ==
    ASSUME TypeOK
    PROVE  Count \in Nat /\ Taken \in Nat /\ Len(sent) \in Nat
<1>1. Count \in Nat /\ Len(sent) \in Nat
  BY CfgType, LenProperties DEF Count, TypeOK
<1> QED
  BY <1>1 DEF Taken

LEMMA Fields ==
    /\ \A c \in Items : c.key \in STRING /\ c.cmd # "Delete"
    /\ \A c \in Change({"Delete"}) : c.cmd = "Delete"
  BY DEF Items, Change

LEMMA ItemIs ==
    ASSUME TypeOK, NEW i \in 1 .. Count
    PROVE  cfg.items[i] \in Items
  BY CfgType, ElementOfSeq DEF Count

LEMMA ChangesAre ==
    ASSUME TypeOK
    PROVE  /\ Changes \in Seq(Change(Types)) /\ Len(Changes) \in Nat /\ Len(Changes) >= Count
           /\ \A i \in 1 .. Count : Changes[i] = cfg.items[i] /\ Changes[i].cmd # "Delete"
           /\ \A i \in Count + 1 .. Len(Changes) : Changes[i].cmd = "Delete"
<1> DEFINE a == Len(cfg.items)
           b == Len(cfg.removed)
<1>1. cfg.items \in Seq(Change(Types)) /\ cfg.removed \in Seq(Change(Types))
  <2>1. Items \subseteq Change(Types) /\ Change({"Delete"}) \subseteq Change(Types)
    BY DEF Items, Change, Types
  <2> QED
    BY <2>1, CfgType, SeqMonotonic
<1>2. /\ Changes \in Seq(Change(Types)) /\ Len(Changes) = a + b
      /\ \A i \in 1 .. a + b :
             Changes[i] = IF i <= a THEN cfg.items[i] ELSE cfg.removed[i - a]
  BY <1>1, ConcatProperties DEF Changes
<1>3. a \in Nat /\ b \in Nat
  BY CfgType, LenProperties
<1>4. \A i \in 1 .. a : cfg.items[i].cmd # "Delete"
  BY ItemIs, Fields DEF Count
<1>5. \A i \in 1 .. b : cfg.removed[i].cmd = "Delete"
  BY CfgType, ElementOfSeq, Fields
<1>6. Count = a
  BY DEF Count
<1> HIDE DEF a, b
<1>7. \A i \in a + 1 .. a + b : Changes[i].cmd = "Delete"
  <2> SUFFICES ASSUME NEW i \in a + 1 .. a + b PROVE Changes[i].cmd = "Delete"
    OBVIOUS
  <2>1. i - a \in 1 .. b /\ i \in 1 .. a + b /\ ~(i <= a)
    BY <1>3
  <2>2. Changes[i] = cfg.removed[i - a]
    BY <1>2, <2>1
  <2> QED
    BY <1>5, <2>1, <2>2
<1>8. \A i \in 1 .. a : Changes[i] = cfg.items[i] /\ Changes[i].cmd # "Delete"
  <2> SUFFICES ASSUME NEW i \in 1 .. a PROVE Changes[i] = cfg.items[i]
    BY <1>4
  <2>1. i \in 1 .. a + b /\ i <= a
    BY <1>3
  <2> QED
    BY <1>2, <2>1
<1>9. Len(Changes) \in Nat /\ Len(Changes) >= a
  BY <1>2, <1>3
<1> QED
  BY <1>2, <1>6, <1>7, <1>8, <1>9

LEMMA KeysAre ==
    ASSUME TypeOK
    PROVE  /\ Keys(cfg.items) \in Seq(STRING) /\ Len(Keys(cfg.items)) = Count
           /\ \A i \in 1 .. Count : Keys(cfg.items)[i] = cfg.items[i].key
           /\ \A i, j \in 1 .. Count : cfg.items[i].key = cfg.items[j].key => i = j
<1>1. DOMAIN cfg.items = 1 .. Count /\ Count \in Nat
  BY CfgType, LenProperties DEF Count
<1>2. \A i \in 1 .. Count : cfg.items[i].key \in STRING
  BY ItemIs, Fields
<1>3. Keys(cfg.items) = [i \in 1 .. Count |-> cfg.items[i].key]
  BY <1>1 DEF Keys
<1>4. \A i, j \in 1 .. Count : cfg.items[i].key = cfg.items[j].key => i = j
  BY <1>1, CfgType DEF ListsOnce
<1> QED
  BY <1>1, <1>2, <1>3, <1>4

LEMMA NextChange ==
    ASSUME TypeOK, LeftInv, left # <<>>
    PROVE  /\ Len(sent) + 1 \in 1 .. Len(Changes) /\ Head(left) = Changes[Len(sent) + 1]
           /\ Tail(left) = SubSeq(Changes, Len(sent) + 2, Len(Changes))
           /\ Head(left).cmd # "Delete" <=> Len(sent) < Count
           /\ Head(left).cmd # "Delete" => Head(left) = cfg.items[Len(sent) + 1]
<1> DEFINE n == Len(sent) + 1
<1>1. n \in Nat /\ Len(sent) \in Nat /\ Count \in Nat
  BY CountType
<1>2. n <= Len(Changes)
  BY <1>1, ChangesAre, SubSeqProperties DEF LeftInv
<1>3. Head(left) = Changes[n] /\ Tail(left) = SubSeq(Changes, n + 1, Len(Changes))
  BY <1>1, <1>2, ChangesAre, HeadTailOfSubSeq DEF LeftInv
<1> QED
  BY <1>1, <1>2, <1>3, ChangesAre

-----------------------------------------------------------------------------
(***************************************************************************)
(* The prefetcher                                                          *)
(***************************************************************************)
LEMMA MinOf ==
    ASSUME NEW a \in Int, NEW b \in Int
    PROVE  Min({a, b}) = IF a <= b THEN a ELSE b
<1>1. \E x \in {a, b} : \A y \in {a, b} : x <= y
  OBVIOUS
<1>2. Min({a, b}) = CHOOSE x \in {a, b} : \A y \in {a, b} : x <= y
  BY DEF Min
<1>3. Min({a, b}) \in {a, b} /\ \A y \in {a, b} : Min({a, b}) <= y
  BY <1>1, <1>2
<1> QED
  BY <1>3

LEMMA HeldCount ==
    ASSUME TypeOK, NEW pf, NEW taken \in Nat, Ahead(pf, taken)
    PROVE  /\ IsFiniteSet(DOMAIN pf.fetched)
           /\ Cardinality(DOMAIN pf.fetched) =
                  IF taken <= FetchedTo(pf) THEN FetchedTo(pf) - taken ELSE 0
<1> DEFINE to == FetchedTo(pf)
           places == taken + 1 .. to
           f == [i \in places |-> cfg.items[i].key]
<1>1. to \in Nat /\ to <= Count /\ Count \in Nat
  BY CountType DEF Ahead
<1>2. DOMAIN pf.fetched = {cfg.items[i].key : i \in places}
  BY DEF Ahead, KeysOf
<1>3. f \in [places -> DOMAIN pf.fetched]
  BY <1>2
<1>4. \A i, j \in places : f[i] = f[j] => i = j
  <2>1. places \subseteq 1 .. Count
    BY <1>1
  <2> QED
    BY <2>1, KeysAre
<1>5. \A k \in DOMAIN pf.fetched : \E i \in places : f[i] = k
  BY <1>2
<1> HIDE DEF f, to
<1>6. f \in Bijection(places, DOMAIN pf.fetched)
  BY <1>3, <1>4, <1>5 DEF Bijection, Injection, Surjection, IsInjective
<1>7. ExistsBijection(places, DOMAIN pf.fetched)
  BY <1>6 DEF ExistsBijection
<1>8. IsFiniteSet(places) /\ Cardinality(places) = IF taken + 1 > to THEN 0 ELSE to - taken
  BY <1>1, FS_Interval
<1>9. IsFiniteSet(DOMAIN pf.fetched) /\ Cardinality(DOMAIN pf.fetched) = Cardinality(places)
  BY <1>7, <1>8, FS_Bijection
<1> QED
  BY <1>1, <1>8, <1>9 DEF to

LEMMA TakeIs ==
    ASSUME NEW pf, Prefetcher(pf), NEW key
    PROVE  /\ Prefetcher(Take(pf, key))
           /\ Take(pf, key).ids = pf.ids /\ Take(pf, key).hint = pf.hint
           /\ Take(pf, key).fetched = [k \in DOMAIN pf.fetched \ {key} |-> pf.fetched[k]]
<1> DEFINE i == pf.ids
           f == pf.fetched
           h == pf.hint
           g == Restrict(f, DOMAIN f \ {key})
           pg == Take(pf, key)
<1>1. pf = [ids |-> i, fetched |-> f, hint |-> h] /\ pg = [pf EXCEPT !.fetched = g] /\ h \in Int
  BY DEF Prefetcher, Take
<1>2. g = [k \in DOMAIN f \ {key} |-> f[k]]
  BY DEF Restrict
<1> HIDE DEF i, f, h, g, pg
<1>3. pg = [ids |-> i, fetched |-> g, hint |-> h]
  BY <1>1
<1>4. pg.ids = i /\ pg.fetched = g /\ pg.hint = h
  BY <1>3
<1>5. Prefetcher(pg)
  BY <1>1, <1>3, <1>4 DEF Prefetcher
<1> QED
  BY <1>2, <1>4, <1>5 DEF i, f, h, pg

LEMMA TakeAhead ==
    ASSUME TypeOK, NEW pf, NEW taken \in Nat, taken < FetchedTo(pf), Ahead(pf, taken)
    PROVE  /\ Ahead(Take(pf, cfg.items[taken + 1].key), taken + 1)
           /\ FetchedTo(Take(pf, cfg.items[taken + 1].key)) = FetchedTo(pf)
           /\ Take(pf, cfg.items[taken + 1].key).hint = pf.hint
<1> DEFINE key == cfg.items[taken + 1].key
           pg == Take(pf, key)
           to == FetchedTo(pf)
<1>1. to \in Nat /\ to <= Count /\ Count \in Nat /\ taken + 1 \in 1 .. Count /\ taken + 1 <= to
  BY CountType DEF Ahead
<1>2. /\ pg.ids = pf.ids /\ pg.hint = pf.hint /\ Prefetcher(pg)
      /\ pg.fetched = [k \in DOMAIN pf.fetched \ {key} |-> pf.fetched[k]]
  <2>1. Prefetcher(pf)
    BY DEF Ahead
  <2> QED
    BY <2>1, TakeIs
<1>3. FetchedTo(pg) = to
  BY <1>2 DEF FetchedTo
<1>4. DOMAIN pg.fetched = KeysOf((taken + 1) + 1, to)
  <2>1. \A i \in taken + 1 .. to : cfg.items[i].key = key <=> i = taken + 1
    BY <1>1, KeysAre
  <2>2. DOMAIN pf.fetched = {cfg.items[i].key : i \in taken + 1 .. to}
    BY DEF Ahead, KeysOf
  <2>3. \A i : i \in (taken + 1) + 1 .. to <=> i \in taken + 1 .. to /\ i # taken + 1
    BY <1>1
  <2> HIDE DEF key, to
  <2> QED
    BY <1>2, <2>1, <2>2, <2>3 DEF KeysOf
<1>5. pg.ids = SubSeq(Keys(cfg.items), to + 1, Count)
  BY <1>2 DEF Ahead
<1>6. \A k \in DOMAIN pg.fetched : pg.fetched[k] \in Fetched
  BY <1>2 DEF Ahead
<1>7. ~cfg.omits => Honest(pg)
  BY <1>2 DEF Ahead, Honest
<1> HIDE DEF pg, key, to
<1>8. FetchedTo(pg) \in 0 .. Count /\ taken + 1 <= FetchedTo(pg)
  BY <1>1, <1>3
<1>9. Ahead(pg, taken + 1)
  BY <1>2, <1>3, <1>4, <1>5, <1>6, <1>7, <1>8 DEF Ahead
<1> QED
  BY <1>2, <1>3, <1>9 DEF pg, key, to

\* The places of a sequence from one on
LEMMA PartIs ==
    ASSUME NEW S, NEW s, NEW m \in Nat, NEW n \in Nat, m <= n, \A i \in m + 1 .. n : s[i] \in S
    PROVE  /\ SubSeq(s, m + 1, n) \in Seq(S) /\ Len(SubSeq(s, m + 1, n)) = n - m
           /\ \A i \in 1 .. n - m : SubSeq(s, m + 1, n)[i] = s[m + i]
<1> DEFINE k == m + 1
           part == SubSeq(s, k, n)
<1>1. k \in Int /\ n \in Int /\ \A i \in k .. n : s[i] \in S
  OBVIOUS
<1> HIDE DEF k
<1>2. /\ part \in Seq(S) /\ Len(part) = IF k <= n THEN n - k + 1 ELSE 0
      /\ \A i \in 1 .. n - k + 1 : part[i] = s[k + i - 1]
  BY <1>1, SubSeqProperties
<1> HIDE DEF part
<1>3. k = m + 1
  BY DEF k
<1>4. Len(part) = n - m
  BY <1>2, <1>3
<1>5. \A i \in 1 .. n - m : i \in 1 .. n - k + 1 /\ k + i - 1 = m + i
  BY <1>3
<1> QED
  BY <1>2, <1>4, <1>5 DEF part, k

\* What there is to fetch, and how the batch that is read next is taken off it
LEMMA IdsAre ==
    ASSUME TypeOK, NEW pf, NEW taken \in Nat, Ahead(pf, taken)
    PROVE  /\ FetchedTo(pf) \in 0 .. Count /\ Count \in Nat
           /\ pf.ids \in Seq(STRING) /\ Len(pf.ids) = Count - FetchedTo(pf)
           /\ \A i \in 1 .. Count - FetchedTo(pf) :
                  pf.ids[i] \in STRING /\ pf.ids[i] = cfg.items[FetchedTo(pf) + i].key
<1> DEFINE to == FetchedTo(pf)
           keys == Keys(cfg.items)
<1>1. to \in 0 .. Count /\ Count \in Nat /\ pf.ids = SubSeq(keys, to + 1, Count)
  BY CountType DEF Ahead
<1>2. \A i \in 1 .. Count : keys[i] = cfg.items[i].key /\ keys[i] \in STRING
  BY KeysAre, ElementOfSeq
<1> HIDE DEF to, keys
<1>3. \A i \in to + 1 .. Count : keys[i] \in STRING
  BY <1>1, <1>2
<1>4. /\ pf.ids \in Seq(STRING) /\ Len(pf.ids) = Count - to
      /\ \A i \in 1 .. Count - to : pf.ids[i] = keys[to + i]
  <2>1. to \in Nat /\ to <= Count
    BY <1>1
  <2>2. /\ SubSeq(keys, to + 1, Count) \in Seq(STRING)
        /\ Len(SubSeq(keys, to + 1, Count)) = Count - to
        /\ \A i \in 1 .. Count - to : SubSeq(keys, to + 1, Count)[i] = keys[to + i]
    BY <1>1, <1>3, <2>1, PartIs
  <2> QED
    BY <1>1, <2>2
<1>5. \A i \in 1 .. Count - to : to + i \in 1 .. Count
  BY <1>1
<1> QED
  BY <1>1, <1>2, <1>4, <1>5 DEF to

LEMMA BatchIs ==
    ASSUME TypeOK, NEW pf, NEW taken \in Nat, Ahead(pf, taken),
           NEW size \in 0 .. Count - FetchedTo(pf)
    PROVE  ToSet(SubSeq(pf.ids, 1, size)) = KeysOf(FetchedTo(pf) + 1, FetchedTo(pf) + size)
<1> DEFINE to == FetchedTo(pf)
           ids == pf.ids
           batch == SubSeq(ids, 0 + 1, size)
<1>1. /\ to \in 0 .. Count /\ Count \in Nat /\ size \in 0 .. Count - to
      /\ \A i \in 1 .. Count - to : ids[i] \in STRING /\ ids[i] = cfg.items[to + i].key
  BY IdsAre
<1> HIDE DEF to, ids
<1>2. \A i \in 0 + 1 .. size : ids[i] \in STRING
  BY <1>1
<1>3. /\ batch \in Seq(STRING) /\ Len(batch) = size - 0
      /\ \A i \in 1 .. size - 0 : batch[i] = ids[0 + i]
  BY <1>1, <1>2, PartIs
<1> HIDE DEF batch
<1>4. DOMAIN batch = 1 .. size
  BY <1>1, <1>3, LenProperties
<1>5. \A i \in 1 .. size : batch[i] = cfg.items[to + i].key /\ to + i \in to + 1 .. to + size
  BY <1>1, <1>3
<1>6. \A j \in to + 1 .. to + size : j - to \in 1 .. size /\ to + (j - to) = j
  BY <1>1
<1>7. ToSet(batch) = {batch[i] : i \in 1 .. size}
  BY <1>4 DEF ToSet
<1>8. ToSet(batch) = KeysOf(to + 1, to + size)
  BY <1>5, <1>6, <1>7 DEF KeysOf
<1>9. batch = SubSeq(ids, 1, size)
  BY DEF batch
<1> QED
  BY <1>8, <1>9 DEF to, ids

LEMMA RestIs ==
    ASSUME TypeOK, NEW pf, NEW taken \in Nat, Ahead(pf, taken),
           NEW size \in 0 .. Count - FetchedTo(pf)
    PROVE  /\ SubSeq(pf.ids, size + 1, Len(pf.ids)) =
                  SubSeq(Keys(cfg.items), FetchedTo(pf) + size + 1, Count)
           /\ Len(SubSeq(pf.ids, size + 1, Len(pf.ids))) = Count - (FetchedTo(pf) + size)
<1> DEFINE to == FetchedTo(pf)
           keys == Keys(cfg.items)
           ids == pf.ids
           size2 == to + size
           rest == SubSeq(ids, size + 1, Len(ids))
           same == SubSeq(keys, size2 + 1, Count)
<1>1. /\ to \in 0 .. Count /\ Count \in Nat /\ Len(ids) = Count - to /\ size \in 0 .. Count - to
      /\ \A i \in 1 .. Count - to : ids[i] \in STRING /\ ids[i] = cfg.items[to + i].key
  BY IdsAre
<1>2. \A i \in 1 .. Count : keys[i] = cfg.items[i].key /\ keys[i] \in STRING
  BY KeysAre, ElementOfSeq
<1> HIDE DEF to, keys, ids
<1>3. size2 = to + size /\ size2 \in Nat /\ size2 <= Count
  BY <1>1
<1> HIDE DEF size2
<1>4. /\ rest \in Seq(STRING) /\ Len(rest) = Len(ids) - size
      /\ \A i \in 1 .. Len(ids) - size : rest[i] = ids[size + i]
  <2>1. Len(ids) \in Nat /\ size \in Nat /\ size <= Len(ids) /\ \A i \in size + 1 .. Len(ids) : ids[i] \in STRING
    BY <1>1
  <2> QED
    BY <2>1, PartIs
<1>5. /\ same \in Seq(STRING) /\ Len(same) = Count - size2
      /\ \A i \in 1 .. Count - size2 : same[i] = keys[size2 + i]
  <2>1. \A i \in size2 + 1 .. Count : keys[i] \in STRING
    BY <1>1, <1>2, <1>3
  <2> QED
    BY <1>1, <1>3, <2>1, PartIs
<1> HIDE DEF rest, same
<1>6. Len(ids) - size = Count - size2
  BY <1>1, <1>3
<1>7. \A i \in 1 .. Count - size2 : rest[i] = same[i]
  <2> SUFFICES ASSUME NEW i \in 1 .. Count - size2 PROVE rest[i] = same[i]
    OBVIOUS
  <2>1. size + i \in 1 .. Count - to /\ size2 + i \in 1 .. Count /\ to + (size + i) = size2 + i
    BY <1>1, <1>3
  <2>2. ids[size + i] = cfg.items[size2 + i].key
    BY <1>1, <2>1
  <2>3. keys[size2 + i] = cfg.items[size2 + i].key
    BY <1>2, <2>1
  <2> QED
    BY <1>4, <1>5, <1>6, <2>2, <2>3
<1>8. rest = same
  BY <1>4, <1>5, <1>6, <1>7, SeqEqual
<1> QED
  BY <1>4, <1>6, <1>8 DEF rest, same, to, ids, keys, size2

LEMMA PrefetchAhead ==
    ASSUME TypeOK, NEW pf, NEW taken \in Nat, Ahead(pf, taken)
    PROVE  LET pg == Prefetch(pf, there, cfg.omits)
           IN /\ Ahead(pg, taken) /\ pg.hint = pf.hint
              /\ pf.hint > 0 /\ taken = FetchedTo(pf) /\ taken < Count => FetchedTo(pg) > taken
<1> DEFINE to == FetchedTo(pf)
           size == Min({pf.hint, Len(pf.ids)})
           keys == ToSet(SubSeq(pf.ids, 1, size))
           got == IF Trusted(keys, there, cfg.omits) THEN keys \cap there ELSE {}
           held == [k \in DOMAIN pf.fetched \cup keys |->
                        IF k \notin keys THEN pf.fetched[k] ELSE IF k \in got THEN "item" ELSE "NULL"]
           rest == SubSeq(pf.ids, size + 1, Len(pf.ids))
           pg == Prefetch(pf, there, cfg.omits)
<1>1. /\ to \in 0 .. Count /\ Count \in Nat /\ Len(pf.ids) = Count - to /\ pf.hint \in Int
      /\ Prefetcher(pf) /\ (taken <= to \/ to = Count)
  BY IdsAre DEF Ahead, Prefetcher
<1>2. Cardinality(DOMAIN pf.fetched) = IF taken <= to THEN to - taken ELSE 0
  BY HeldCount
<1>3. CASE ~(Cardinality(DOMAIN pf.fetched) < pf.hint)
  <2>1. pg = pf
    BY <1>3 DEF Prefetch
  <2>2. ~(pf.hint > 0 /\ taken = to)
    BY <1>1, <1>2, <1>3
  <2> HIDE DEF pg
  <2> QED
    BY <2>1, <2>2 DEF pg
<1>4. CASE Cardinality(DOMAIN pf.fetched) < pf.hint
  <2>1. pf.hint > 0 /\ pf.hint \in Int
    BY <1>1, <1>2, <1>4
  <2>2. size = IF pf.hint <= Count - to THEN pf.hint ELSE Count - to
    BY <1>1, MinOf
  <2> HIDE DEF to, size
  <2>3. size \in 0 .. Count - to /\ (to < Count => size > 0)
    BY <1>1, <2>1, <2>2
  <2>4. keys = KeysOf(to + 1, to + size)
    BY <2>3, BatchIs DEF to
  <2>5. rest = SubSeq(Keys(cfg.items), to + size + 1, Count) /\ Len(rest) = Count - (to + size)
    BY <2>3, RestIs DEF to
  <2>6. DOMAIN held = keys \cup DOMAIN pf.fetched
    OBVIOUS
  <2>7. \A k \in DOMAIN held : held[k] = IF k \in keys THEN IF k \in got THEN "item" ELSE "NULL"
                                         ELSE pf.fetched[k]
    OBVIOUS
  <2>8. DOMAIN held = KeysOf(taken + 1, to + size)
    <3>1. DOMAIN pf.fetched = KeysOf(taken + 1, to)
      BY DEF Ahead, to
    <3>2. CASE taken <= to
      <4>1. \A i : i \in taken + 1 .. to + size <=> i \in taken + 1 .. to \/ i \in to + 1 .. to + size
        BY <1>1, <2>3, <3>2
      <4> HIDE DEF held, keys
      <4> QED
        BY <2>4, <2>6, <3>1, <4>1 DEF KeysOf
    <3>3. CASE ~(taken <= to)
      <4>1. size = 0 /\ to = Count
        BY <1>1, <2>3, <3>3
      <4>2. \A i : ~(i \in taken + 1 .. to) /\ ~(i \in to + 1 .. to + size)
                   /\ ~(i \in taken + 1 .. to + size)
        BY <1>1, <3>3, <4>1
      <4> HIDE DEF held, keys
      <4> QED
        BY <2>4, <2>6, <3>1, <4>2 DEF KeysOf
    <3> QED
      BY <3>2, <3>3
  <2>9. \A k \in DOMAIN held : held[k] \in Fetched
    <3>1. \A k \in DOMAIN pf.fetched : pf.fetched[k] \in Fetched
      BY DEF Ahead
    <3> HIDE DEF held, keys, got
    <3> QED
      BY <2>6, <2>7, <3>1 DEF Fetched
  <2>10. ~cfg.omits => \A k \in DOMAIN held : held[k] = "NULL" => k \notin there
    <3>1. ~cfg.omits => \A k \in keys : k \in there => k \in got
      BY DEF Trusted
    <3>2. ~cfg.omits => \A k \in DOMAIN pf.fetched : pf.fetched[k] = "NULL" => k \notin there
      BY DEF Ahead, Honest
    <3> HIDE DEF held, keys, got
    <3> QED
      BY <2>6, <2>7, <3>1, <3>2
  <2>11. pg = [ids |-> rest, fetched |-> held, hint |-> pf.hint]
    <3> DEFINE i == pf.ids
               f == pf.fetched
               h == pf.hint
    <3>1. pf = [ids |-> i, fetched |-> f, hint |-> h]
      BY <1>1 DEF Prefetcher
    <3>2. pg = [pf EXCEPT !.fetched = held, !.ids = rest]
      BY <1>4 DEF Prefetch, size
    <3> HIDE DEF pg, held, rest, i, f, h
    <3>3. pg = [ids |-> rest, fetched |-> held, hint |-> h]
      BY <3>1, <3>2
    <3> QED
      BY <3>3 DEF h
  <2> HIDE DEF pg, held, rest, keys
  <2>12. /\ pg.ids = rest /\ pg.fetched = held /\ pg.hint = pf.hint
         /\ pg = [ids |-> pg.ids, fetched |-> pg.fetched, hint |-> pg.hint]
    BY <2>11
  <2>13. FetchedTo(pg) = to + size
    <3>1. to + size \in Int /\ Len(pg.ids) = Count - (to + size)
      BY <1>1, <2>3, <2>5, <2>12
    <3> QED
      BY <1>1, <3>1 DEF FetchedTo
  <2>14. FetchedTo(pg) \in 0 .. Count /\ (taken <= FetchedTo(pg) \/ FetchedTo(pg) = Count)
    BY <1>1, <2>3, <2>13
  <2>15. Prefetcher(pg) /\ pg.ids = SubSeq(Keys(cfg.items), FetchedTo(pg) + 1, Count)
    BY <1>1, <2>5, <2>12, <2>13 DEF Prefetcher
  <2>16. ~cfg.omits => Honest(pg)
    BY <2>10, <2>12 DEF Honest
  <2>17. Ahead(pg, taken)
    BY <2>8, <2>9, <2>12, <2>13, <2>14, <2>15, <2>16 DEF Ahead
  <2>18. taken = to /\ taken < Count => FetchedTo(pg) > taken
    BY <1>1, <2>3, <2>13
  <2> QED
    BY <2>12, <2>17, <2>18 DEF pg, to
<1> QED
  BY <1>3, <1>4

LEMMA FilledAhead ==
    ASSUME TypeOK, NEW pf, NEW taken \in Nat, taken < Count, Ahead(pf, taken),
           NEW room \in Nat, room <= cfg.max, Enough(pf, taken, room)
    PROVE  LET pg == Filled(pf, cfg.items[taken + 1].key, cfg.max, there, cfg.omits)
           IN /\ Ahead(pg, taken) /\ taken < FetchedTo(pg) /\ Enough(pg, taken, room)
              /\ cfg.items[taken + 1].key \in DOMAIN pg.fetched
<1> DEFINE key == cfg.items[taken + 1].key
           left2 == cfg.max - Cardinality(DOMAIN pf.fetched)
           hinted == IF pf.hint = 0 THEN [pf EXCEPT !.hint = left2] ELSE pf
           pg == Filled(pf, key, cfg.max, there, cfg.omits)
<1>1. /\ FetchedTo(pf) \in 0 .. Count /\ Count \in Nat /\ pf.hint \in Int
      /\ cfg.max \in Nat /\ cfg.max > 0 /\ taken <= FetchedTo(pf)
      /\ Cardinality(DOMAIN pf.fetched) = FetchedTo(pf) - taken
  BY CfgType, IdsAre, HeldCount DEF Ahead, Prefetcher
<1>2. /\ hinted.ids = pf.ids /\ hinted.fetched = pf.fetched /\ Prefetcher(hinted)
      /\ hinted.hint = IF pf.hint = 0 THEN left2 ELSE pf.hint
  <2> DEFINE i == pf.ids
             f == pf.fetched
             h == pf.hint
  <2>1. pf = [ids |-> i, fetched |-> f, hint |-> h] /\ h \in Int /\ left2 \in Int
    BY <1>1 DEF Ahead, Prefetcher
  <2>2. hinted = IF h = 0 THEN [pf EXCEPT !.hint = left2] ELSE pf
    OBVIOUS
  <2> HIDE DEF i, f, h, left2, hinted
  <2>3. hinted = [ids |-> i, fetched |-> f, hint |-> IF h = 0 THEN left2 ELSE h]
    BY <2>1, <2>2
  <2>4. hinted.ids = i /\ hinted.fetched = f /\ hinted.hint = (IF h = 0 THEN left2 ELSE h)
    BY <2>3
  <2>5. Prefetcher(hinted)
    BY <2>1, <2>3, <2>4 DEF Prefetcher
  <2> QED
    BY <2>4, <2>5 DEF i, f, h
<1> HIDE DEF hinted
<1>3. Ahead(hinted, taken) /\ FetchedTo(hinted) = FetchedTo(pf)
  <2>1. FetchedTo(hinted) = FetchedTo(pf)
    BY <1>2 DEF FetchedTo
  <2> QED
    BY <1>2, <2>1 DEF Ahead, Honest
<1>4. Enough(hinted, taken, room)
  BY <1>1, <1>2, <1>3 DEF Enough
<1>5. key \in DOMAIN pf.fetched <=> taken < FetchedTo(pf)
  <2>1. DOMAIN pf.fetched = KeysOf(taken + 1, FetchedTo(pf))
    BY DEF Ahead
  <2>2. \A j \in taken + 1 .. FetchedTo(pf) : FALSE \/ taken < FetchedTo(pf)
    BY <1>1
  <2>3. taken < FetchedTo(pf) => taken + 1 \in taken + 1 .. FetchedTo(pf)
    BY <1>1
  <2> QED
    BY <2>1, <2>2, <2>3 DEF KeysOf
<1>6. CASE taken < FetchedTo(pf)
  <2>1. pg = hinted
    BY <1>5, <1>6 DEF Filled, hinted
  <2> HIDE DEF pg
  <2> QED
    BY <1>2, <1>3, <1>4, <1>5, <1>6, <2>1 DEF pg
<1>7. CASE ~(taken < FetchedTo(pf))
  <2>1. pg = Prefetch(hinted, there, cfg.omits)
    BY <1>5, <1>7 DEF Filled, hinted
  <2> HIDE DEF pg
  <2>2. taken = FetchedTo(hinted)
    BY <1>1, <1>3, <1>7
  <2>3. hinted.hint > 0
    BY <1>1, <1>2, <1>3, <1>4, <2>2 DEF Enough
  <2>4. Ahead(pg, taken) /\ pg.hint = hinted.hint /\ FetchedTo(pg) > taken
    BY <1>3, <2>1, <2>2, <2>3, PrefetchAhead
  <2>5. Enough(pg, taken, room)
    BY <1>1, <1>2, <2>3, <2>4 DEF Enough, Ahead, Prefetcher
  <2>6. key \in DOMAIN pg.fetched
    <3>1. DOMAIN pg.fetched = KeysOf(taken + 1, FetchedTo(pg)) /\ FetchedTo(pg) \in 0 .. Count
      BY <2>4 DEF Ahead
    <3>2. taken + 1 \in taken + 1 .. FetchedTo(pg)
      BY <2>4, <3>1
    <3> QED
      BY <3>1, <3>2 DEF KeysOf
  <2>7. FetchedTo(pg) \in 0 .. Count /\ taken < FetchedTo(pg)
    BY <2>4 DEF Ahead
  <2> QED
    BY <2>4, <2>5, <2>6, <2>7 DEF pg
<1> QED
  BY <1>6, <1>7

-----------------------------------------------------------------------------
(***************************************************************************)
(* The steps                                                               *)
(***************************************************************************)
LEMMA SameCfg ==
    ASSUME cfg' = cfg
    PROVE  /\ Changes' = Changes /\ Count' = Count
           /\ LeftInv' <=> /\ Len(sent') <= Len(Changes)
                           /\ left' = SubSeq(Changes, Len(sent') + 1, Len(Changes))
                           /\ \A i \in DOMAIN sent' : sent'[i].key = Changes[i].key
                           /\ large' > 0 => Len(sent') < Count
<1>1. Changes' = Changes /\ Count' = Count
  BY DEF Changes, Count
<1> HIDE DEF Changes, Count
<1> QED
  BY <1>1 DEF LeftInv

LEMMA StillAhead ==
    ASSUME cfg' = cfg, \A k : k \in there' => k \in there, Ahead(prefetcher', Taken')
    PROVE  Ahead(prefetcher, Taken)'
<1> DEFINE pg == prefetcher'
           to == FetchedTo(prefetcher')
<1>1. FetchedTo(prefetcher)' = to /\ Count' = Count
  BY DEF FetchedTo, Count
<1>2. Prefetcher(prefetcher)'
  BY DEF Ahead, Prefetcher
<1>3. (pg.ids = SubSeq(Keys(cfg'.items), to + 1, Count)) /\ Keys(cfg.items)' = Keys(cfg'.items)
  BY DEF Ahead, Keys
<1>4. to \in 0 .. Count /\ (Taken' <= to \/ to = Count)
  BY DEF Ahead
<1>5. DOMAIN pg.fetched = KeysOf(Taken' + 1, to)
  BY DEF Ahead
<1>6. KeysOf(Taken + 1, FetchedTo(prefetcher))' = KeysOf(Taken' + 1, to)
  BY <1>1 DEF KeysOf
<1>7. \A k \in DOMAIN pg.fetched : pg.fetched[k] \in Fetched
  BY DEF Ahead
<1>8. ~cfg'.omits => Honest(prefetcher)'
  BY DEF Ahead, Honest
<1> QED
  BY <1>1, <1>2, <1>3, <1>4, <1>5, <1>6, <1>7, <1>8 DEF Ahead

LEMMA ProcessedLeft ==
    ASSUME TypeOK, LeftInv, left # <<>>, cfg' = cfg, message.room > 0,
           NEW data \in Fetched \cup {"none"}, Processed(Head(left), data)
    PROVE  /\ LeftInv' /\ sent' \in Seq(Sent) /\ large' = 0
           /\ Len(sent') = Len(sent) + 1 /\ Taken' = Len(sent) + 1
           /\ \A i \in DOMAIN sent' : \/ i \in DOMAIN sent /\ sent'[i] = sent[i]
                                      \/ sent'[i].key = Head(left).key /\ sent'[i].data = data
           /\ message' \in Messages /\ message'.state = message.state
           /\ message'.room = message.room - 1
<1> DEFINE n == Len(sent)
           this == Head(left)
           s == [msg |-> message.id, cmd |-> message.cmd + 1,
                 key |-> this.key, type |-> this.cmd, data |-> data]
<1>1. n \in Nat /\ sent \in Seq(Sent) /\ DOMAIN sent = 1 .. n
  BY CountType, LenProperties DEF TypeOK
<1>2. /\ n + 1 \in 1 .. Len(Changes) /\ this = Changes[n + 1]
      /\ Tail(left) = SubSeq(Changes, n + 2, Len(Changes)) /\ Len(Changes) \in Nat
  BY NextChange, ChangesAre
<1>3. this \in Change(Types)
  BY <1>2, ChangesAre, ElementOfSeq
<1>4. s \in Sent
  <2>1. message.id \in Nat /\ message.cmd \in Nat
    BY DEF TypeOK, Messages
  <2>2. this.key \in STRING /\ this.cmd \in Types
    BY <1>3 DEF Change
  <2> HIDE DEF this
  <2> QED
    BY <2>1, <2>2 DEF Sent
<1>5. sent' = Append(sent, s) /\ left' = Tail(left) /\ large' = 0
  BY DEF Processed
<1>6. message' = [message EXCEPT !.cmd = @ + 1, !.room = @ - 1]
  BY DEF Processed
<1>7. s.key = this.key /\ s.data = data
  OBVIOUS
<1> HIDE DEF s, this, n
<1>8. /\ sent' \in Seq(Sent) /\ Len(sent') = n + 1 /\ sent'[n + 1] = s
      /\ \A i \in 1 .. n : sent'[i] = sent[i]
  <2>1. Append(sent, s) \in Seq(Sent) /\ Len(Append(sent, s)) = Len(sent) + 1
    BY <1>1, <1>4, AppendProperties
  <2>2. /\ \A i \in 1 .. Len(sent) : Append(sent, s)[i] = sent[i]
        /\ Append(sent, s)[Len(sent) + 1] = s
    BY <1>1, <1>4, AppendProperties
  <2> QED
    BY <1>5, <2>1, <2>2 DEF n
<1>9. DOMAIN sent' = 1 .. n + 1
  BY <1>8, LenProperties
<1>10. \A i \in DOMAIN sent' : \/ i \in DOMAIN sent /\ sent'[i] = sent[i]
                               \/ i = n + 1 /\ sent'[i] = s
  BY <1>1, <1>8, <1>9
<1>11. LeftInv'
  <2>1. \A i \in DOMAIN sent : sent[i].key = Changes[i].key
    BY DEF LeftInv
  <2>2. \A i \in DOMAIN sent' : sent'[i].key = Changes[i].key
    BY <1>2, <1>7, <1>10, <2>1
  <2>3. Len(sent') <= Len(Changes) /\ Len(sent') + 1 = n + 2
    BY <1>1, <1>2, <1>8
  <2>4. left' = SubSeq(Changes, Len(sent') + 1, Len(Changes)) /\ ~(large' > 0)
    <3> DEFINE from == n + 2
    <3>1. left' = SubSeq(Changes, from, Len(Changes))
      BY <1>2, <1>5
    <3>2. Len(sent') + 1 = from /\ from \in Nat
      BY <1>1, <2>3
    <3>3. ~(large' > 0)
      BY <1>5
    <3> HIDE DEF from
    <3>4. left' = SubSeq(Changes, Len(sent') + 1, Len(Changes))
      BY <3>1, <3>2, Zenon
    <3> QED
      BY <3>3, <3>4
  <2> QED
    BY <2>2, <2>3, <2>4, SameCfg
<1>12. Taken' = n + 1
  BY <1>1, <1>5, <1>8 DEF Taken
<1>13. /\ message' \in Messages /\ message'.state = message.state
       /\ message'.room = message.room - 1
  <2>1. message \in Messages /\ message.cmd + 1 \in Nat /\ message.room - 1 \in Nat
    BY DEF TypeOK, Messages
  <2>2. message' = [message EXCEPT !.cmd = message.cmd + 1, !.room = message.room - 1]
    BY <1>6
  <2>3. /\ message' = [id |-> message.id, cmd |-> message.cmd + 1, room |-> message.room - 1,
                       state |-> message.state]
        /\ message.id \in Nat /\ message.state \in {"sent", "written", "full"}
    BY <2>1, <2>2 DEF Messages
  <2> QED
    BY <2>1, <2>3 DEF Messages
<1> QED
  BY <1>5, <1>7, <1>8, <1>10, <1>11, <1>12, <1>13 DEF n, this

\* The data of what has been sent, when one more command is written
LEMMA SentWithData ==
    ASSUME SentWhole, cfg' = cfg, there' = there, NEW key, NEW data,
           ~cfg.omits => (data = "NULL" => key \notin there),
           \A i \in DOMAIN sent' : \/ i \in DOMAIN sent /\ sent'[i] = sent[i]
                                   \/ sent'[i].key = key /\ sent'[i].data = data
    PROVE  SentWhole'
<1> SUFFICES ASSUME ~cfg.omits, NEW i \in DOMAIN sent', sent'[i].data = "NULL"
             PROVE  sent'[i].key \notin there
  BY DEF SentWhole
<1>1. CASE i \in DOMAIN sent /\ sent'[i] = sent[i]
  BY <1>1 DEF SentWhole
<1>2. CASE sent'[i].key = key /\ sent'[i].data = data
  BY <1>2
<1> QED
  BY <1>1, <1>2

\* The item that a prefetcher comes back with, and the place it has got to
LEMMA ItemTaken ==
    ASSUME IInv, left # <<>>, Head(left).cmd # "Delete", large = 0, session = "open",
           message.state = "written"
    PROVE  LET pg == Filled(prefetcher, Head(left).key, cfg.max, there, cfg.omits)
               pt == Take(pg, Head(left).key)
           IN /\ ItemIn(pg, Head(left).key) \in Fetched
              /\ ~cfg.omits => (ItemIn(pg, Head(left).key) = "NULL" => Head(left).key \notin there)
              /\ Ahead(pt, Len(sent) + 1)
              /\ pt.hint < 0 => FetchedTo(pt) - Len(sent) > message.room
<1> DEFINE n == Len(sent)
           key == cfg.items[n + 1].key
           pg == Filled(prefetcher, key, cfg.max, there, cfg.omits)
           pt == Take(pg, key)
           room == message.room
<1>1. TypeOK /\ LeftInv /\ n \in Nat /\ room \in Nat /\ room <= cfg.max
  BY CountType DEF IInv, TypeOK, Messages
<1>2. n < Count /\ Head(left) = cfg.items[n + 1]
  BY <1>1, NextChange
<1>3. Ahead(prefetcher, n) /\ Enough(prefetcher, n, room)
  <2>1. Taken = n
    BY <1>1 DEF Taken
  <2> QED
    BY <2>1 DEF IInv, PrefetcherInv
<1> HIDE DEF n, room
<1>4. Ahead(pg, n) /\ n < FetchedTo(pg) /\ Enough(pg, n, room) /\ key \in DOMAIN pg.fetched
  BY <1>1, <1>2, <1>3, FilledAhead
<1>5. ItemIn(pg, key) = pg.fetched[key]
  BY <1>4 DEF ItemIn
<1> HIDE DEF pg, key
<1>6. /\ pg.fetched[key] \in Fetched
      /\ ~cfg.omits => (pg.fetched[key] = "NULL" => key \notin there)
  BY <1>4 DEF Ahead, Honest
<1>7. Ahead(pt, n + 1) /\ FetchedTo(pt) = FetchedTo(pg) /\ pt.hint = pg.hint
  BY <1>1, <1>4, TakeAhead DEF key
<1>8. pt.hint < 0 => FetchedTo(pt) - n > room
  BY <1>4, <1>7 DEF Enough
<1>9. Head(left).key = key
  BY <1>2 DEF key
<1> HIDE DEF pt
<1>10. /\ ItemIn(pg, key) \in Fetched
       /\ ~cfg.omits => (ItemIn(pg, key) = "NULL" => key \notin there)
  BY <1>5, <1>6
<1> QED
  BY <1>7, <1>8, <1>9, <1>10 DEF pg, pt, n, room

LEMMA StillTyped ==
    ASSUME TypeOK, session = "open", UNCHANGED <<cfg, timers, session>>, sent' \in Seq(Sent),
           large' \in Nat, message' \in Messages, message'.room <= message.room
    PROVE  TypeOK'
<1>1. cfg' \in Configs /\ timers' \in Nat /\ session' = "open"
  BY DEF TypeOK
<1>2. message'.room <= cfg'.max
  BY CfgType DEF TypeOK, Messages
<1> QED
  BY <1>1, <1>2 DEF TypeOK

LEMMA WriteItemStep ==
    ASSUME IInv, message.state = "written", message.room > 0, left # <<>>, WriteItem,
           UNCHANGED <<cfg, there, timers, session>>
    PROVE  IInv'
<1> DEFINE this == Head(left)
           pg == Filled(prefetcher, this.key, cfg.max, there, cfg.omits)
           data == ItemIn(pg, this.key)
<1>1. /\ this.cmd # "Delete" /\ large = 0 /\ Processed(this, data)
      /\ prefetcher' = Take(pg, this.key)
  BY DEF WriteItem
<1>2. TypeOK /\ LeftInv /\ SentWhole /\ session = "open" /\ cfg' = cfg
  BY DEF IInv, TypeOK
<1>3. /\ data \in Fetched /\ (~cfg.omits => (data = "NULL" => this.key \notin there))
      /\ Ahead(prefetcher', Len(sent) + 1)
      /\ prefetcher'.hint < 0 => FetchedTo(prefetcher') - Len(sent) > message.room
  BY <1>1, <1>2, ItemTaken
<1> HIDE DEF data
<1>4. /\ LeftInv' /\ sent' \in Seq(Sent) /\ large' = 0 /\ Taken' = Len(sent) + 1
      /\ \A i \in DOMAIN sent' : \/ i \in DOMAIN sent /\ sent'[i] = sent[i]
                                 \/ sent'[i].key = this.key /\ sent'[i].data = data
      /\ message' \in Messages /\ message'.state = message.state
      /\ message'.room = message.room - 1
  BY <1>1, <1>2, <1>3, ProcessedLeft
<1>5. SentWhole'
  BY <1>2, <1>3, <1>4, SentWithData
<1>6. TypeOK'
  <2>1. large' \in Nat /\ message'.room <= message.room
    BY <1>2, <1>4 DEF TypeOK, Messages
  <2> QED
    BY <1>2, <1>4, <2>1, StillTyped
<1>7. PrefetcherInv'
  <2>1. Ahead(prefetcher, Taken)'
    BY <1>2, <1>3, <1>4, StillAhead
  <2>2. Enough(prefetcher, Taken, message.room)'
    <3>1. Enough(prefetcher, Taken, message.room)' <=>
            (prefetcher'.hint < 0 => FetchedTo(prefetcher)' - Taken' > message'.room)
      BY DEF Enough
    <3>2. FetchedTo(prefetcher)' = FetchedTo(prefetcher')
      BY <1>2, SameCfg DEF FetchedTo
    <3>3. Len(sent) \in Nat /\ FetchedTo(prefetcher') \in Int /\ message.room \in Nat
      BY <1>2, <1>3, CountType DEF Ahead, TypeOK, Messages
    <3> QED
      BY <1>3, <1>4, <3>1, <3>2, <3>3
  <2> QED
    BY <1>4, <2>1, <2>2 DEF PrefetcherInv
<1> QED
  BY <1>4, <1>5, <1>6, <1>7 DEF IInv

LEMMA WriteDeleteStep ==
    ASSUME IInv, message.state = "written", message.room > 0, left # <<>>, WriteDelete,
           UNCHANGED <<cfg, there, timers, session>>
    PROVE  IInv'
<1>1. Head(left).cmd = "Delete" /\ Processed(Head(left), "none") /\ prefetcher' = prefetcher
  BY DEF WriteDelete
<1>2. TypeOK /\ LeftInv /\ SentWhole /\ session = "open" /\ cfg' = cfg
  BY DEF IInv, TypeOK
<1>3. /\ Len(sent) \in Nat /\ Len(sent) >= Count /\ Count \in Nat /\ Taken = Len(sent)
      /\ message.room \in Nat
  <2>1. Len(sent) \in Nat /\ Len(sent) >= Count /\ Count \in Nat
    BY <1>1, <1>2, NextChange, CountType
  <2>2. ~(large > 0)
    BY <1>2, <2>1 DEF LeftInv
  <2> QED
    BY <1>2, <2>1, <2>2 DEF Taken, TypeOK, Messages
<1>4. /\ LeftInv' /\ sent' \in Seq(Sent) /\ large' = 0 /\ Taken' = Len(sent) + 1
      /\ \A i \in DOMAIN sent' : \/ i \in DOMAIN sent /\ sent'[i] = sent[i]
                                 \/ sent'[i].key = Head(left).key /\ sent'[i].data = "none"
      /\ message' \in Messages /\ message'.state = message.state
      /\ message'.room = message.room - 1
  BY <1>1, <1>2, ProcessedLeft
<1>5. SentWhole'
  BY <1>2, <1>4, SentWithData
<1>6. TypeOK'
  <2>1. large' \in Nat /\ message'.room <= message.room
    BY <1>2, <1>4 DEF TypeOK, Messages
  <2> QED
    BY <1>2, <1>4, <2>1, StillTyped
<1>7. Ahead(prefetcher, Len(sent)) /\ Enough(prefetcher, Len(sent), message.room)
  BY <1>2, <1>3 DEF IInv, PrefetcherInv
<1>8. FetchedTo(prefetcher) = Count /\ prefetcher.hint >= 0
  BY <1>3, <1>7 DEF Ahead, Enough, Prefetcher
<1>9. Ahead(prefetcher, Len(sent) + 1)
  <2> DEFINE n == Len(sent)
             m == n + 1
  <2>1. KeysOf(n + 1, Count) = {} /\ KeysOf(m + 1, Count) = {}
    BY <1>3 DEF KeysOf
  <2>2. Ahead(prefetcher, n) /\ FetchedTo(prefetcher) = Count
    BY <1>7, <1>8
  <2> HIDE DEF n, m
  <2>3. DOMAIN prefetcher.fetched = KeysOf(m + 1, FetchedTo(prefetcher))
    BY <2>1, <2>2 DEF Ahead
  <2>4. Ahead(prefetcher, m)
    BY <2>2, <2>3 DEF Ahead
  <2> QED
    BY <2>4 DEF m, n
<1>10. PrefetcherInv'
  <2>1. Ahead(prefetcher, Taken)'
    BY <1>1, <1>2, <1>4, <1>9, StillAhead
  <2>2. Enough(prefetcher, Taken, message.room)'
    <3>1. prefetcher'.hint \in Int /\ ~(prefetcher'.hint < 0)
      BY <1>1, <1>7, <1>8 DEF Ahead, Prefetcher
    <3> QED
      BY <3>1 DEF Enough
  <2> QED
    BY <1>4, <2>1, <2>2 DEF PrefetcherInv
<1> QED
  BY <1>4, <1>5, <1>6, <1>10 DEF IInv

LEMMA WriteLastChunkStep ==
    ASSUME IInv, message.state = "written", message.room > 0, left # <<>>, WriteLastChunk,
           UNCHANGED <<cfg, there, timers, session>>
    PROVE  IInv'
<1>1. large > 0 /\ Processed(Head(left), "item") /\ prefetcher' = prefetcher
  BY DEF WriteLastChunk
<1>2. TypeOK /\ LeftInv /\ SentWhole /\ session = "open" /\ cfg' = cfg
  BY DEF IInv, TypeOK
<1>3. Len(sent) \in Nat /\ Taken = Len(sent) + 1 /\ message.room \in Nat
  BY <1>1, <1>2, CountType DEF Taken, TypeOK, Messages
<1>4. /\ LeftInv' /\ sent' \in Seq(Sent) /\ large' = 0 /\ Taken' = Len(sent) + 1
      /\ \A i \in DOMAIN sent' : \/ i \in DOMAIN sent /\ sent'[i] = sent[i]
                                 \/ sent'[i].key = Head(left).key /\ sent'[i].data = "item"
      /\ message' \in Messages /\ message'.state = message.state
      /\ message'.room = message.room - 1
  BY <1>1, <1>2, ProcessedLeft DEF Fetched
<1>5. SentWhole'
  BY <1>2, <1>4, SentWithData
<1>6. TypeOK'
  <2>1. large' \in Nat /\ message'.room <= message.room
    BY <1>2, <1>4 DEF TypeOK, Messages
  <2> QED
    BY <1>2, <1>4, <2>1, StillTyped
<1>7. PrefetcherInv'
  <2>1. Ahead(prefetcher, Len(sent) + 1) /\ Enough(prefetcher, Len(sent) + 1, message.room)
    BY <1>2, <1>3 DEF IInv, PrefetcherInv
  <2>2. Ahead(prefetcher, Taken)'
    BY <1>1, <1>2, <1>4, <2>1, StillAhead
  <2>3. Enough(prefetcher, Taken, message.room)'
    <3>1. FetchedTo(prefetcher)' = FetchedTo(prefetcher)
      BY <1>1, <1>2, SameCfg DEF FetchedTo
    <3>2. FetchedTo(prefetcher) \in Int
      BY <2>1 DEF Ahead
    <3> QED
      BY <1>1, <1>3, <1>4, <2>1, <3>1, <3>2 DEF Enough
  <2> QED
    BY <1>4, <2>2, <2>3 DEF PrefetcherInv
<1> QED
  BY <1>4, <1>5, <1>6, <1>7 DEF IInv

LEMMA WriteChunkStep ==
    ASSUME IInv, message.state = "written", message.room > 0, left # <<>>, WriteChunk,
           UNCHANGED <<cfg, there, timers, session>>
    PROVE  IInv'
<1> DEFINE this == Head(left)
           pg == Filled(prefetcher, this.key, cfg.max, there, cfg.omits)
<1>1. /\ this.cmd # "Delete" /\ large' = large + 1 /\ left' = left /\ sent' = sent
      /\ IF large = 0 THEN prefetcher' = Take(pg, this.key) ELSE prefetcher' = prefetcher
      /\ message' = [message EXCEPT !.cmd = @ + 1, !.state = "full"]
  BY DEF WriteChunk
<1>2. TypeOK /\ LeftInv /\ SentWhole /\ session = "open" /\ cfg' = cfg /\ there' = there
  BY DEF IInv, TypeOK
<1>3. Len(sent) \in Nat /\ large \in Nat /\ Len(sent) < Count
  BY <1>1, <1>2, CountType, NextChange DEF TypeOK
<1>4. message' \in Messages /\ message'.state = "full" /\ message'.room = message.room
  <2>1. message \in Messages /\ message.cmd + 1 \in Nat
    BY <1>2 DEF TypeOK, Messages
  <2>2. message' = [message EXCEPT !.cmd = message.cmd + 1, !.state = "full"]
    BY <1>1
  <2>3. /\ message' = [id |-> message.id, cmd |-> message.cmd + 1, room |-> message.room,
                       state |-> "full"]
        /\ message.id \in Nat /\ message.room \in Nat
    BY <2>1, <2>2 DEF Messages
  <2> QED
    BY <2>1, <2>3 DEF Messages
<1>5. TypeOK'
  <2>1. large' \in Nat /\ message'.room <= message.room /\ sent' \in Seq(Sent)
    BY <1>1, <1>2, <1>3, <1>4 DEF TypeOK, Messages
  <2> QED
    BY <1>2, <1>4, <2>1, StillTyped
<1>6. LeftInv'
  <2>1. large' > 0
    BY <1>1, <1>3
  <2> QED
    BY <1>1, <1>2, <1>3, <2>1, SameCfg DEF LeftInv
<1>7. SentWhole'
  BY <1>1, <1>2 DEF SentWhole
<1>8. Taken' = Len(sent) + 1
  BY <1>1, <1>3 DEF Taken
<1>9. Ahead(prefetcher', Len(sent) + 1)
  <2>1. CASE large = 0
    BY <1>1, <1>2, <2>1, ItemTaken
  <2>2. CASE large # 0
    <3>1. Taken = Len(sent) + 1
      BY <1>3, <2>2 DEF Taken
    <3> QED
      BY <1>1, <1>2, <2>2, <3>1 DEF IInv, PrefetcherInv
  <2> QED
    BY <2>1, <2>2
<1>10. PrefetcherInv'
  <2>1. Ahead(prefetcher, Taken)'
    BY <1>2, <1>8, <1>9, StillAhead
  <2> QED
    BY <1>4, <2>1 DEF PrefetcherInv
<1> QED
  BY <1>5, <1>6, <1>7, <1>10 DEF IInv

\* A message is begun or ended: the batch that is read next is set to a size
LEMMA BeginMessageStep ==
    ASSUME IInv, BeginMessage
    PROVE  IInv'
<1>1. /\ session = "open" /\ message.state = "sent" /\ left # <<>>
      /\ message' = [id |-> message.id + 1, cmd |-> 0, room |-> cfg.max, state |-> "written"]
      /\ UNCHANGED <<cfg, there, left, prefetcher, timers, large, session, sent>>
  BY DEF BeginMessage, package, history
<1>2. TypeOK /\ LeftInv /\ SentWhole /\ Ahead(prefetcher, Taken) /\ prefetcher.hint >= 0
  BY <1>1 DEF IInv, PrefetcherInv
<1>3. message' \in Messages /\ message'.state = "written" /\ message'.room = cfg.max
  <2>1. message.id + 1 \in Nat /\ cfg.max \in Nat
    BY <1>2, CfgType DEF TypeOK, Messages
  <2> QED
    BY <1>1, <2>1 DEF Messages
<1>4. TypeOK'
  BY <1>1, <1>2, <1>3, CfgType DEF TypeOK
<1>5. LeftInv' /\ SentWhole'
  BY <1>1, <1>2, SameCfg DEF LeftInv, SentWhole
<1>6. PrefetcherInv'
  <2>1. Taken' = Taken
    BY <1>1 DEF Taken
  <2>2. Ahead(prefetcher, Taken)'
    BY <1>1, <1>2, <2>1, StillAhead
  <2>3. Enough(prefetcher, Taken, message.room)'
    <3>1. prefetcher'.hint \in Int /\ ~(prefetcher'.hint < 0)
      BY <1>1, <1>2 DEF Ahead, Prefetcher
    <3> QED
      BY <3>1 DEF Enough
  <2> QED
    BY <1>3, <2>2, <2>3 DEF PrefetcherInv
<1> QED
  BY <1>4, <1>5, <1>6 DEF IInv

LEMMA HintSet ==
    ASSUME NEW pf, NEW taken, Ahead(pf, taken), NEW size \in Int
    PROVE  /\ Ahead(SetBatchSizeHint(pf, size), taken)
           /\ SetBatchSizeHint(pf, size).hint = size
<1> DEFINE i == pf.ids
           f == pf.fetched
           h == pf.hint
           pg == SetBatchSizeHint(pf, size)
<1>1. pf = [ids |-> i, fetched |-> f, hint |-> h] /\ pg = [pf EXCEPT !.hint = size]
  BY DEF Ahead, Prefetcher, SetBatchSizeHint
<1> HIDE DEF i, f, h, pg
<1>2. pg = [ids |-> i, fetched |-> f, hint |-> size]
  BY <1>1
<1>3. pg.ids = i /\ pg.fetched = f /\ pg.hint = size
  BY <1>2
<1>4. Prefetcher(pg)
  BY <1>2, <1>3 DEF Prefetcher
<1>5. pg.ids = pf.ids /\ pg.fetched = pf.fetched
  BY <1>3 DEF i, f
<1>6. FetchedTo(pg) = FetchedTo(pf)
  BY <1>5 DEF FetchedTo
<1>7. Ahead(pg, taken)
  BY <1>4, <1>5, <1>6 DEF Ahead, Honest
<1> QED
  BY <1>3, <1>7 DEF pg

LEMMA EndMessageStep ==
    ASSUME IInv, EndMessage
    PROVE  IInv'
<1>1. /\ message.state # "sent" /\ message' = [message EXCEPT !.state = "sent"]
      /\ IF left = <<>> THEN prefetcher' = prefetcher /\ timers' = timers
         ELSE /\ prefetcher' = SetBatchSizeHint(prefetcher, cfg.max - message.room)
              /\ timers' = timers + 1
      /\ UNCHANGED <<cfg, there, left, large, session, sent>>
  BY DEF EndMessage
<1>2. TypeOK /\ LeftInv /\ SentWhole /\ session = "open" /\ Ahead(prefetcher, Taken)
  BY <1>1 DEF IInv, PrefetcherInv, TypeOK
<1>3. message' \in Messages /\ message'.state = "sent" /\ message'.room = message.room
  BY <1>1, <1>2 DEF TypeOK, Messages
<1>4. TypeOK'
  <2>1. timers' \in Nat
    BY <1>1, <1>2 DEF TypeOK
  <2> QED
    BY <1>1, <1>2, <1>3, <2>1 DEF TypeOK
<1>5. LeftInv' /\ SentWhole'
  BY <1>1, <1>2, SameCfg DEF LeftInv, SentWhole
<1>6. cfg.max - message.room \in Int /\ cfg.max - message.room >= 0
  BY <1>2, CfgType DEF TypeOK, Messages
<1>7. Ahead(prefetcher', Taken) /\ (left # <<>> => prefetcher'.hint >= 0)
  BY <1>1, <1>2, <1>6, HintSet
<1>8. PrefetcherInv'
  <2>1. Taken' = Taken
    BY <1>1 DEF Taken
  <2>2. Ahead(prefetcher, Taken)'
    BY <1>1, <1>7, <2>1, StillAhead
  <2> QED
    BY <1>1, <1>3, <1>7, <2>2 DEF PrefetcherInv
<1> QED
  BY <1>4, <1>5, <1>8 DEF IInv

LEMMA IdlePrefetchStep ==
    ASSUME IInv, IdlePrefetch
    PROVE  IInv'
<1>1. /\ timers > 0 /\ message.state = "sent" /\ timers' = timers - 1
      /\ prefetcher' = Prefetch(prefetcher, there, cfg.omits)
      /\ UNCHANGED <<cfg, there, left, large, message, session, sent>>
  BY DEF IdlePrefetch, history
<1>2. TypeOK /\ LeftInv /\ SentWhole /\ session = "open" /\ Ahead(prefetcher, Taken)
  BY <1>1 DEF IInv, PrefetcherInv, TypeOK
<1>3. TypeOK'
  BY <1>1, <1>2 DEF TypeOK
<1>4. LeftInv' /\ SentWhole'
  BY <1>1, <1>2, SameCfg DEF LeftInv, SentWhole
<1>5. Ahead(prefetcher', Taken) /\ prefetcher'.hint = prefetcher.hint
  BY <1>1, <1>2, CountType, PrefetchAhead
<1>6. PrefetcherInv'
  <2>1. Taken' = Taken
    BY <1>1 DEF Taken
  <2>2. Ahead(prefetcher, Taken)'
    BY <1>1, <1>5, <2>1, StillAhead
  <2> QED
    BY <1>1, <1>2, <1>5, <2>2 DEF PrefetcherInv, IInv
<1> QED
  BY <1>3, <1>4, <1>6 DEF IInv

LEMMA UserRemovesStep ==
    ASSUME IInv, UserRemoves
    PROVE  IInv'
<1>1. /\ \A k \in there' : k \in there
      /\ UNCHANGED <<cfg, left, prefetcher, timers, large, message, session, sent>>
  BY DEF UserRemoves, package
<1>2. TypeOK /\ LeftInv /\ SentWhole /\ PrefetcherInv
  BY DEF IInv
<1>3. TypeOK' /\ LeftInv' /\ SentWhole'
  BY <1>1, <1>2, SameCfg DEF TypeOK, LeftInv, SentWhole
<1>4. Taken' = Taken
  BY <1>1 DEF Taken
<1>5. Ahead(prefetcher, Taken) => Ahead(prefetcher, Taken)'
  BY <1>1, <1>4, StillAhead
<1>6. Enough(prefetcher, Taken, message.room)' <=> Enough(prefetcher, Taken, message.room)
  BY <1>1, <1>4, SameCfg DEF Enough, FetchedTo
<1> QED
  BY <1>1, <1>2, <1>3, <1>5, <1>6 DEF IInv, PrefetcherInv

LEMMA ExitSyncStep ==
    ASSUME IInv, ExitSync
    PROVE  IInv'
<1>1. /\ message.state = "sent" /\ session' = "ended" /\ timers' = 0
      /\ UNCHANGED <<cfg, there, left, large, message, sent>>
  BY DEF ExitSync, history
<1> QED
  BY <1>1, SameCfg DEF IInv, TypeOK, LeftInv, PrefetcherInv, SentWhole

LEMMA HandleStatusStep ==
    ASSUME IInv, HandleStatus
    PROVE  IInv'
<1>1. UNCHANGED <<cfg, there, left, prefetcher, timers, large, message, session, sent>>
  BY DEF HandleStatus, package
<1>2. TypeOK' /\ LeftInv' /\ SentWhole'
  BY <1>1, SameCfg DEF IInv, TypeOK, LeftInv, SentWhole
<1>3. PrefetcherInv'
  BY <1>1, StillAhead DEF IInv, PrefetcherInv, Taken, Enough, FetchedTo, Count
<1> QED
  BY <1>2, <1>3 DEF IInv

LEMMA StutterStep ==
    ASSUME IInv, UNCHANGED vars
    PROVE  IInv'
<1>1. UNCHANGED <<cfg, there, left, prefetcher, timers, large, message, session, sent>>
  BY DEF vars, package, history
<1>2. TypeOK' /\ LeftInv' /\ SentWhole'
  BY <1>1, SameCfg DEF IInv, TypeOK, LeftInv, SentWhole
<1>3. PrefetcherInv'
  BY <1>1, StillAhead DEF IInv, PrefetcherInv, Taken, Enough, FetchedTo, Count
<1> QED
  BY <1>2, <1>3 DEF IInv

-----------------------------------------------------------------------------
(***************************************************************************)
(* The results                                                             *)
(***************************************************************************)
LEMMA WriteCommandStep ==
    ASSUME IInv, WriteCommand
    PROVE  IInv'
<1>1. /\ message.state = "written" /\ message.room > 0 /\ left # <<>>
      /\ UNCHANGED <<cfg, there, timers, session>>
      /\ WriteDelete \/ WriteItem \/ WriteChunk \/ WriteLastChunk
  BY DEF WriteCommand
<1> QED
  BY <1>1, WriteDeleteStep, WriteItemStep, WriteChunkStep, WriteLastChunkStep

LEMMA InitIInv == Init => IInv
<1> SUFFICES ASSUME Init PROVE IInv
  OBVIOUS
<1>1. /\ cfg \in Configs /\ session = "open" /\ left = Changes /\ timers = 0 /\ large = 0
      /\ prefetcher = NewPrefetcher(Keys(cfg.items), cfg.max) /\ sent = <<>>
      /\ message = [id |-> 0, cmd |-> 0, room |-> 0, state |-> "sent"]
  BY DEF Init
<1>2. sent \in Seq(Sent) /\ Len(sent) = 0 /\ DOMAIN sent = {}
  BY <1>1, EmptySeq
<1>3. TypeOK
  <2>1. message \in Messages /\ message.room = 0
    BY <1>1 DEF Messages
  <2>2. cfg.max \in Nat
    BY <1>1, ConfigsAssumption DEF Cfg
  <2> QED
    BY <1>1, <1>2, <2>1, <2>2 DEF TypeOK
<1>4. LeftInv
  <2>1. SubSeq(Changes, 1, Len(Changes)) = Changes /\ Len(Changes) \in Nat
    BY <1>3, ChangesAre, SubSeqFull
  <2>2. Len(sent) + 1 = 1 /\ ~(large > 0)
    BY <1>1, <1>2
  <2> QED
    BY <1>1, <1>2, <2>1, <2>2 DEF LeftInv
<1>5. SentWhole
  BY <1>2 DEF SentWhole
<1>6. Ahead(prefetcher, 0) /\ prefetcher.hint >= 0
  <2>1. /\ prefetcher = [ids |-> Keys(cfg.items), fetched |-> << >>, hint |-> cfg.max]
        /\ cfg.max \in Nat
    BY <1>1, <1>3, CfgType DEF NewPrefetcher
  <2>2. /\ prefetcher.ids = Keys(cfg.items) /\ prefetcher.fetched = << >>
        /\ prefetcher.hint = cfg.max
    BY <2>1
  <2>3. Prefetcher(prefetcher) /\ prefetcher.hint >= 0
    BY <2>1, <2>2 DEF Prefetcher
  <2>4. FetchedTo(prefetcher) = 0 /\ Count \in Nat
    BY <1>3, <2>2, KeysAre, CountType DEF FetchedTo
  <2>5. SubSeq(Keys(cfg.items), 0 + 1, Count) = Keys(cfg.items)
    BY <1>3, KeysAre, SubSeqFull
  <2>6. DOMAIN prefetcher.fetched = {} /\ KeysOf(0 + 1, 0) = {}
    BY <2>2 DEF KeysOf
  <2> QED
    BY <2>2, <2>3, <2>4, <2>5, <2>6 DEF Ahead, Honest
<1>7. PrefetcherInv
  <2>1. Taken = 0
    BY <1>1, <1>2 DEF Taken
  <2> QED
    BY <1>1, <1>6, <2>1 DEF PrefetcherInv
<1> QED
  BY <1>3, <1>4, <1>5, <1>7 DEF IInv

LEMMA NextIInv ==
    ASSUME IInv, [Next]_vars
    PROVE  IInv'
BY BeginMessageStep, WriteCommandStep, EndMessageStep, IdlePrefetchStep, HandleStatusStep,
   ExitSyncStep, UserRemovesStep, StutterStep DEF Next

\* What is sent and what is left are the two parts of the changes
LEMMA LeftMeansOnce ==
    ASSUME TypeOK, LeftInv
    PROVE  SentOnce
<1> DEFINE n == Len(sent)
           l == Len(Changes)
           first == [i \in DOMAIN sent |-> sent[i].key]
           second == Keys(left)
<1>1. n \in Nat /\ l \in Nat /\ n <= l /\ DOMAIN sent = 1 .. n
  BY CountType, ChangesAre, LenProperties DEF LeftInv, TypeOK
<1>2. \A i \in 1 .. l : Changes[i] \in Change(Types) /\ Changes[i].key \in STRING
  <2>1. \A c \in Change(Types) : c.key \in STRING
    BY DEF Change
  <2> QED
    BY <2>1, ChangesAre, ElementOfSeq
<1>3. \A i \in 1 .. n : sent[i].key = Changes[i].key
  BY <1>1 DEF LeftInv
<1>4. left = SubSeq(Changes, n + 1, l)
  BY DEF LeftInv
<1> HIDE DEF n, l
<1>5. first \in Seq(STRING) /\ Len(first) = n /\ \A i \in 1 .. n : first[i] = Changes[i].key
  <2>1. first = [i \in 1 .. n |-> sent[i].key] /\ \A i \in 1 .. n : sent[i].key \in STRING
    BY <1>1, <1>2, <1>3
  <2> HIDE DEF first
  <2> QED
    BY <1>1, <1>3, <2>1
<1>6. /\ second \in Seq(STRING) /\ Len(second) = l - n
      /\ \A i \in 1 .. l - n : second[i] = Changes[n + i].key
  <2>1. \A i \in n + 1 .. l : Changes[i] \in Change(Types)
    BY <1>1, <1>2
  <2>2. /\ left \in Seq(Change(Types)) /\ Len(left) = l - n
        /\ \A i \in 1 .. l - n : left[i] = Changes[n + i]
    BY <1>1, <1>4, <2>1, PartIs
  <2>3. DOMAIN left = 1 .. l - n
    BY <2>2, LenProperties
  <2>4. second = [i \in 1 .. l - n |-> left[i].key]
    BY <2>3 DEF Keys
  <2>5. \A i \in 1 .. l - n : left[i].key \in STRING /\ left[i].key = Changes[n + i].key
    BY <1>1, <1>2, <2>2
  <2>6. l - n \in Nat
    BY <1>1
  <2> HIDE DEF second
  <2> QED
    BY <2>4, <2>5, <2>6
<1>7. /\ Keys(Changes) \in Seq(STRING) /\ Len(Keys(Changes)) = l
      /\ \A i \in 1 .. l : Keys(Changes)[i] = Changes[i].key
  <2>1. DOMAIN Changes = 1 .. l
    BY ChangesAre, LenProperties DEF l
  <2>2. Keys(Changes) = [i \in 1 .. l |-> Changes[i].key]
    BY <2>1 DEF Keys
  <2> QED
    BY <1>1, <1>2, <2>2
<1> HIDE DEF first, second
<1> DEFINE both == first \o second
<1>8. /\ both \in Seq(STRING) /\ Len(both) = Len(first) + Len(second)
      /\ \A i \in 1 .. Len(first) + Len(second) :
             both[i] = IF i <= Len(first) THEN first[i] ELSE second[i - Len(first)]
  BY <1>5, <1>6, ConcatProperties
<1> HIDE DEF both
<1>9. both \in Seq(STRING) /\ Len(both) = l /\ Len(first) + Len(second) = l
  BY <1>1, <1>5, <1>6, <1>8
<1>10. \A i \in 1 .. l : both[i] = Changes[i].key
  <2> SUFFICES ASSUME NEW i \in 1 .. l PROVE both[i] = Changes[i].key
    OBVIOUS
  <2>1. i \in 1 .. Len(first) + Len(second) /\ Len(first) = n
    BY <1>1, <1>5, <1>9
  <2>2. both[i] = IF i <= n THEN first[i] ELSE second[i - n]
    BY <1>8, <2>1
  <2>3. CASE i <= n
    BY <1>1, <1>5, <2>2, <2>3
  <2>4. CASE ~(i <= n)
    <3>1. i - n \in 1 .. l - n /\ n + (i - n) = i
      BY <1>1, <2>4
    <3> QED
      BY <1>6, <2>2, <2>4, <3>1
  <2> QED
    BY <2>3, <2>4
<1>11. Keys(Changes) = both
  BY <1>7, <1>9, <1>10, SeqEqual
<1> QED
  BY <1>11 DEF SentOnce, both, first, second

\* The invariant of the specification, from which both results follow.
THEOREM SendingInvariant == Spec => []IInv
<1>1. IInv /\ [Next]_vars => IInv'
  BY NextIInv
<1> QED
  BY <1>1, InitIInv, PTL DEF Spec

(***************************************************************************)
(* A command is sent for each change, once and in order, but for those     *)
(* that are left: LocalChangesPackage takes its lists down by one change   *)
(* for each command it has written, over any number of messages.           *)
(***************************************************************************)
THEOREM OnceInOrder == Spec => []SentOnce
<1>1. IInv => SentOnce
  BY LeftMeansOnce DEF IInv
<1> QED
  BY <1>1, SendingInvariant, PTL

(***************************************************************************)
(* SyncItemPrefetcher comes back with an item whenever the plug-in has it, *)
(* for any batch it was told to read, of no items or less as well: no      *)
(* command goes out without the data of an item that is there.             *)
(***************************************************************************)
THEOREM WithTheirData == Spec => []SentWhole
<1>1. IInv => SentWhole
  BY DEF IInv
<1> QED
  BY <1>1, SendingInvariant, PTL

=============================================================================
