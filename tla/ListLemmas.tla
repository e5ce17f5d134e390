----------------------------- MODULE ListLemmas -----------------------------
(***************************************************************************)
(* Lemmas about the lists of the models: what the operators on sequences   *)
(* return (InsertAt is list_add_tail before an entry, RemoveAt list_del),  *)
(* and what the operations of lib/ranges.c do to an ordered list, for      *)
(* every list and every interval: adding and removing keep the order, and  *)
(* the list covers what the set operation says.                            *)
(***************************************************************************)
EXTENDS Ranges, WellFoundedInduction, SequenceTheorems, TLAPS

(* A set of naturals has a least element.                                  *)
LEMMA NatMin ==
    ASSUME NEW T, T \subseteq Nat, T # {}
    PROVE  \E x \in T : \A y \in T : x =< y
<1>1. PICK x \in T : \A y \in T : ~ (<<y, x>> \in OpToRel(<, Nat))
  BY NatLessThanWellFounded, WFMin
<1>2. ASSUME NEW y \in T PROVE x =< y
  <2>1. y < x => <<y, x>> \in OpToRel(<, Nat)
    BY DEF OpToRel
  <2>2. ~(y < x)
    BY <1>1, <2>1, Zenon
  <2> QED
    BY <2>2
<1> QED
  BY <1>2

(* Min, with which SelectInSeq picks a position, is that element.          *)
LEMMA MinFacts ==
    ASSUME NEW T, T \subseteq Nat, T # {}
    PROVE  Min(T) \in T /\ \A y \in T : Min(T) =< y
BY NatMin DEF Min

(* The elements of a concatenation.                                        *)
LEMMA ConcatFacts ==
    ASSUME NEW S, NEW a \in Seq(S), NEW b \in Seq(S)
    PROVE  /\ a \o b \in Seq(S) /\ Len(a \o b) = Len(a) + Len(b)
           /\ \A j \in 1 .. Len(a) + Len(b) : (a \o b)[j] = IF j <= Len(a) THEN a[j] ELSE b[j - Len(a)]
OBVIOUS

(* The elements after an insertion.                                        *)
LEMMA InsertAtFacts ==
    ASSUME NEW S, NEW s \in Seq(S), NEW i \in 1 .. Len(s) + 1, NEW e \in S
    PROVE  /\ InsertAt(s, i, e) \in Seq(S) /\ Len(InsertAt(s, i, e)) = Len(s) + 1
           /\ \A j \in 1 .. Len(s) + 1 :
                InsertAt(s, i, e)[j] = IF j < i THEN s[j] ELSE IF j = i THEN e ELSE s[j - 1]
<1> DEFINE a == SubSeq(s, 1, i - 1)
           b == SubSeq(s, i, Len(s))
<1>1. a \in Seq(S) /\ Len(a) = i - 1 /\ \A j \in 1 .. i - 1 : a[j] = s[j]
  <2>1. \A j \in 1 .. i - 1 : s[j] \in S
    OBVIOUS
  <2>2. /\ a \in Seq(S) /\ Len(a) = IF 1 <= i - 1 THEN i - 1 - 1 + 1 ELSE 0
        /\ \A j \in 1 .. i - 1 - 1 + 1 : a[j] = s[1 + j - 1]
    BY <2>1, SubSeqProperties
  <2> QED
    BY <2>2
<1>2. b \in Seq(S) /\ Len(b) = Len(s) - i + 1 /\ \A j \in 1 .. Len(s) - i + 1 : b[j] = s[i + j - 1]
  <2>1. \A j \in i .. Len(s) : s[j] \in S
    OBVIOUS
  <2>2. /\ b \in Seq(S) /\ Len(b) = IF i <= Len(s) THEN Len(s) - i + 1 ELSE 0
        /\ \A j \in 1 .. Len(s) - i + 1 : b[j] = s[i + j - 1]
    BY <2>1, SubSeqProperties
  <2> QED
    BY <2>2
<1> HIDE DEF a, b
<1>3. InsertAt(s, i, e) = (a \o <<e>>) \o b
  BY DEF InsertAt, a, b
<1> DEFINE c == a \o <<e>>
<1>4. c \in Seq(S) /\ Len(c) = i /\ \A j \in 1 .. i : c[j] = IF j < i THEN s[j] ELSE e
  BY <1>1, SMTT(30)
<1> HIDE DEF c
<1>5. c \o b \in Seq(S) /\ Len(c \o b) = Len(c) + Len(b)
  BY <1>2, <1>4, ConcatFacts
<1>6. \A j \in 1 .. Len(c) + Len(b) : (c \o b)[j] = IF j <= Len(c) THEN c[j] ELSE b[j - Len(c)]
  BY <1>2, <1>4
<1>7. ASSUME NEW j \in 1 .. Len(s) + 1
      PROVE  (c \o b)[j] = IF j < i THEN s[j] ELSE IF j = i THEN e ELSE s[j - 1]
  <2>1. CASE j <= i
    BY <2>1, <1>2, <1>4, <1>6
  <2>2. CASE j > i
    <3>1. (c \o b)[j] = b[j - i] /\ j - i \in 1 .. Len(s) - i + 1
      BY <2>2, <1>2, <1>4, <1>6
    <3>2. b[j - i] = s[i + (j - i) - 1]
      BY <3>1, <1>2
    <3> QED
      BY <2>2, <3>1, <3>2, SMTT(30)
  <2>3. j <= i \/ j > i
    OBVIOUS
  <2> QED
    BY <2>1, <2>2, <2>3, Zenon
<1>8. Len(c \o b) = Len(s) + 1
  BY <1>2, <1>4, <1>5
<1> QED
  BY <1>3, <1>5, <1>7, <1>8 DEF c

(* t is s with e inserted at i.                                            *)
Inserted(t, s, i, e) ==
    /\ Len(t) = Len(s) + 1
    /\ \A j \in 1 .. Len(s) + 1 : t[j] = IF j < i THEN s[j] ELSE IF j = i THEN e ELSE s[j - 1]

(* The same, with its conclusion as a predicate.                           *)
LEMMA Inserts ==
    ASSUME NEW S, NEW s \in Seq(S), NEW i \in 1 .. Len(s) + 1, NEW e \in S
    PROVE  InsertAt(s, i, e) \in Seq(S) /\ Inserted(InsertAt(s, i, e), s, i, e)
BY InsertAtFacts DEF Inserted

(* The elements after a removal.                                           *)
LEMMA RemoveAtFacts ==
    ASSUME NEW S, NEW s \in Seq(S), NEW i \in 1 .. Len(s)
    PROVE  /\ RemoveAt(s, i) \in Seq(S) /\ Len(RemoveAt(s, i)) = Len(s) - 1
           /\ \A j \in 1 .. Len(s) - 1 : RemoveAt(s, i)[j] = IF j < i THEN s[j] ELSE s[j + 1]
<1> DEFINE a == SubSeq(s, 1, i - 1)
           b == SubSeq(s, i + 1, Len(s))
<1>1. a \in Seq(S) /\ Len(a) = i - 1 /\ \A j \in 1 .. i - 1 : a[j] = s[j]
  <2>1. \A j \in 1 .. i - 1 : s[j] \in S
    OBVIOUS
  <2>2. /\ a \in Seq(S) /\ Len(a) = IF 1 <= i - 1 THEN i - 1 - 1 + 1 ELSE 0
        /\ \A j \in 1 .. i - 1 - 1 + 1 : a[j] = s[1 + j - 1]
    BY <2>1, SubSeqProperties
  <2> QED
    BY <2>2
<1>2. b \in Seq(S) /\ Len(b) = Len(s) - i /\ \A j \in 1 .. Len(s) - i : b[j] = s[i + j]
  <2>1. \A j \in i + 1 .. Len(s) : s[j] \in S
    OBVIOUS
  <2>2. /\ b \in Seq(S) /\ Len(b) = IF i + 1 <= Len(s) THEN Len(s) - (i + 1) + 1 ELSE 0
        /\ \A j \in 1 .. Len(s) - (i + 1) + 1 : b[j] = s[(i + 1) + j - 1]
    BY <2>1, SubSeqProperties
  <2> QED
    BY <2>2
<1> HIDE DEF a, b
<1>3. RemoveAt(s, i) = a \o b
  BY DEF RemoveAt, a, b
<1>4. a \o b \in Seq(S) /\ Len(a \o b) = Len(s) - 1
  BY <1>1, <1>2
<1>5. \A j \in 1 .. Len(s) - 1 : (a \o b)[j] = IF j <= Len(a) THEN a[j] ELSE b[j - Len(a)]
  BY <1>1, <1>2
<1>6. ASSUME NEW j \in 1 .. Len(s) - 1
      PROVE  (a \o b)[j] = IF j < i THEN s[j] ELSE s[j + 1]
  <2>1. CASE j < i
    BY <2>1, <1>1, <1>5
  <2>2. CASE j >= i
    <3>1. (a \o b)[j] = b[j - (i - 1)] /\ j - (i - 1) \in 1 .. Len(s) - i
      BY <2>2, <1>1, <1>2, <1>5
    <3>2. b[j - (i - 1)] = s[i + (j - (i - 1))]
      BY <3>1, <1>2
    <3> QED
      BY <2>2, <3>1, <3>2
  <2>3. j < i \/ j >= i
    OBVIOUS
  <2> QED
    BY <2>1, <2>2, <2>3, Zenon
<1> QED
  BY <1>3, <1>4, <1>6

(* Appending to a sequence of one.                                         *)
LEMMA Append2 ==
    ASSUME NEW S, NEW a \in S, NEW b \in S
    PROVE  Append(<<a>>, b) = <<a, b>>
<1> DEFINE X == Append(<<a>>, b)
           Y == <<a, b>>
<1>1. <<a>> \in Seq(S) /\ Y \in Seq(S)
  OBVIOUS
<1>2. X \in Seq(S) /\ Len(X) = 2 /\ X[1] = a /\ X[2] = b
  BY <1>1
<1>3. Len(Y) = 2 /\ Y[1] = a /\ Y[2] = b
  BY <1>1
<1> HIDE DEF X, Y
<1>4. \A i \in 1 .. 2 : X[i] = Y[i]
  BY <1>2, <1>3
<1>5. X = Y
  BY <1>1, <1>2, <1>3, <1>4
<1> QED
  BY <1>5 DEF X, Y

(* Appending to a sequence of two.                                         *)
LEMMA Append3 ==
    ASSUME NEW S, NEW a \in S, NEW b \in S, NEW c \in S
    PROVE  Append(<<a, b>>, c) = <<a, b, c>>
<1> DEFINE X == Append(<<a, b>>, c)
           Y == <<a, b, c>>
<1>1. <<a, b>> \in Seq(S) /\ Y \in Seq(S)
  OBVIOUS
<1>2. X \in Seq(S) /\ Len(X) = 3 /\ X[1] = a /\ X[2] = b /\ X[3] = c
  BY <1>1
<1>3. Len(Y) = 3 /\ Y[1] = a /\ Y[2] = b /\ Y[3] = c
  BY <1>1
<1> HIDE DEF X, Y
<1>4. \A i \in 1 .. 3 : X[i] = Y[i]
  BY <1>2, <1>3
<1>5. X = Y
  BY <1>1, <1>2, <1>3, <1>4
<1> QED
  BY <1>5 DEF X, Y

-----------------------------------------------------------------------------
(* Elements of S are ranges, possibly with other fields.                   *)
Bounded(S) == \A e \in S : e.base \in Int /\ e.limit \in Int

(* x is in some range of the list.                                         *)
Has(rs, x) == \E i \in 1 .. Len(rs) : rs[i].base <= x /\ x <= rs[i].limit

(* The addresses of a list, as a predicate.                                *)
LEMMA CoveredHas ==
    ASSUME NEW S, Bounded(S), NEW rs \in Seq(S)
    PROVE  Covered(rs) = {x \in Int : Has(rs, x)}
<1>1. \A i \in 1 .. Len(rs) : rs[i].base \in Int /\ rs[i].limit \in Int
  BY DEF Bounded
<1>2. DOMAIN rs = 1 .. Len(rs)
  OBVIOUS
<1>3. ASSUME NEW x PROVE x \in Covered(rs) <=> x \in Int /\ Has(rs, x)
  <2>1. x \in Covered(rs) <=> \E i \in 1 .. Len(rs) : x \in rs[i].base .. rs[i].limit
    BY <1>2 DEF Covered, RngSpan
  <2> QED
    BY <1>1, <2>1 DEF Has
<1> QED
  BY <1>3

(* Order, with the domain of a list written out.                           *)
LEMMA OrderedFacts ==
    ASSUME NEW S, NEW rs \in Seq(S)
    PROVE  Ordered(rs) <=>
             /\ \A i \in 1 .. Len(rs) : rs[i].base <= rs[i].limit
             /\ \A i, j \in 1 .. Len(rs) : i < j => rs[i].limit < rs[j].base
BY DEF Ordered

-----------------------------------------------------------------------------
(* Replacing a range by a part of it.                                      *)
LEMMA Shrink ==
    ASSUME NEW S, Bounded(S), NEW rs \in Seq(S), Ordered(rs), NEW p \in 1 .. Len(rs),
           NEW e \in S, rs[p].base <= e.base, e.base <= e.limit, e.limit <= rs[p].limit,
           NEW t, t = ReplaceAt(rs, p, e)
    PROVE  /\ t \in Seq(S) /\ Len(t) = Len(rs) /\ Ordered(t)
           /\ \A i \in 1 .. Len(rs) : t[i] = IF i = p THEN e ELSE rs[i]
<1>1. t \in Seq(S) /\ Len(t) = Len(rs) /\ \A i \in 1 .. Len(rs) : t[i] = IF i = p THEN e ELSE rs[i]
  BY DEF ReplaceAt
<1>2. \A i \in 1 .. Len(rs) : rs[i].base \in Int /\ rs[i].limit \in Int /\ rs[i].base <= rs[i].limit
  BY OrderedFacts DEF Bounded
<1>3. e.base \in Int /\ e.limit \in Int
  BY DEF Bounded
<1>4. \A i \in 1 .. Len(t) : t[i].base <= t[i].limit
  BY <1>1, <1>2, <1>3
<1>5. ASSUME NEW i \in 1 .. Len(t), NEW j \in 1 .. Len(t), i < j PROVE t[i].limit < t[j].base
  <2>1. i \in 1 .. Len(rs) /\ j \in 1 .. Len(rs) /\ rs[i].limit < rs[j].base
    BY <1>1, <1>5, OrderedFacts
  <2>2. t[i].limit <= rs[i].limit /\ t[i].limit \in Int
    BY <1>1, <1>2, <1>3, <2>1
  <2>3. rs[j].base <= t[j].base /\ t[j].base \in Int
    BY <1>1, <1>2, <1>3, <2>1
  <2> QED
    BY <1>2, <2>1, <2>2, <2>3, SMTT(30)
<1>6. Ordered(t)
  BY <1>1, <1>4, <1>5, OrderedFacts
<1> QED
  BY <1>1, <1>6

(* Deleting a range.                                                       *)
LEMMA Delete ==
    ASSUME NEW S, Bounded(S), NEW rs \in Seq(S), Ordered(rs), NEW p \in 1 .. Len(rs),
           NEW t, t = RemoveAt(rs, p)
    PROVE  /\ t \in Seq(S) /\ Len(t) = Len(rs) - 1 /\ Ordered(t)
           /\ \A i \in 1 .. Len(rs) - 1 : t[i] = IF i < p THEN rs[i] ELSE rs[i + 1]
<1>1. /\ t \in Seq(S) /\ Len(t) = Len(rs) - 1
      /\ \A i \in 1 .. Len(rs) - 1 : t[i] = IF i < p THEN rs[i] ELSE rs[i + 1]
  BY RemoveAtFacts
<1>2. \A i \in 1 .. Len(rs) : rs[i].base <= rs[i].limit
  BY OrderedFacts
<1>3. \A i \in 1 .. Len(t) : t[i].base <= t[i].limit
  BY <1>1, <1>2
<1>4. ASSUME NEW i \in 1 .. Len(t), NEW j \in 1 .. Len(t), i < j PROVE t[i].limit < t[j].base
  <2>1. PICK a \in 1 .. Len(rs) : t[i] = rs[a] /\ a = IF i < p THEN i ELSE i + 1
    BY <1>1
  <2>2. PICK b \in 1 .. Len(rs) : t[j] = rs[b] /\ b = IF j < p THEN j ELSE j + 1
    BY <1>1
  <2>3. a < b
    BY <2>1, <2>2, <1>1, <1>4
  <2>4. rs[a].limit < rs[b].base
    BY <2>3, OrderedFacts
  <2> QED
    BY <2>1, <2>2, <2>4
<1>5. Ordered(t)
  BY <1>1, <1>3, <1>4, OrderedFacts
<1> QED
  BY <1>1, <1>5

(* Inserting a range between two others.                                   *)
Slot(rs, p, e) ==
    /\ \A i \in 1 .. Len(rs) : i < p => rs[i].limit < e.base
    /\ \A i \in 1 .. Len(rs) : i >= p => e.limit < rs[i].base

(* Inserting a range between its neighbours keeps the order.               *)
LEMMA Between ==
    ASSUME NEW S, Bounded(S), NEW rs \in Seq(S), Ordered(rs), NEW p \in 1 .. Len(rs) + 1,
           NEW e \in S, e.base <= e.limit, Slot(rs, p, e)
    PROVE  /\ InsertAt(rs, p, e) \in Seq(S) /\ Ordered(InsertAt(rs, p, e))
           /\ Inserted(InsertAt(rs, p, e), rs, p, e)
<1> SUFFICES ASSUME NEW t, t = InsertAt(rs, p, e) PROVE t \in Seq(S) /\ Ordered(t) /\ Inserted(t, rs, p, e)
  OBVIOUS
<1>0. /\ \A i \in 1 .. Len(rs) : i < p => rs[i].limit < e.base
      /\ \A i \in 1 .. Len(rs) : i >= p => e.limit < rs[i].base
  BY DEF Slot
<1>1. /\ t \in Seq(S) /\ Len(t) = Len(rs) + 1
      /\ \A i \in 1 .. Len(rs) + 1 : t[i] = IF i < p THEN rs[i] ELSE IF i = p THEN e ELSE rs[i - 1]
  <2>1. t \in Seq(S) /\ Inserted(t, rs, p, e)
    BY Inserts
  <2> QED
    BY <2>1 DEF Inserted
<1>2. \A i \in 1 .. Len(rs) : rs[i].base <= rs[i].limit
  BY OrderedFacts
<1>3. ASSUME NEW i \in 1 .. Len(t) PROVE t[i].base <= t[i].limit
  <2>0. i \in 1 .. Len(rs) + 1
    BY <1>1
  <2>1. CASE i < p
    <3>1. i \in 1 .. Len(rs) /\ t[i] = rs[i]
      BY <2>0, <2>1, <1>1
    <3> QED
      BY <3>1, <1>2
  <2>2. CASE i = p
    <3>1. t[i] = e
      BY <2>0, <2>2, <1>1
    <3> QED
      BY <3>1
  <2>3. CASE i > p
    <3>1. i - 1 \in 1 .. Len(rs) /\ t[i] = rs[i - 1]
      BY <2>0, <2>3, <1>1
    <3> QED
      BY <3>1, <1>2
  <2> QED
    BY <2>0, <2>1, <2>2, <2>3
<1>4. ASSUME NEW i \in 1 .. Len(t), NEW j \in 1 .. Len(t), i < j PROVE t[i].limit < t[j].base
  <2>0. i \in 1 .. Len(rs) + 1 /\ j \in 1 .. Len(rs) + 1
    BY <1>1
  <2>1. CASE i = p
    <3>1. t[i] = e /\ t[j] = rs[j - 1] /\ j - 1 >= p /\ j - 1 \in 1 .. Len(rs)
      BY <2>0, <2>1, <1>1, <1>4
    <3> QED
      BY <3>1, <1>0
  <2>2. CASE j = p
    <3>1. t[j] = e /\ t[i] = rs[i] /\ i < p /\ i \in 1 .. Len(rs)
      BY <2>0, <2>2, <1>1, <1>4
    <3> QED
      BY <3>1, <1>0
  <2>3. CASE i # p /\ j # p
    <3>0. \A k \in 1 .. Len(rs) + 1 : k # p =>
             (IF k < p THEN k ELSE k - 1) \in 1 .. Len(rs) /\ t[k] = rs[IF k < p THEN k ELSE k - 1]
      <4> SUFFICES ASSUME NEW k \in 1 .. Len(rs) + 1, k # p
                   PROVE  (IF k < p THEN k ELSE k - 1) \in 1 .. Len(rs) /\ t[k] = rs[IF k < p THEN k ELSE k - 1]
        OBVIOUS
      <4>1. CASE k < p
        BY <4>1, <1>1
      <4>2. CASE k > p
        BY <4>2, <1>1
      <4> QED
        BY <4>1, <4>2
    <3>1. PICK a \in 1 .. Len(rs) : t[i] = rs[a] /\ a = IF i < p THEN i ELSE i - 1
      BY <2>0, <2>3, <3>0
    <3>2. PICK b \in 1 .. Len(rs) : t[j] = rs[b] /\ b = IF j < p THEN j ELSE j - 1
      BY <2>0, <2>3, <3>0
    <3>3. a < b
      BY <3>1, <3>2, <2>0, <2>3, <1>4
    <3>4. rs[a].limit < rs[b].base
      BY <3>3, OrderedFacts
    <3> QED
      BY <3>1, <3>2, <3>4
  <2> QED
    BY <2>1, <2>2, <2>3, Zenon
<1>5. Ordered(t)
  BY <1>1, <1>3, <1>4, OrderedFacts
<1> QED
  BY <1>1, <1>5 DEF Inserted

-----------------------------------------------------------------------------
(* range_add.                                                              *)
LEMMA AddPositionFacts ==
    ASSUME NEW S, Bounded(S), NEW rs \in Seq(S), Ordered(rs), NEW limit \in Int,
           NEW p, p = AddPosition(rs, limit)
    PROVE  /\ p \in 1 .. Len(rs) + 1
           /\ \A i \in 1 .. Len(rs) : i < p => rs[i].base <= limit
           /\ \A i \in 1 .. Len(rs) : i >= p => limit < rs[i].base
<1> DEFINE later == {i \in DOMAIN rs : rs[i].base > limit}
<1>1. p = IF later = {} THEN Len(rs) + 1 ELSE CHOOSE i \in later : \A j \in later : i <= j
  BY DEF AddPosition
<1>2. \A i \in 1 .. Len(rs) : rs[i].base \in Int /\ rs[i].limit \in Int
  BY DEF Bounded
<1>3. CASE later = {}
  <2>1. p = Len(rs) + 1
    BY <1>1, <1>3
  <2>2. \A i \in 1 .. Len(rs) : rs[i].base <= limit
    BY <1>2, <1>3
  <2> QED
    BY <2>1, <2>2
<1>4. CASE later # {}
  <2>1. later \subseteq Nat
    OBVIOUS
  <2> HIDE DEF later
  <2>2. \E i \in later : \A j \in later : i <= j
    BY <1>4, <2>1, NatMin
  <2>3. p \in later /\ \A j \in later : p <= j
    BY <1>1, <1>4, <2>2
  <2> USE DEF later
  <2>4. p \in 1 .. Len(rs) /\ rs[p].base > limit
    BY <2>3
  <2>5. \A i \in 1 .. Len(rs) : i < p => rs[i].base <= limit
    BY <1>2, <2>3, <2>4
  <2>6. ASSUME NEW i \in 1 .. Len(rs), i >= p PROVE limit < rs[i].base
    <3>1. CASE i = p
      BY <3>1, <2>4
    <3>2. CASE i > p
      <4>1. rs[p].limit < rs[i].base /\ rs[p].base <= rs[p].limit
        BY <3>2, <2>4, OrderedFacts
      <4> QED
        BY <4>1, <2>4, <1>2
    <3> QED
      BY <3>1, <3>2, <2>4, <2>6
  <2> QED
    BY <2>4, <2>5, <2>6
<1> QED
  BY <1>3, <1>4

(* A range that overlaps none is added in order, and no BUG_ON fires if it *)
(* has more than one address.                                              *)
LEMMA AddsRange ==
    ASSUME NEW S, Bounded(S), NEW rs \in Seq(S), Ordered(rs),
           NEW base \in Int, NEW limit \in Int, base <= limit,
           \A i \in 1 .. Len(rs) : rs[i].limit < base \/ limit < rs[i].base,
           NEW e \in S, e.base = base, e.limit = limit,
           NEW t, t = InsertAt(rs, AddPosition(rs, limit), e)
    PROVE  /\ t \in Seq(S) /\ Ordered(t)
           /\ \A x \in Int : Has(t, x) <=> Has(rs, x) \/ (base <= x /\ x <= limit)
           /\ base < limit => ~AddBug(rs, base, limit)
<1> DEFINE p == AddPosition(rs, limit)
<1>1. /\ p \in 1 .. Len(rs) + 1
      /\ \A i \in 1 .. Len(rs) : i < p => rs[i].base <= limit
      /\ \A i \in 1 .. Len(rs) : i >= p => limit < rs[i].base
  BY AddPositionFacts
<1> HIDE DEF p
<1>2. \A i \in 1 .. Len(rs) : rs[i].base \in Int /\ rs[i].limit \in Int /\ rs[i].base <= rs[i].limit
  BY OrderedFacts DEF Bounded
<1>3. \A i \in 1 .. Len(rs) : i < p => rs[i].limit < e.base
  BY <1>1, <1>2
<1>4. \A i \in 1 .. Len(rs) : i >= p => e.limit < rs[i].base
  BY <1>1
<1>5. t = InsertAt(rs, p, e)
  BY DEF p
<1>6. /\ t \in Seq(S) /\ Len(t) = Len(rs) + 1 /\ Ordered(t)
      /\ \A i \in 1 .. Len(rs) + 1 : t[i] = IF i < p THEN rs[i] ELSE IF i = p THEN e ELSE rs[i - 1]
  <2>1. Slot(rs, p, e)
    BY <1>3, <1>4 DEF Slot
  <2>2. t \in Seq(S) /\ Ordered(t) /\ Inserted(t, rs, p, e)
    BY <1>1, <1>5, <2>1, Between
  <2> QED
    BY <2>2 DEF Inserted
<1>7. ASSUME NEW x \in Int PROVE Has(t, x) <=> Has(rs, x) \/ (base <= x /\ x <= limit)
  <2>1. ASSUME Has(t, x) PROVE Has(rs, x) \/ (base <= x /\ x <= limit)
    <3>1. PICK i \in 1 .. Len(rs) + 1 : t[i].base <= x /\ x <= t[i].limit
      BY <2>1, <1>6 DEF Has
    <3>2. CASE i < p
      <4>1. t[i] = rs[i] /\ i \in 1 .. Len(rs)
        BY <3>2, <1>1, <1>6
      <4> QED
        BY <3>1, <4>1 DEF Has
    <3>3. CASE i = p
      <4>1. t[i] = e
        BY <3>3, <1>6
      <4> QED
        BY <3>1, <4>1
    <3>4. CASE i > p
      <4>1. t[i] = rs[i - 1] /\ i - 1 \in 1 .. Len(rs)
        BY <3>4, <1>1, <1>6
      <4> QED
        BY <3>1, <4>1 DEF Has
    <3> QED
      BY <3>2, <3>3, <3>4, <1>1
  <2>2. ASSUME Has(rs, x) PROVE Has(t, x)
    <3>1. PICK i \in 1 .. Len(rs) : rs[i].base <= x /\ x <= rs[i].limit
      BY <2>2 DEF Has
    <3>2. CASE i < p
      <4>1. t[i] = rs[i] /\ i \in 1 .. Len(t)
        BY <3>2, <1>6
      <4> QED
        BY <3>1, <4>1 DEF Has
    <3>3. CASE i >= p
      <4>1. i + 1 \in 1 .. Len(t) /\ i + 1 \in 1 .. Len(rs) + 1 /\ i + 1 # p /\ ~(i + 1 < p) /\ i + 1 - 1 = i
        BY <3>3, <1>1, <1>6
      <4>2. t[i + 1] = rs[i]
        BY <4>1, <1>6
      <4> QED
        BY <3>1, <4>1, <4>2 DEF Has
    <3> QED
      BY <3>2, <3>3, <1>1
  <2>3. ASSUME base <= x, x <= limit PROVE Has(t, x)
    <3>1. p \in 1 .. Len(t) /\ t[p] = e
      BY <1>1, <1>6
    <3> QED
      BY <2>3, <3>1 DEF Has
  <2> QED
    BY <2>1, <2>2, <2>3
<1>8. ASSUME base < limit PROVE ~AddBug(rs, base, limit)
  <2>1. \A i \in DOMAIN rs : ~(base >= rs[i].base /\ limit <= rs[i].limit)
    BY <1>2
  <2> QED
    BY <1>8, <2>1 DEF AddBug
<1> QED
  BY <1>6, <1>7, <1>8

-----------------------------------------------------------------------------
(***************************************************************************)
(* range_remove. Callers' intervals begin and end at members of a set E    *)
(* with no two neighbours, so that no range has a single address.          *)
(***************************************************************************)
Sparse(E) == E \subseteq Int /\ \A a, b \in E : a < b => a + 1 < b
Rs(E) == {r \in [base : Int, limit : Int] : r.base \in E /\ r.limit + 1 \in E}

Apart(r, base, limit) == r.limit < base \/ limit < r.base

(* A list with the interval taken out of its ranges before pos, and the    *)
(* same addresses as L elsewhere.                                          *)
Partly(rs, pos, L, base, limit, E) ==
    /\ rs \in Seq(Rs(E)) /\ Ordered(rs)
    /\ pos \in 1 .. Len(rs) + 1
    /\ \A i \in 1 .. Len(rs) : i < pos => Apart(rs[i], base, limit)
    /\ \A x \in Int : (base <= x /\ x <= limit) \/ (Has(rs, x) <=> Has(L, x))

(* Multiples of a grain, such as a page, are such edges.                   *)
Multiples(g) == {k * g : k \in Int}

(* Multiples of at least two are never adjacent.                           *)
LEMMA MultiplesSparse ==
    ASSUME NEW g \in Nat, g >= 2
    PROVE  Sparse(Multiples(g))
<1>1. Multiples(g) \subseteq Int
  BY DEF Multiples
<1>2. ASSUME NEW a \in Multiples(g), NEW b \in Multiples(g), a < b PROVE a + 1 < b
  <2>1. PICK j \in Int : a = j * g
    BY DEF Multiples
  <2>2. PICK k \in Int : b = k * g
    BY DEF Multiples
  <2>3. j < k
    <3>1. ASSUME k <= j PROVE k * g <= j * g
      BY <3>1
    <3> QED
      BY <1>2, <2>1, <2>2, <3>1
  <2>4. (j + 1) * g <= k * g
    BY <2>3
  <2>5. (j + 1) * g = j * g + g
    OBVIOUS
  <2> QED
    BY <2>1, <2>2, <2>4, <2>5
<1> QED
  BY <1>1, <1>2 DEF Sparse

(* Ranges with edges in E have integer bounds.                             *)
LEMMA RsBounded == ASSUME NEW E PROVE Bounded(Rs(E))
BY DEF Bounded, Rs

(* The branches of a round.                                                *)
LEMMA Cuts ==
    ASSUME NEW r, r.base \in Int, r.limit \in Int, r.base <= r.limit,
           NEW base \in Int, NEW limit \in Int, base < limit
    PROVE  \/ Cut(r, base, limit) = "skip" /\ Apart(r, base, limit)
           \/ Cut(r, base, limit) = "delete" /\ base <= r.base /\ r.limit <= limit
           \/ Cut(r, base, limit) = "trim_base" /\ base <= r.base /\ r.base <= limit /\ limit < r.limit
           \/ Cut(r, base, limit) = "trim_limit" /\ r.base < base /\ base <= r.limit /\ r.limit <= limit
           \/ Cut(r, base, limit) = "split" /\ r.base < base /\ limit < r.limit
<1> DEFINE A == r.base > limit \/ r.limit < base
           B == ~(r.base > limit \/ r.limit < base) /\ r.base >= base /\ r.limit <= limit
           C == r.base <= limit /\ r.base >= base /\ r.limit > limit
           D == r.limit >= base /\ r.base < base /\ r.limit <= limit
<1>1. CASE A
  <2>1. ~B /\ ~C /\ ~D
    BY <1>1
  <2>2. Cut(r, base, limit) = "skip"
    BY <1>1, <2>1 DEF Cut
  <2> QED
    BY <1>1, <2>2 DEF Apart
<1>2. CASE B
  <2>1. ~A /\ ~C /\ ~D
    BY <1>2
  <2> QED
    BY <1>2, <2>1 DEF Cut
<1>3. CASE C
  <2>1. ~A /\ ~B /\ ~D
    BY <1>3
  <2> QED
    BY <1>3, <2>1 DEF Cut
<1>4. CASE D
  <2>1. ~A /\ ~B /\ ~C
    BY <1>4
  <2> QED
    BY <1>4, <2>1 DEF Cut
<1>5. CASE ~A /\ ~B /\ ~C /\ ~D
  <2>1. Cut(r, base, limit) = "split"
    BY <1>5 DEF Cut
  <2>2. r.base < base /\ limit < r.limit
    BY <1>5
  <2> QED
    BY <2>1, <2>2
<1> QED
  BY <1>1, <1>2, <1>3, <1>4, <1>5

(* What is true of the range the loop is at.                               *)
LEMMA AtPos ==
    ASSUME NEW E, NEW L, NEW rs, NEW pos, NEW base, NEW limit,
           Partly(rs, pos, L, base, limit, E), pos <= Len(rs)
    PROVE  /\ pos \in 1 .. Len(rs) /\ rs[pos] \in Rs(E) /\ rs[pos].base <= rs[pos].limit
           /\ rs[pos].base \in Int /\ rs[pos].limit \in Int
           /\ \A i \in 1 .. Len(rs) : rs[i].base \in Int /\ rs[i].limit \in Int /\ rs[i].base <= rs[i].limit
<1>1. rs \in Seq(Rs(E)) /\ Ordered(rs) /\ pos \in 1 .. Len(rs) + 1
  BY DEF Partly
<1>2. \A i \in 1 .. Len(rs) : rs[i].base <= rs[i].limit
  BY <1>1, OrderedFacts
<1>3. \A i \in 1 .. Len(rs) : rs[i] \in Rs(E) /\ rs[i].base \in Int /\ rs[i].limit \in Int
  BY <1>1 DEF Rs
<1>4. pos \in 1 .. Len(rs)
  BY <1>1
<1> QED
  BY <1>2, <1>3, <1>4

(* A round that skips its range.                                           *)
LEMMA SkipRound ==
    ASSUME NEW E, NEW L, NEW rs, NEW pos, NEW base \in Int, NEW limit \in Int,
           Partly(rs, pos, L, base, limit, E), pos <= Len(rs), Apart(rs[pos], base, limit)
    PROVE  Partly(rs, pos + 1, L, base, limit, E)
BY DEF Partly

(* A round that deletes its range.                                         *)
LEMMA DeleteRound ==
    ASSUME NEW E, NEW L, NEW rs, NEW pos, NEW base \in Int, NEW limit \in Int,
           Partly(rs, pos, L, base, limit, E), pos <= Len(rs),
           base <= rs[pos].base, rs[pos].limit <= limit,
           NEW t, t = RemoveAt(rs, pos)
    PROVE  Partly(t, pos, L, base, limit, E) /\ Len(t) = Len(rs) - 1
<1>1. rs \in Seq(Rs(E)) /\ Ordered(rs) /\ pos \in 1 .. Len(rs)
  BY AtPos DEF Partly
<1>2. /\ t \in Seq(Rs(E)) /\ Len(t) = Len(rs) - 1 /\ Ordered(t)
      /\ \A i \in 1 .. Len(rs) - 1 : t[i] = IF i < pos THEN rs[i] ELSE rs[i + 1]
  BY <1>1, RsBounded, Delete, ZenonT(30)
<1>3. pos \in 1 .. Len(t) + 1
  BY <1>1, <1>2
<1>4. \A i \in 1 .. Len(t) : i < pos => Apart(t[i], base, limit)
  BY <1>1, <1>2 DEF Partly
<1>5. ASSUME NEW x \in Int, ~(base <= x /\ x <= limit) PROVE Has(t, x) <=> Has(L, x)
  <2>1. Has(rs, x) <=> Has(L, x)
    BY <1>5 DEF Partly
  <2>2. ASSUME Has(t, x) PROVE Has(rs, x)
    <3>1. PICK i \in 1 .. Len(rs) - 1 : t[i].base <= x /\ x <= t[i].limit
      BY <1>2, <2>2 DEF Has
    <3>2. \E j \in 1 .. Len(rs) : t[i] = rs[j]
      BY <1>1, <1>2
    <3> QED
      BY <3>1, <3>2 DEF Has
  <2>3. ASSUME Has(rs, x) PROVE Has(t, x)
    <3>1. PICK i \in 1 .. Len(rs) : rs[i].base <= x /\ x <= rs[i].limit
      BY <2>3 DEF Has
    <3>2. i # pos
      BY <3>1, <1>5, AtPos
    <3>3. \E j \in 1 .. Len(t) : t[j] = rs[i]
      <4>1. CASE i < pos
        BY <4>1, <1>1, <1>2
      <4>2. CASE i > pos
        <5>1. i - 1 \in 1 .. Len(rs) - 1 /\ ~(i - 1 < pos) /\ i - 1 + 1 = i
          BY <4>2, <1>1
        <5> QED
          BY <5>1, <1>2
      <4> QED
        BY <4>1, <4>2, <3>2, <1>1
    <3> QED
      BY <3>1, <3>3 DEF Has
  <2> QED
    BY <2>1, <2>2, <2>3
<1>6. \A x \in Int : (base <= x /\ x <= limit) \/ (Has(t, x) <=> Has(L, x))
  BY <1>5
<1> QED
  BY <1>2, <1>3, <1>4, <1>6 DEF Partly

(* A trim at either end: e is what is left of the range.                   *)
LEMMA TrimRound ==
    ASSUME NEW E, NEW L, NEW rs, NEW pos, NEW base \in Int, NEW limit \in Int,
           Partly(rs, pos, L, base, limit, E), pos <= Len(rs),
           NEW e \in Rs(E), rs[pos].base <= e.base, e.base <= e.limit, e.limit <= rs[pos].limit,
           Apart(e, base, limit),
           \A x \in Int : rs[pos].base <= x /\ x <= rs[pos].limit =>
                (base <= x /\ x <= limit) \/ (e.base <= x /\ x <= e.limit),
           NEW t, t = ReplaceAt(rs, pos, e)
    PROVE  Partly(t, pos + 1, L, base, limit, E) /\ Len(t) = Len(rs)
<1>1. rs \in Seq(Rs(E)) /\ Ordered(rs) /\ pos \in 1 .. Len(rs)
  BY AtPos DEF Partly
<1>2. /\ t \in Seq(Rs(E)) /\ Len(t) = Len(rs) /\ Ordered(t)
      /\ \A i \in 1 .. Len(rs) : t[i] = IF i = pos THEN e ELSE rs[i]
  BY <1>1, RsBounded, Shrink
<1>3. pos + 1 \in 1 .. Len(t) + 1
  BY <1>1, <1>2
<1>4. \A i \in 1 .. Len(t) : i < pos + 1 => Apart(t[i], base, limit)
  BY <1>1, <1>2 DEF Partly
<1>5. ASSUME NEW x \in Int, ~(base <= x /\ x <= limit) PROVE Has(t, x) <=> Has(L, x)
  <2>1. Has(rs, x) <=> Has(L, x)
    BY <1>5 DEF Partly
  <2>2. ASSUME Has(t, x) PROVE Has(rs, x)
    <3>1. PICK i \in 1 .. Len(rs) : t[i].base <= x /\ x <= t[i].limit
      BY <1>2, <2>2 DEF Has
    <3>2. rs[i].base <= x /\ x <= rs[i].limit
      <4>1. CASE i = pos
        <5>1. e.base <= x /\ x <= e.limit /\ e.base \in Int /\ e.limit \in Int
          BY <3>1, <4>1, <1>2 DEF Rs
        <5> QED
          BY <5>1, <4>1, AtPos
      <4>2. CASE i # pos
        BY <3>1, <4>2, <1>2
      <4> QED
        BY <4>1, <4>2
    <3> QED
      BY <3>2 DEF Has
  <2>3. ASSUME Has(rs, x) PROVE Has(t, x)
    <3>1. PICK i \in 1 .. Len(rs) : rs[i].base <= x /\ x <= rs[i].limit
      BY <2>3 DEF Has
    <3>2. t[i].base <= x /\ x <= t[i].limit
      <4>1. CASE i = pos
        BY <3>1, <4>1, <1>2, <1>5
      <4>2. CASE i # pos
        BY <3>1, <4>2, <1>2
      <4> QED
        BY <4>1, <4>2
    <3> QED
      BY <3>2, <1>2 DEF Has
  <2> QED
    BY <2>1, <2>2, <2>3
<1>6. \A x \in Int : (base <= x /\ x <= limit) \/ (Has(t, x) <=> Has(L, x))
  BY <1>5
<1> QED
  BY <1>2, <1>3, <1>4, <1>6 DEF Partly

(* A split: the range keeps its right part and the left part is added.     *)
LEMMA SplitRound ==
    ASSUME NEW E, Sparse(E), NEW L, NEW rs, NEW pos, NEW base \in E, NEW limit \in Int, limit + 1 \in E, base < limit,
           Partly(rs, pos, L, base, limit, E), pos <= Len(rs),
           rs[pos].base < base, limit < rs[pos].limit,
           NEW t, t = SplitAt(rs, pos, base, limit)
    PROVE  /\ Partly(t, pos + 2, L, base, limit, E) /\ Len(t) = Len(rs) + 1
           /\ ~SplitBug(rs, pos, base, limit)
<1> DEFINE r == rs[pos]
           left == [base |-> r.base, limit |-> base - 1]
           right == [base |-> limit + 1, limit |-> r.limit]
           u == ReplaceAt(rs, pos, right)
<1>0. base \in Int /\ limit \in Int
  BY DEF Sparse
<1>1. rs \in Seq(Rs(E)) /\ Ordered(rs) /\ pos \in 1 .. Len(rs) /\ Bounded(Rs(E))
  BY AtPos, RsBounded DEF Partly
<1>2. r \in Rs(E) /\ r.base \in Int /\ r.limit \in Int /\ r.base \in E /\ r.limit + 1 \in E
  BY AtPos DEF Rs
<1>3. r = [base |-> r.base, limit |-> r.limit]
  BY <1>2 DEF Rs
<1>4. CutRight(r, limit) = right
  BY <1>3 DEF CutRight
<1>5. left \in Rs(E) /\ right \in Rs(E)
  BY <1>0, <1>2 DEF Rs
<1>6. r.base < base - 1
  BY <1>0, <1>2 DEF Sparse
<1>7. t = InsertAt(u, AddPosition(u, base - 1), left)
  BY <1>4 DEF SplitAt, range_add, Rng
<1>8. SplitBug(rs, pos, base, limit) = AddBug(u, r.base, base - 1)
  BY <1>4 DEF SplitBug
<1>9. left.base = r.base /\ left.limit = base - 1 /\ right.base = limit + 1 /\ right.limit = r.limit
  OBVIOUS
<1> HIDE DEF r, left, right, u
<1>10. rs[pos].base <= right.base /\ right.base <= right.limit /\ right.limit <= rs[pos].limit
  BY <1>0, <1>2, <1>9 DEF r
<1>11. /\ u \in Seq(Rs(E)) /\ Len(u) = Len(rs) /\ Ordered(u)
       /\ \A i \in 1 .. Len(rs) : u[i] = IF i = pos THEN right ELSE rs[i]
  BY <1>1, <1>5, <1>10, Shrink DEF u
<1>12. \A i \in 1 .. Len(rs) : rs[i].base \in Int /\ rs[i].limit \in Int /\ rs[i].base <= rs[i].limit
  BY AtPos
<1>13. \A i \in 1 .. Len(rs) : i < pos => rs[i].limit < r.base
  BY <1>1, OrderedFacts DEF r
<1>14. \A i \in 1 .. Len(rs) : i > pos => r.limit < rs[i].base
  BY <1>1, OrderedFacts DEF r
<1>15. \A i \in 1 .. Len(u) : i < pos => u[i].limit < left.base
  BY <1>11, <1>13, <1>9
<1>16. \A i \in 1 .. Len(u) : i >= pos => left.limit < u[i].base
  <2>1. limit < r.limit /\ base < limit
    BY DEF r
  <2>2. ASSUME NEW i \in 1 .. Len(u), i > pos PROVE left.limit < u[i].base
    <3>1. i \in 1 .. Len(rs) /\ i # pos
      BY <2>2, <1>1, <1>11
    <3>2. u[i] = rs[i] /\ r.limit < rs[i].base /\ rs[i].base \in Int
      BY <3>1, <2>2, <1>11, <1>12, <1>14
    <3> QED
      BY <3>2, <2>1, <1>0, <1>2, <1>9
  <2>3. left.limit < u[pos].base
    BY <1>0, <1>1, <1>9, <1>11, <2>1
  <2> QED
    BY <2>2, <2>3, <1>1
<1>17. AddPosition(u, base - 1) = pos
  <2> DEFINE p == AddPosition(u, base - 1)
  <2>1. /\ p \in 1 .. Len(u) + 1
        /\ \A i \in 1 .. Len(u) : i < p => u[i].base <= base - 1
        /\ \A i \in 1 .. Len(u) : i >= p => base - 1 < u[i].base
    <3>1. base - 1 \in Int
      BY <1>0
    <3> QED
      BY <3>1, <1>1, <1>11, AddPositionFacts
  <2> HIDE DEF p
  <2>2. ~(pos < p)
    BY <2>1, <1>0, <1>1, <1>9, <1>11
  <2>3. ~(p < pos)
    <3>1. ASSUME p < pos PROVE FALSE
      <4>1. p \in 1 .. Len(rs) /\ u[p] = rs[p] /\ base - 1 < rs[p].base
        BY <3>1, <2>1, <1>1, <1>11
      <4>2. rs[p].base <= rs[p].limit /\ rs[p].limit < r.base /\ rs[p].base \in Int /\ rs[p].limit \in Int
        BY <3>1, <4>1, <1>12, <1>13
      <4> QED
        BY <4>1, <4>2, <1>0, <1>2, <1>6
    <3> QED
      BY <3>1
  <2>4. p = pos
    BY <2>1, <2>2, <2>3, <1>1
  <2> QED
    BY <2>4 DEF p
<1>18. left.base <= left.limit
  BY <1>0, <1>2, <1>6, <1>9
<1>19. t = InsertAt(u, pos, left)
  BY <1>7, <1>17
<1>20. /\ t \in Seq(Rs(E)) /\ Len(t) = Len(u) + 1 /\ Ordered(t)
       /\ \A i \in 1 .. Len(u) + 1 : t[i] = IF i < pos THEN u[i] ELSE IF i = pos THEN left ELSE u[i - 1]
  <2>1. pos \in 1 .. Len(u) + 1
    BY <1>1, <1>11
  <2>2. Slot(u, pos, left)
    BY <1>15, <1>16 DEF Slot
  <2>3. t \in Seq(Rs(E)) /\ Ordered(t) /\ Inserted(t, u, pos, left)
    BY <2>1, <2>2, <1>1, <1>5, <1>11, <1>18, <1>19, Between
  <2> QED
    BY <2>3 DEF Inserted
<1>21. /\ \A i \in 1 .. Len(rs) : i < pos => t[i] = rs[i]
       /\ \A i \in 1 .. Len(rs) : i > pos => t[i + 1] = rs[i]
       /\ t[pos] = left /\ t[pos + 1] = right /\ Len(t) = Len(rs) + 1
  <2>1. \A i \in 1 .. Len(rs) : i < pos => t[i] = rs[i]
    BY <1>1, <1>11, <1>20
  <2>2. ASSUME NEW i \in 1 .. Len(rs), i > pos PROVE t[i + 1] = rs[i]
    <3>1. i + 1 \in 1 .. Len(u) + 1 /\ ~(i + 1 < pos) /\ i + 1 # pos /\ i + 1 - 1 = i /\ i # pos
      BY <2>2, <1>1, <1>11
    <3> QED
      BY <3>1, <1>11, <1>20
  <2>3. t[pos] = left
    BY <1>1, <1>11, <1>20
  <2>4. t[pos + 1] = right
    <3>1. pos + 1 \in 1 .. Len(u) + 1 /\ ~(pos + 1 < pos) /\ pos + 1 # pos /\ pos + 1 - 1 = pos
      BY <1>1, <1>11
    <3> QED
      BY <3>1, <1>1, <1>11, <1>20
  <2> QED
    BY <2>1, <2>2, <2>3, <2>4, <1>11, <1>20
<1>22. ~SplitBug(rs, pos, base, limit)
  <2>1. \A i \in DOMAIN u : ~(i <= pos /\ r.base >= u[i].base /\ base - 1 <= u[i].limit)
    <3> SUFFICES ASSUME NEW i \in 1 .. Len(rs), i <= pos PROVE ~(r.base >= u[i].base /\ base - 1 <= u[i].limit)
      BY <1>11
    <3>1. CASE i = pos
      <4>1. u[i].base = limit + 1 /\ r.base < base
        BY <3>1, <1>9, <1>11 DEF r
      <4> QED
        BY <4>1, <1>0, <1>2
    <3>2. CASE i < pos
      <4>1. u[i] = rs[i] /\ rs[i].limit < r.base
        BY <3>2, <1>11, <1>13
      <4> QED
        BY <4>1, <1>0, <1>2, <1>6, <1>12
    <3> QED
      BY <3>1, <3>2, <1>1
  <2>2. ~AddBug(u, r.base, base - 1)
    BY <2>1, <1>0, <1>2, <1>6, <1>17 DEF AddBug
  <2> QED
    BY <2>2, <1>8
<1>23. pos + 2 \in 1 .. Len(t) + 1
  BY <1>1, <1>21
<1>24. ASSUME NEW i \in 1 .. Len(t), i < pos + 2 PROVE Apart(t[i], base, limit)
  <2>1. CASE i < pos
    <3>1. i \in 1 .. Len(rs) /\ t[i] = rs[i]
      BY <2>1, <1>1, <1>21
    <3> QED
      BY <3>1, <2>1 DEF Partly
  <2>2. CASE i = pos
    BY <2>2, <1>0, <1>9, <1>21 DEF Apart
  <2>3. CASE i = pos + 1
    BY <2>3, <1>0, <1>9, <1>21 DEF Apart
  <2> QED
    BY <2>1, <2>2, <2>3, <1>24, <1>1
<1>25. ASSUME NEW x \in Int, ~(base <= x /\ x <= limit) PROVE Has(t, x) <=> Has(L, x)
  <2>1. Has(rs, x) <=> Has(L, x)
    BY <1>25 DEF Partly
  <2>2. ASSUME Has(t, x) PROVE Has(rs, x)
    <3>1. PICK i \in 1 .. Len(t) : t[i].base <= x /\ x <= t[i].limit
      BY <2>2 DEF Has
    <3>2. CASE i < pos
      <4>1. i \in 1 .. Len(rs) /\ t[i] = rs[i]
        BY <3>2, <1>1, <1>21
      <4> QED
        BY <3>1, <4>1 DEF Has
    <3>3. CASE i = pos \/ i = pos + 1
      <4>1. r.base <= x /\ x <= r.limit
        <5>1. limit < r.limit /\ r.base < base
          BY DEF r
        <5>2. CASE i = pos
          <6>1. t[i].base = r.base /\ t[i].limit = base - 1
            BY <5>2, <1>9, <1>21
          <6> QED
            BY <6>1, <5>1, <3>1, <1>0, <1>2
        <5>3. CASE i = pos + 1
          <6>1. t[i].base = limit + 1 /\ t[i].limit = r.limit
            BY <5>3, <1>9, <1>21
          <6> QED
            BY <6>1, <5>1, <3>1, <1>0, <1>2
        <5> QED
          BY <5>2, <5>3, <3>3
      <4> QED
        BY <4>1, <1>1 DEF Has, r
    <3>4. CASE i > pos + 1
      <4>1. i - 1 \in 1 .. Len(rs) /\ i - 1 > pos /\ i - 1 + 1 = i
        BY <3>4, <1>1, <1>21
      <4>2. t[i] = rs[i - 1]
        BY <4>1, <1>21
      <4> QED
        BY <3>1, <4>1, <4>2 DEF Has
    <3> QED
      BY <3>2, <3>3, <3>4, <1>1
  <2>3. ASSUME Has(rs, x) PROVE Has(t, x)
    <3>1. PICK i \in 1 .. Len(rs) : rs[i].base <= x /\ x <= rs[i].limit
      BY <2>3 DEF Has
    <3>2. CASE i < pos
      <4>1. i \in 1 .. Len(t) /\ t[i] = rs[i]
        BY <3>2, <1>1, <1>21
      <4> QED
        BY <3>1, <4>1 DEF Has
    <3>3. CASE i = pos
      <4>1. (left.base <= x /\ x <= left.limit) \/ (right.base <= x /\ x <= right.limit)
        BY <3>1, <3>3, <1>0, <1>2, <1>9, <1>25 DEF r
      <4>2. pos \in 1 .. Len(t) /\ pos + 1 \in 1 .. Len(t)
        BY <1>1, <1>21
      <4> QED
        BY <4>1, <4>2, <1>21 DEF Has
    <3>4. CASE i > pos
      <4>1. i + 1 \in 1 .. Len(t) /\ t[i + 1] = rs[i]
        BY <3>4, <1>1, <1>21
      <4> QED
        BY <3>1, <4>1 DEF Has
    <3> QED
      BY <3>2, <3>3, <3>4, <1>1
  <2> QED
    BY <2>1, <2>2, <2>3
<1>26. Partly(t, pos + 2, L, base, limit, E)
  BY <1>20, <1>23, <1>24, <1>25 DEF Partly
<1> QED
  BY <1>21, <1>22, <1>26

(* One round of the loop, whichever branch it takes.                       *)
State(st) == st = [rs |-> st.rs, pos |-> st.pos, bug |-> st.bug]

Clean(st, L, base, limit, E) ==
    State(st) /\ st.bug = FALSE /\ Partly(st.rs, st.pos, L, base, limit, E)

(* A round of the loop fires no BUG and deals with one more range.         *)
LEMMA RoundStep ==
    ASSUME NEW E, Sparse(E), NEW L, NEW base \in E, NEW limit \in Int, limit + 1 \in E, base < limit,
           NEW st, Clean(st, L, base, limit, E), st.pos <= Len(st.rs),
           NEW t, t = RemoveRound(st, base, limit)
    PROVE  Clean(t, L, base, limit, E) /\ Len(t.rs) - t.pos = Len(st.rs) - st.pos - 1
<1> DEFINE rs == st.rs
           pos == st.pos
           r == rs[pos]
           cut == Cut(r, base, limit)
<1>0. base \in Int
  BY DEF Sparse
<1>1. Partly(rs, pos, L, base, limit, E) /\ st = [rs |-> rs, pos |-> pos, bug |-> FALSE]
  BY DEF Clean, State
<1>2. /\ pos \in 1 .. Len(rs) /\ r \in Rs(E) /\ r.base <= r.limit /\ r.base \in Int /\ r.limit \in Int
      /\ rs \in Seq(Rs(E))
  <2>1. pos <= Len(rs)
    OBVIOUS
  <2>2. Partly(rs, pos, L, base, limit, E)
    BY <1>1
  <2> HIDE DEF rs, pos
  <2> QED
    BY <2>1, <2>2, AtPos DEF Partly
<1>3. r = [base |-> r.base, limit |-> r.limit] /\ r.base \in E /\ r.limit + 1 \in E
  BY <1>2 DEF Rs
<1>4. t = CASE cut = "skip" -> [st EXCEPT !.pos = pos + 1]
            [] cut = "delete" -> [st EXCEPT !.rs = RemoveAt(rs, pos)]
            [] cut = "trim_base" -> [st EXCEPT !.rs = ReplaceAt(rs, pos, CutRight(r, limit)), !.pos = pos + 1]
            [] cut = "trim_limit" -> [st EXCEPT !.rs = ReplaceAt(rs, pos, CutLeft(r, base)), !.pos = pos + 1]
            [] OTHER -> [rs |-> SplitAt(rs, pos, base, limit), pos |-> pos + 2,
                         bug |-> st.bug \/ SplitBug(rs, pos, base, limit)]
  BY DEF RemoveRound
<1>5. st.bug = FALSE
  BY DEF Clean
<1>6. pos \in Nat /\ Len(rs) \in Nat /\ pos <= Len(rs)
  BY <1>2
<1>7. \/ cut = "skip" /\ Apart(r, base, limit)
      \/ cut = "delete" /\ base <= r.base /\ r.limit <= limit
      \/ cut = "trim_base" /\ base <= r.base /\ r.base <= limit /\ limit < r.limit
      \/ cut = "trim_limit" /\ r.base < base /\ base <= r.limit /\ r.limit <= limit
      \/ cut = "split" /\ r.base < base /\ limit < r.limit
  BY <1>0, <1>2, Cuts
<1> HIDE DEF rs, pos, cut, r
<1>8. CASE cut = "skip" /\ Apart(r, base, limit)
  <2>1. t = [rs |-> rs, pos |-> pos + 1, bug |-> FALSE]
    BY <1>1, <1>4, <1>8
  <2>2. Partly(rs, pos + 1, L, base, limit, E)
    BY <1>0, <1>1, <1>6, <1>8, SkipRound DEF r
  <2>3. t.rs = rs /\ t.pos = pos + 1 /\ t.bug = FALSE
    BY <2>1
  <2> QED
    BY <2>1, <2>2, <2>3, <1>6 DEF Clean, State, rs, pos
<1>9. CASE cut = "delete" /\ base <= r.base /\ r.limit <= limit
  <2> DEFINE u == RemoveAt(rs, pos)
  <2>2. Partly(u, pos, L, base, limit, E) /\ Len(u) = Len(rs) - 1
    BY <1>0, <1>1, <1>6, <1>9, DeleteRound DEF r
  <2> HIDE DEF u
  <2>1. t = [rs |-> u, pos |-> pos, bug |-> FALSE]
    BY <1>1, <1>4, <1>9 DEF u
  <2>3. t.rs = u /\ t.pos = pos /\ t.bug = FALSE
    BY <2>1
  <2> QED
    BY <2>1, <2>2, <2>3, <1>6 DEF Clean, State, rs, pos
<1>10. CASE cut = "trim_base" /\ base <= r.base /\ r.base <= limit /\ limit < r.limit
  <2> DEFINE e == [base |-> limit + 1, limit |-> r.limit]
             u == ReplaceAt(rs, pos, e)
  <2>1. CutRight(r, limit) = e
    BY <1>3 DEF CutRight
  <2>2. e \in Rs(E) /\ e.base = limit + 1 /\ e.limit = r.limit
    BY <1>2, <1>3 DEF Rs
  <2> HIDE DEF e
  <2>3. /\ r.base <= e.base /\ e.base <= e.limit /\ e.limit <= r.limit /\ Apart(e, base, limit)
        /\ \A x \in Int : r.base <= x /\ x <= r.limit =>
                (base <= x /\ x <= limit) \/ (e.base <= x /\ x <= e.limit)
    BY <1>0, <1>2, <1>10, <2>2 DEF Apart
  <2>4. Partly(u, pos + 1, L, base, limit, E) /\ Len(u) = Len(rs)
    BY <1>0, <1>1, <1>6, <2>2, <2>3, TrimRound DEF r
  <2> HIDE DEF u
  <2>5. t = [rs |-> u, pos |-> pos + 1, bug |-> FALSE]
    BY <1>1, <1>4, <1>10, <2>1 DEF u
  <2>6. t.rs = u /\ t.pos = pos + 1 /\ t.bug = FALSE
    BY <2>5
  <2> QED
    BY <2>4, <2>5, <2>6, <1>6 DEF Clean, State, rs, pos
<1>11. CASE cut = "trim_limit" /\ r.base < base /\ base <= r.limit /\ r.limit <= limit
  <2> DEFINE e == [base |-> r.base, limit |-> base - 1]
             u == ReplaceAt(rs, pos, e)
  <2>1. CutLeft(r, base) = e
    BY <1>3 DEF CutLeft
  <2>2. e \in Rs(E) /\ e.base = r.base /\ e.limit = base - 1
    BY <1>0, <1>2, <1>3 DEF Rs
  <2> HIDE DEF e
  <2>3. /\ r.base <= e.base /\ e.base <= e.limit /\ e.limit <= r.limit /\ Apart(e, base, limit)
        /\ \A x \in Int : r.base <= x /\ x <= r.limit =>
                (base <= x /\ x <= limit) \/ (e.base <= x /\ x <= e.limit)
    BY <1>0, <1>2, <1>11, <2>2 DEF Apart
  <2>4. Partly(u, pos + 1, L, base, limit, E) /\ Len(u) = Len(rs)
    BY <1>0, <1>1, <1>6, <2>2, <2>3, TrimRound DEF r
  <2> HIDE DEF u
  <2>5. t = [rs |-> u, pos |-> pos + 1, bug |-> FALSE]
    BY <1>1, <1>4, <1>11, <2>1 DEF u
  <2>6. t.rs = u /\ t.pos = pos + 1 /\ t.bug = FALSE
    BY <2>5
  <2> QED
    BY <2>4, <2>5, <2>6, <1>6 DEF Clean, State, rs, pos
<1>12. CASE cut = "split" /\ r.base < base /\ limit < r.limit
  <2> DEFINE u == SplitAt(rs, pos, base, limit)
  <2>1. Partly(u, pos + 2, L, base, limit, E) /\ Len(u) = Len(rs) + 1 /\ ~SplitBug(rs, pos, base, limit)
    BY <1>1, <1>6, <1>12, SplitRound DEF r
  <2> HIDE DEF u
  <2>2. t = [rs |-> u, pos |-> pos + 2, bug |-> st.bug \/ SplitBug(rs, pos, base, limit)]
    BY <1>4, <1>12 DEF u
  <2>3. t = [rs |-> u, pos |-> pos + 2, bug |-> FALSE]
    BY <2>1, <2>2, <1>5, Zenon
  <2>4. t.rs = u /\ t.pos = pos + 2 /\ t.bug = FALSE
    BY <2>3
  <2> QED
    BY <2>1, <2>3, <2>4, <1>6 DEF Clean, State, rs, pos
<1> QED
  BY <1>7, <1>8, <1>9, <1>10, <1>11, <1>12, Zenon

-----------------------------------------------------------------------------
(* The states after each of the first n rounds.                            *)
Rounds(f, n, rs, base, limit) ==
    f = [k \in 0 .. n |-> IF k = 0 THEN [rs |-> rs, pos |-> 1, bug |-> base >= limit]
                           ELSE RemoveRound(f[k - 1], base, limit)]

(* The loop's recursion is well founded.                                   *)
LEMMA RoundsExist ==
    ASSUME NEW rs, NEW base, NEW limit
    PROVE  \A n \in Nat : \E f : Rounds(f, n, rs, base, limit)
<1> DEFINE T == {n \in Nat : ~\E f : Rounds(f, n, rs, base, limit)}
           first == [rs |-> rs, pos |-> 1, bug |-> base >= limit]
<1>1. 0 \notin T
  <2> DEFINE g == [k \in 0 .. 0 |-> first]
  <2>1. g = [k \in 0 .. 0 |-> IF k = 0 THEN first ELSE RemoveRound(g[k - 1], base, limit)]
    <3> HIDE DEF first
    <3> QED
      OBVIOUS
  <2>2. Rounds(g, 0, rs, base, limit)
    BY <2>1 DEF Rounds
  <2> QED
    BY <2>2
<1>2. ASSUME T # {} PROVE FALSE
  <2>1. T \subseteq Nat
    OBVIOUS
  <2>2. PICK m \in T : \A y \in T : m <= y
    <3> HIDE DEF T
    <3> QED
      BY <1>2, <2>1, NatMin
  <2>3. m \in Nat /\ m # 0 /\ m - 1 \in Nat /\ m - 1 \notin T
    BY <1>1, <2>2
  <2>4. PICK f : Rounds(f, m - 1, rs, base, limit)
    BY <2>3
  <2> DEFINE g == [k \in 0 .. m |-> IF k = m THEN RemoveRound(f[m - 1], base, limit) ELSE f[k]]
  <2> HIDE DEF first
  <2>5. f = [k \in 0 .. m - 1 |-> IF k = 0 THEN first ELSE RemoveRound(f[k - 1], base, limit)]
    BY <2>4 DEF Rounds, first
  <2>6. \A k \in 0 .. m - 1 : f[k] = IF k = 0 THEN first ELSE RemoveRound(f[k - 1], base, limit)
    BY <2>5
  <2>7. ASSUME NEW k \in 0 .. m
        PROVE  g[k] = IF k = 0 THEN first ELSE RemoveRound(g[k - 1], base, limit)
    <3>1. CASE k = m
      <4>1. g[k] = RemoveRound(f[m - 1], base, limit) /\ k - 1 \in 0 .. m /\ k - 1 # m /\ k # 0
        BY <3>1, <2>3
      <4>2. g[k - 1] = f[m - 1]
        BY <3>1, <4>1
      <4> QED
        BY <4>1, <4>2
    <3>2. CASE k # m /\ k # 0
      <4>1. k \in 0 .. m - 1 /\ k - 1 \in 0 .. m /\ k - 1 # m
        BY <3>2, <2>3
      <4>2. g[k] = f[k] /\ g[k - 1] = f[k - 1]
        BY <3>2, <4>1
      <4> QED
        BY <3>2, <4>1, <4>2, <2>6
    <3>3. CASE k = 0
      <4>1. k \in 0 .. m - 1 /\ k # m
        BY <3>3, <2>3
      <4> QED
        BY <3>3, <4>1, <2>6
    <3> QED
      BY <3>1, <3>2, <3>3
  <2>8. g = [k \in 0 .. m |-> g[k]]
    OBVIOUS
  <2> HIDE DEF g
  <2>9. g = [k \in 0 .. m |-> IF k = 0 THEN first ELSE RemoveRound(g[k - 1], base, limit)]
    BY <2>7, <2>8
  <2>10. Rounds(g, m, rs, base, limit)
    BY <2>9 DEF Rounds, first
  <2> QED
    BY <2>2, <2>10
<1> QED
  BY <1>2

(* range_remove takes the interval out of an ordered list, keeps the order *)
(* and meets no BUG, in a loop of as many rounds as there were ranges.     *)
LEMMA RemovesRange ==
    ASSUME NEW E, Sparse(E), NEW L \in Seq(Rs(E)), Ordered(L),
           NEW base \in E, NEW limit \in Int, limit + 1 \in E, base < limit,
           NEW t, t = range_remove(L, base, limit)
    PROVE  /\ t.rs \in Seq(Rs(E)) /\ Ordered(t.rs) /\ t.bug = FALSE
           /\ \A x \in Int : Has(t.rs, x) <=> Has(L, x) /\ ~(base <= x /\ x <= limit)
<1> DEFINE n == Len(L)
           f == CHOOSE f : Rounds(f, n, L, base, limit)
<1>1. t = f[n]
  BY DEF range_remove, Rounds
<1>2. n \in Nat
  OBVIOUS
<1>3. Rounds(f, n, L, base, limit)
  BY <1>2, RoundsExist
<1> HIDE DEF f
<1>4. base \in Int
  BY DEF Sparse
<1>5. /\ f[0] = [rs |-> L, pos |-> 1, bug |-> base >= limit]
      /\ \A k \in 1 .. n : f[k] = RemoveRound(f[k - 1], base, limit)
  <2>1. \A k \in 0 .. n : f[k] = IF k = 0 THEN [rs |-> L, pos |-> 1, bug |-> base >= limit]
                                 ELSE RemoveRound(f[k - 1], base, limit)
    BY <1>3 DEF Rounds
  <2> HIDE DEF n
  <2> QED
    BY <1>2, <2>1
<1> DEFINE P(k) == Clean(f[k], L, base, limit, E) /\ Len(f[k].rs) - f[k].pos = n - k - 1
           T == {k \in 0 .. n : ~P(k)}
<1>6. P(0)
  <2>1. f[0] = [rs |-> L, pos |-> 1, bug |-> FALSE]
    <3>1. (base >= limit) = FALSE
      BY <1>4
    <3> QED
      BY <3>1, <1>5, Zenon
  <2>2. f[0].rs = L /\ f[0].pos = 1 /\ f[0].bug = FALSE
    BY <2>1
  <2>3. Partly(L, 1, L, base, limit, E)
    BY DEF Partly
  <2>4. Clean(f[0], L, base, limit, E)
    BY <2>1, <2>2, <2>3 DEF Clean, State
  <2> QED
    BY <2>2, <2>4
<1>7. ASSUME NEW k \in 1 .. n, P(k - 1) PROVE P(k)
  <2> DEFINE a == f[k - 1]
             b == f[k]
  <2>1. b = RemoveRound(a, base, limit)
    BY <1>5
  <2>2. Clean(a, L, base, limit, E) /\ Len(a.rs) - a.pos = n - (k - 1) - 1
    BY <1>7
  <2> HIDE DEF a, b
  <2>3. Len(a.rs) \in Nat /\ a.pos \in Nat
    BY <2>2 DEF Clean, Partly
  <2>4. a.pos <= Len(a.rs)
    BY <2>2, <2>3, <1>2
  <2>5. Clean(b, L, base, limit, E) /\ Len(b.rs) - b.pos = Len(a.rs) - a.pos - 1
    BY <2>1, <2>2, <2>4, RoundStep
  <2>6. Len(b.rs) - b.pos = n - k - 1
    BY <2>2, <2>5, <1>2
  <2> QED
    BY <2>5, <2>6 DEF b
<1> HIDE DEF P
<1>8. P(n)
  <2>1. SUFFICES ASSUME T # {} PROVE FALSE
    BY <1>2
  <2>2. T \subseteq Nat
    BY <1>2
  <2>3. PICK m \in T : \A y \in T : m <= y
    <3> HIDE DEF T
    <3> QED
      BY <2>1, <2>2, NatMin
  <2>4. m \in 1 .. n /\ m - 1 \in 0 .. n /\ m - 1 \notin T
    BY <1>2, <1>6, <2>3
  <2>5. P(m - 1)
    BY <2>4
  <2>6. P(m)
    BY <2>4, <2>5, <1>7
  <2> QED
    BY <2>3, <2>6
<1>9. Clean(t, L, base, limit, E) /\ Len(t.rs) - t.pos = n - n - 1
  BY <1>1, <1>8 DEF P
<1>10. t.rs \in Seq(Rs(E)) /\ Ordered(t.rs) /\ t.bug = FALSE /\ t.pos \in Nat /\ Len(t.rs) \in Nat
  BY <1>9 DEF Clean, Partly
<1>11. t.pos = Len(t.rs) + 1
  BY <1>2, <1>9, <1>10
<1>12. \A i \in 1 .. Len(t.rs) : Apart(t.rs[i], base, limit)
  BY <1>9, <1>10, <1>11 DEF Clean, Partly
<1>13. \A i \in 1 .. Len(t.rs) : t.rs[i].base \in Int /\ t.rs[i].limit \in Int
  BY <1>10 DEF Rs
<1>14. ASSUME NEW x \in Int PROVE Has(t.rs, x) <=> Has(L, x) /\ ~(base <= x /\ x <= limit)
  <2>1. (base <= x /\ x <= limit) \/ (Has(t.rs, x) <=> Has(L, x))
    BY <1>9 DEF Clean, Partly
  <2>2. ASSUME base <= x, x <= limit PROVE ~Has(t.rs, x)
    BY <2>2, <1>4, <1>12, <1>13 DEF Has, Apart
  <2> QED
    BY <2>1, <2>2
<1> QED
  BY <1>10, <1>14
=============================================================================
