----------------------------- MODULE HtabProofs -----------------------------
(***************************************************************************)
(* Proofs about Htab: the walk of the hardware finds what mmu_map entered, *)
(* the TLB never holds what mmu_unmap has removed, no group spills and no  *)
(* BUG is met, for every size of pages, segments, table and memory.        *)
(*                                                                         *)
(* The argument has four parts:                                            *)
(*  - exclusive or is one to one, also in its low bits, so two pages of    *)
(*    one segment never go to one group (XorGroup, OneGroup);              *)
(*  - what avpn_encode leaves out, the group gives back, and segments in   *)
(*    use do not overlap, so an entry belongs to one page of one mapping   *)
(*    (SameEntry, OtherSize, HwFinds, HwCovers);                           *)
(*  - IInv: the table holds the parts of the mappings that were asked for, *)
(*    but for those a call has still to enter or has removed already;      *)
(*  - the calls that boot has still to make overlap neither each other nor *)
(*    what is mapped (ScriptOK, Fits).                                     *)
(***************************************************************************)
EXTENDS Htab, ListLemmas, FiniteSetTheorems

(***************************************************************************)
(* Division.                                                               *)
(***************************************************************************)
(* Quotient and remainder.                                                 *)
LEMMA DivMod ==
    ASSUME NEW a \in Nat, NEW d \in Nat \ {0}
    PROVE  a \div d \in Nat /\ a % d \in 0 .. d - 1 /\ a = d * (a \div d) + (a % d)
OBVIOUS

(* The same, with names that the provers do not look through.              *)
Div(a, d) == a \div d
Rem(a, d) == a % d

(* Quotient and remainder by these names.                                  *)
LEMMA DivRem ==
    ASSUME NEW a \in Nat, NEW d \in Nat \ {0}
    PROVE  Div(a, d) \in Nat /\ Rem(a, d) \in Nat /\ Rem(a, d) < d /\ a = d * Div(a, d) + Rem(a, d)
BY DivMod DEF Div, Rem

(* ... which are the only ones.                                            *)
LEMMA DivUnique ==
    ASSUME NEW d \in Nat \ {0}, NEW q \in Nat, NEW r \in 0 .. d - 1
    PROVE  (d * q + r) \div d = q /\ (d * q + r) % d = r
OBVIOUS

(* A number between two consecutive multiples.                             *)
LEMMA DivIs ==
    ASSUME NEW d \in Nat \ {0}, NEW q \in Nat, NEW a \in Nat, q * d <= a, a < (q + 1) * d
    PROVE  a \div d = q /\ a % d = a - q * d
<1> DEFINE r == a - q * d
<1>1. q * d \in Nat /\ (q + 1) * d = q * d + d /\ q * d = d * q
  OBVIOUS
<1>2. r \in 0 .. d - 1 /\ a = d * q + r
  BY <1>1
<1> HIDE DEF r
<1>3. (d * q + r) \div d = q /\ (d * q + r) % d = r
  BY <1>2, DivUnique
<1> QED
  BY <1>1, <1>2, <1>3 DEF r

(* A multiple of d.                                                        *)
LEMMA Multiple ==
    ASSUME NEW d \in Nat \ {0}, NEW a \in Nat, a % d = 0
    PROVE  a = d * (a \div d) /\ a \div d \in Nat
BY DivMod

(* Multiples are closed under addition, and a product is one.              *)
LEMMA MultipleSum ==
    ASSUME NEW d \in Nat \ {0}, NEW a \in Nat, NEW b \in Nat, a % d = 0
    PROVE  (a + b) % d = b % d
<1> DEFINE p == a \div d
           q == b \div d
           r == b % d
<1>1. a = d * p /\ p \in Nat
  BY Multiple
<1>2. b = d * q + r /\ q \in Nat /\ r \in 0 .. d - 1
  BY DivMod
<1> HIDE DEF p, q, r
<1>3. a + b = d * (p + q) + r /\ p + q \in Nat
  BY <1>1, <1>2
<1>4. (d * (p + q) + r) % d = r
  BY <1>2, <1>3, DivUnique
<1> QED
  BY <1>3, <1>4 DEF r

(* A product is a multiple.                                                *)
LEMMA MultipleProduct ==
    ASSUME NEW d \in Nat \ {0}, NEW a \in Nat, NEW k \in Nat, a % d = 0
    PROVE  (k * a) % d = 0 /\ k * a \in Nat
<1> DEFINE p == a \div d
<1>1. a = d * p /\ p \in Nat
  BY Multiple
<1> HIDE DEF p
<1>2. k * p \in Nat /\ k * a = d * (k * p) + 0
  BY <1>1
<1>3. (d * (k * p) + 0) % d = 0
  <2> DEFINE q == k * p
  <2>1. q \in Nat
    BY <1>2
  <2> HIDE DEF q
  <2>2. (d * q + 0) % d = 0
    BY <2>1, DivUnique
  <2> QED
    BY <2>2 DEF q
<1> QED
  BY <1>2, <1>3

(* Nothing fits between neighbouring multiples.                            *)
LEMMA MultipleStep ==
    ASSUME NEW d \in Nat \ {0}, NEW a \in Nat, NEW b \in Nat, a % d = 0, b % d = 0, a < b
    PROVE  a + d <= b
<1> DEFINE p == a \div d
           q == b \div d
<1>1. a = d * p /\ p \in Nat /\ b = d * q /\ q \in Nat
  BY Multiple
<1> HIDE DEF p, q
<1>2. p < q
  <2>1. ASSUME q <= p PROVE d * q <= d * p
    BY <2>1, <1>1
  <2> QED
    BY <1>1, <2>1
<1>3. d * (p + 1) <= d * q /\ d * (p + 1) = d * p + d
  BY <1>1, <1>2
<1> QED
  BY <1>1, <1>3

(* Division in two steps, and by a power of two.                           *)
LEMMA DivTwice ==
    ASSUME NEW d \in Nat \ {0}, NEW k \in Nat \ {0}, NEW a \in Nat
    PROVE  (a \div d) \div k = a \div (d * k)
<1> DEFINE p == a \div d
           r == a % d
           q == p \div k
           s == p % k
<1>1. a = d * p + r /\ p \in Nat /\ r \in 0 .. d - 1
  BY DivMod
<1> HIDE DEF p, r
<1>2. p = k * q + s /\ q \in Nat /\ s \in 0 .. k - 1
  BY <1>1, DivMod
<1> HIDE DEF q, s
<1> DEFINE e == d * k
           t == d * s + r
<1>3. e \in Nat \ {0}
  OBVIOUS
<1>4. a = e * q + t
  BY <1>1, <1>2
<1>5. d * s \in Nat /\ d * (s + 1) <= d * k /\ d * (s + 1) = d * s + d
  BY <1>2
<1>6. t \in 0 .. e - 1
  BY <1>1, <1>5
<1> HIDE DEF e, t
<1>7. (e * q + t) \div e = q
  BY <1>2, <1>3, <1>6, DivUnique
<1> QED
  BY <1>4, <1>7 DEF e, p, q

(* A remainder is a number.                                                *)
LEMMA ModNat == \A a \in Nat, d \in Nat \ {0} : a % d \in Nat
OBVIOUS

(* The remainder of a number and of its half.                              *)
LEMMA ModDouble ==
    ASSUME NEW G \in Nat \ {0}, NEW a \in Nat, NEW b \in Nat, b < 2
    PROVE  (2 * a + b) % (2 * G) = 2 * (a % G) + b
<1> DEFINE q == a \div G
           r == a % G
           t == 2 * r + b
           d == 2 * G
<1>1. a = G * q + r /\ q \in Nat /\ r \in 0 .. G - 1
  BY DivMod
<1> HIDE DEF q, r
<1>2. t \in 0 .. d - 1 /\ d \in Nat \ {0} /\ 2 * a + b = d * q + t
  BY <1>1
<1> HIDE DEF t, d
<1>3. (d * q + t) % d = t
  BY <1>1, <1>2, DivUnique
<1> QED
  BY <1>2, <1>3 DEF t, d, r

(* ... which tells the halves apart.                                       *)
TwiceRem(a, p, H) == (2 * a + p) % (2 * H)

(* Equal remainders have equal halves.                                     *)
LEMMA ModHalves ==
    ASSUME NEW H \in Nat \ {0},
           NEW a \in Nat, NEW b \in Nat, NEW p \in Nat, NEW q \in Nat, p < 2, q < 2
    PROVE  TwiceRem(a, p, H) = TwiceRem(b, q, H) <=> Rem(a, H) = Rem(b, H) /\ p = q
<1>1. (2 * a + p) % (2 * H) = 2 * (a % H) + p
  BY ModDouble
<1>2. (2 * b + q) % (2 * H) = 2 * (b % H) + q
  BY ModDouble
<1>3. a % H \in Nat /\ b % H \in Nat
  BY ModNat
<1> QED
  BY <1>1, <1>2, <1>3 DEF TwiceRem, Rem

-----------------------------------------------------------------------------
(***************************************************************************)
(* The exclusive or.                                                       *)
(***************************************************************************)
(* One step of its recursion.                                              *)
XorBody(f, k, x, y) == IF k = 1 THEN 0 ELSE 2 * f[k \div 2][x \div 2][y \div 2] + ((x + y) % 2)
XorTo(f, n) == f = [k \in 1 .. n |-> [x \in Nat |-> [y \in Nat |-> XorBody(f, k, x, y)]]]

(* The half of a number.                                                   *)
LEMMA Half ==
    ASSUME NEW n \in Nat, n > 1
    PROVE  n \div 2 \in 1 .. n - 1
OBVIOUS

(* The recursion is well founded.                                          *)
LEMMA XorExists == \A n \in Nat : \E f : XorTo(f, n)
<1> DEFINE T == {n \in Nat : ~\E f : XorTo(f, n)}
<1>1. 0 \notin T
  <2> DEFINE g == [k \in 1 .. 0 |-> 0]
             h == [k \in 1 .. 0 |-> [x \in Nat |-> [y \in Nat |-> XorBody(g, k, x, y)]]]
  <2>1. g = h
    <3> HIDE DEF XorBody
    <3> QED
      OBVIOUS
  <2>2. XorTo(g, 0)
    BY <2>1 DEF XorTo
  <2> QED
    BY <2>2
<1>2. ASSUME T # {} PROVE FALSE
  <2>1. T \subseteq Nat
    OBVIOUS
  <2>2. PICK m \in T : \A y \in T : m <= y
    <3> HIDE DEF T
    <3> QED
      BY <1>2, <2>1, NatMin
  <2>3. m \in Nat /\ m # 0 /\ m - 1 \in Nat /\ m - 1 \notin T
    BY <1>1, <2>2
  <2>4. PICK f : XorTo(f, m - 1)
    BY <2>3
  <2> DEFINE F(k) == [x \in Nat |-> [y \in Nat |-> XorBody(f, k, x, y)]]
             g == [k \in 1 .. m |-> F(k)]
             G(k) == [x \in Nat |-> [y \in Nat |-> XorBody(g, k, x, y)]]
  <2>5. f = [k \in 1 .. m - 1 |-> F(k)]
    BY <2>4 DEF XorTo
  <2>6. ASSUME NEW k \in 1 .. m - 1 PROVE g[k] = f[k]
    <3> HIDE DEF F
    <3> QED
      BY <2>3, <2>5
  <2>7. ASSUME NEW k \in 1 .. m PROVE F(k) = G(k)
    <3> HIDE DEF g
    <3>1. CASE k = 1
      BY <3>1 DEF XorBody
    <3>2. CASE k # 1
      <4>1. k \div 2 \in 1 .. m - 1
        <5>1. k \in Nat /\ k > 1 /\ k <= m
          BY <3>2, <2>3
        <5>2. k \div 2 \in 1 .. k - 1
          BY <5>1, Half
        <5> QED
          BY <5>1, <5>2, <2>3
      <4>2. g[k \div 2] = f[k \div 2]
        BY <4>1, <2>6
      <4>3. ASSUME NEW x \in Nat, NEW y \in Nat PROVE XorBody(f, k, x, y) = XorBody(g, k, x, y)
        BY <4>2 DEF XorBody
      <4> HIDE DEF XorBody
      <4> QED
        BY <4>3
    <3> QED
      BY <3>1, <3>2
  <2>8. g = [k \in 1 .. m |-> G(k)]
    <3> HIDE DEF F, G
    <3> QED
      BY <2>7
  <2>9. XorTo(g, m)
    <3> HIDE DEF g
    <3> QED
      BY <2>8 DEF XorTo
  <2> QED
    BY <2>2, <2>9
<1> QED
  BY <1>2

(* The equation of xor.                                                    *)
LEMMA XorStep ==
    ASSUME NEW k \in 1 .. HASHES, NEW x \in Nat, NEW y \in Nat
    PROVE  xor[k][x][y] = XorBody(xor, k, x, y)
<1>1. HASHES \in Nat
  BY HtabAssumption DEF PowerOf2
<1>2. xor = CHOOSE f : XorTo(f, HASHES)
  BY DEF xor, XorTo, XorBody
<1>3. XorTo(xor, HASHES)
  BY <1>1, <1>2, XorExists
<1> DEFINE F(i) == [u \in Nat |-> [v \in Nat |-> XorBody(xor, i, u, v)]]
<1>4. xor = [i \in 1 .. HASHES |-> F(i)]
  BY <1>3 DEF XorTo
<1> HIDE DEF F
<1>5. xor[k] = F(k)
  BY <1>4
<1> HIDE DEF XorBody
<1>6. F(k)[x][y] = XorBody(xor, k, x, y)
  BY DEF F
<1> QED
  BY <1>5, <1>6

(* It is a number.                                                         *)
LEMMA XorNat ==
    ASSUME NEW n \in 1 .. HASHES, NEW x \in Nat, NEW y \in Nat
    PROVE  xor[n][x][y] \in Nat
<1> DEFINE T == {k \in Nat : k \in 1 .. HASHES /\ ~\A u, v \in Nat : xor[k][u][v] \in Nat}
<1>1. ASSUME T # {} PROVE FALSE
  <2>1. T \subseteq Nat
    OBVIOUS
  <2>2. PICK k \in T : \A j \in T : k <= j
    <3> HIDE DEF T
    <3> QED
      BY <1>1, <2>1, NatMin
  <2>3. PICK u \in Nat, v \in Nat : xor[k][u][v] \notin Nat
    BY <2>2
  <2>4. k \in 1 .. HASHES /\ xor[k][u][v] = XorBody(xor, k, u, v)
    BY <2>2, XorStep
  <2>5. k # 1
    BY <2>3, <2>4 DEF XorBody
  <2> DEFINE j == k \div 2
  <2>6. j \in 1 .. HASHES /\ j < k
    <3>1. HASHES \in Nat /\ k \in Nat /\ k > 1 /\ k <= HASHES
      BY <2>4, <2>5, HtabAssumption DEF PowerOf2
    <3>2. j \in 1 .. k - 1
      BY <3>1, Half
    <3> QED
      BY <3>1, <3>2
  <2>7. j \notin T
    BY <2>2, <2>6
  <2>8. u \div 2 \in Nat /\ v \div 2 \in Nat /\ (u + v) % 2 \in Nat
    BY <2>3
  <2>9. xor[j][u \div 2][v \div 2] \in Nat
    BY <2>6, <2>7, <2>8
  <2>10. XorBody(xor, k, u, v) = 2 * xor[j][u \div 2][v \div 2] + ((u + v) % 2)
    BY <2>5 DEF XorBody
  <2> QED
    BY <2>3, <2>4, <2>8, <2>9, <2>10
<1>2. n \in Nat
  OBVIOUS
<1> QED
  BY <1>1, <1>2

(* Halving a power of two.                                                 *)
LEMMA PowerHalf ==
    ASSUME NEW G, PowerOf2(G), G # 1
    PROVE  G \div 2 \in Nat \ {0} /\ G = 2 * (G \div 2) /\ PowerOf2(G \div 2)
<1> DEFINE H == G \div 2
<1>1. G \in Nat /\ G >= 2 /\ \A d \in 2 .. G : G % d = 0 => d % 2 = 0
  BY DEF PowerOf2
<1>2. G % G = 0
  BY <1>1
<1>3. G % 2 = 0
  BY <1>1, <1>2
<1>4. H \in Nat \ {0} /\ G = 2 * H
  BY <1>1, <1>3
<1> HIDE DEF H
<1>5. ASSUME NEW d \in 2 .. H, H % d = 0 PROVE d % 2 = 0
  <2>1. d \in Nat \ {0} /\ d \in 2 .. G
    BY <1>1, <1>4
  <2>2. (2 * H) % d = 0
    BY <2>1, <1>4, <1>5, MultipleProduct
  <2> QED
    BY <2>1, <2>2, <1>1, <1>4
<1>6. PowerOf2(H)
  BY <1>4, <1>5 DEF PowerOf2
<1> QED
  BY <1>4, <1>6 DEF H

(* Exclusive or with the same number is one to one, whatever power of two  *)
(* of low bits is looked at.                                               *)
LowOf(n) ==
    \A G \in Nat \ {0} : PowerOf2(G) /\ n % G = 0 =>
        \A v, x, y \in Nat : xor[n][v][x] % G = xor[n][v][y] % G => x % G = y % G

(* One step of the induction.                                              *)
LEMMA XorLowStep ==
    ASSUME NEW n \in 1 .. HASHES, n # 1, LowOf(n \div 2)
    PROVE  LowOf(n)
<1>s. SUFFICES ASSUME NEW G \in Nat \ {0}, PowerOf2(G), n % G = 0,
                    NEW v \in Nat, NEW x \in Nat, NEW y \in Nat, xor[n][v][x] % G = xor[n][v][y] % G
             PROVE  x % G = y % G
  BY DEF LowOf
<1> DEFINE j == n \div 2
           H == G \div 2
<1>0. HASHES \in Nat
  BY HtabAssumption DEF PowerOf2
<1>1. CASE G = 1
  BY <1>1
<1>2. CASE G # 1
  <2>1. H \in Nat \ {0} /\ G = 2 * H /\ PowerOf2(H)
    BY <1>s, <1>2, PowerHalf
  <2>2. PICK k \in Nat : n = G * k
    <3>1. n = G * (n \div G) /\ n \div G \in Nat
      BY <1>s, <1>0, Multiple
    <3> HIDE DEF j
    <3> QED
      BY <3>1
  <2> HIDE DEF H
  <2>3. H * k \in Nat /\ n = 2 * (H * k)
    BY <2>1, <2>2
  <2>4. j = H * k /\ j \in Nat
    <3> DEFINE i == H * k
    <3> HIDE DEF i
    <3>1. i \in Nat /\ n = 2 * i
      BY <2>3 DEF i
    <3>2. n \div 2 = i
      BY <3>1
    <3> QED
      BY <3>1, <3>2 DEF i
  <2>5. j \in 1 .. HASHES /\ j % H = 0
    <3>1. H % H = 0
      BY <2>1
    <3>2. (k * H) % H = 0 /\ k * H = H * k
      BY <2>1, <3>1, MultipleProduct
    <3> QED
      BY <1>0, <2>3, <2>4, <3>2
  <2> DEFINE a == xor[j][v \div 2][x \div 2]
             b == xor[j][v \div 2][y \div 2]
             p == (v + x) % 2
             q == (v + y) % 2
  <2>6. v \div 2 \in Nat /\ x \div 2 \in Nat /\ y \div 2 \in Nat
    OBVIOUS
  <2>7. a \in Nat /\ b \in Nat
    <3> HIDE DEF j
    <3> QED
      BY <2>5, <2>6, XorNat
  <2>8. p \in Nat /\ p < 2 /\ q \in Nat /\ q < 2
    OBVIOUS
  <2>9. xor[n][v][x] = 2 * a + p /\ xor[n][v][y] = 2 * b + q
    <3>1. xor[n][v][x] = XorBody(xor, n, v, x) /\ xor[n][v][y] = XorBody(xor, n, v, y)
      BY XorStep
    <3> QED
      BY <3>1 DEF XorBody
  <2> HIDE DEF a, b
  <2>10. xor[n][v][x] % G = xor[n][v][y] % G <=> a % H = b % H /\ p = q
    <3> HIDE DEF p, q, j
    <3>1. H \in Nat \ {0}
      BY <2>1
    <3>2. TwiceRem(a, p, H) = TwiceRem(b, q, H) <=> Rem(a, H) = Rem(b, H) /\ p = q
      BY <2>7, <2>8, <3>1, ModHalves
    <3> QED
      BY <2>1, <2>9, <3>2 DEF TwiceRem, Rem
  <2>12. p = q /\ a % H = b % H
    BY <1>s, <2>10
  <2>13. (x \div 2) % H = (y \div 2) % H
    <3> HIDE DEF j
    <3>1. LowOf(j)
      BY DEF j
    <3> QED
      BY <2>1, <2>5, <2>6, <2>12, <3>1 DEF LowOf, a, b
  <2>14. x % 2 = y % 2
    BY <2>12
  <2>15. /\ x = 2 * (x \div 2) + (x % 2) /\ y = 2 * (y \div 2) + (y % 2) 
        /\ x % 2 \in Nat /\ x % 2 < 2 /\ y % 2 \in Nat /\ y % 2 < 2
    OBVIOUS
  <2> HIDE DEF p, q, j
  <2>16. x % G = y % G <=> (x \div 2) % H = (y \div 2) % H /\ x % 2 = y % 2
    <3> DEFINE xa == x \div 2
               ya == y \div 2
               xp == x % 2
               yp == y % 2
    <3>1. H \in Nat \ {0}
      BY <2>1
    <3>2. /\ xa \in Nat /\ ya \in Nat /\ xp \in Nat /\ xp < 2 /\ yp \in Nat /\ yp < 2
          /\ x = 2 * xa + xp /\ y = 2 * ya + yp
      BY <2>6, <2>15
    <3> HIDE DEF xa, ya, xp, yp
    <3>3. TwiceRem(xa, xp, H) = TwiceRem(ya, yp, H) <=> Rem(xa, H) = Rem(ya, H) /\ xp = yp
      BY <3>1, <3>2, ModHalves
    <3>4. x % G = y % G <=> xa % H = ya % H /\ xp = yp
      BY <2>1, <3>2, <3>3 DEF TwiceRem, Rem
    <3> QED
      BY <3>4 DEF xa, ya, xp, yp
  <2> QED
    BY <2>13, <2>14, <2>16
<1> QED
  BY <1>1, <1>2

(* The low bits of the second operand can be read off the hash.            *)
LEMMA XorLow ==
    ASSUME NEW n \in 1 .. HASHES
    PROVE  LowOf(n)
<1> DEFINE T == {k \in Nat : k \in 1 .. HASHES /\ ~LowOf(k)}
<1>0. HASHES \in Nat
  BY HtabAssumption DEF PowerOf2
<1>1. ASSUME T # {} PROVE FALSE
  <2>1. T \subseteq Nat
    OBVIOUS
  <2>2. PICK k \in T : \A j \in T : k <= j
    <3> HIDE DEF T
    <3> QED
      BY <1>1, <2>1, NatMin
  <2>3. k \in 1 .. HASHES /\ ~LowOf(k)
    BY <2>2
  <2>4. CASE k = 1
    <3> SUFFICES ASSUME NEW G \in Nat \ {0}, 1 % G = 0,
                        NEW x \in Nat, NEW y \in Nat
                 PROVE  x % G = y % G
      BY <2>3, <2>4 DEF LowOf
    <3>1. 1 = G * (1 \div G) /\ 1 \div G \in Nat
      BY Multiple
    <3>2. G = 1
      BY <3>1
    <3> QED
      BY <3>2
  <2>5. CASE k # 1
    <3> DEFINE j == k \div 2
    <3>1. j \in 1 .. HASHES /\ j < k
      <4>1. k \in Nat /\ k > 1 /\ k <= HASHES
        BY <1>0, <2>3, <2>5
      <4>2. j \in 1 .. k - 1
        BY <4>1, Half
      <4> QED
        BY <1>0, <4>1, <4>2
    <3>2. j \notin T
      BY <2>2, <3>1
    <3>3. LowOf(j)
      BY <3>1, <3>2
    <3>4. LowOf(k)
      BY <2>3, <2>5, <3>3, XorLowStep
    <3> QED
      BY <2>3, <3>4
  <2> QED
    BY <2>4, <2>5
<1> QED
  BY <1>0, <1>1

(* Exclusive or works bit by bit: the low bits of the result are those of  *)
(* the low bits of the first operand, and just these if the second one has *)
(* none.                                                                   *)
SameLow(n) ==
    \A G \in Nat \ {0} : PowerOf2(G) /\ n % G = 0 =>
        \A x, y, z \in Nat :
            /\ x % G = z % G => xor[n][x][y] % G = xor[n][z][y] % G
            /\ y % G = 0 => xor[n][x][y] % G = x % G

(* The low bits of a number: those of its half, and the lowest one.        *)
LEMMA LowBits ==
    ASSUME NEW H \in Nat \ {0}, NEW x \in Nat
    PROVE  /\ x % (2 * H) = 2 * ((x \div 2) % H) + (x % 2)
           /\ (x \div 2) % H \in Nat /\ x % 2 \in 0 .. 1 /\ x \div 2 \in Nat
<1> DEFINE a == x \div 2
           b == x % 2
<1>1. a \in Nat /\ b \in Nat /\ b < 2 /\ b \in 0 .. 1 /\ x = 2 * a + b
  OBVIOUS
<1> HIDE DEF a, b
<1>2. (2 * a + b) % (2 * H) = 2 * (a % H) + b
  BY <1>1, ModDouble
<1>3. a % H \in Nat
  BY <1>1, ModNat
<1> QED
  BY <1>1, <1>2, <1>3 DEF a, b

(* ... and those of the exclusive or.                                      *)
LEMMA XorBits ==
    ASSUME NEW n \in 1 .. HASHES, n # 1, n \div 2 \in 1 .. HASHES, NEW H \in Nat \ {0}, NEW x \in Nat, NEW y \in Nat
    PROVE  /\ xor[n][x][y] % (2 * H) = 2 * (xor[n \div 2][x \div 2][y \div 2] % H) + ((x + y) % 2)
           /\ xor[n \div 2][x \div 2][y \div 2] % H \in Nat
<1> DEFINE j == n \div 2
           xa == x \div 2
           ya == y \div 2
           a == xor[j][xa][ya]
           p == (x + y) % 2
<1>1. xor[n][x][y] = XorBody(xor, n, x, y)
  BY XorStep
<1>2. xor[n][x][y] = 2 * a + p
  BY <1>1 DEF XorBody
<1>3. xa \in Nat /\ ya \in Nat /\ p \in Nat /\ p < 2
  OBVIOUS
<1>4. a \in Nat
  <2> HIDE DEF j, xa, ya
  <2>1. j \in 1 .. HASHES
    BY DEF j
  <2> QED
    BY <1>3, <2>1, XorNat
<1> HIDE DEF a, p
<1>5. (2 * a + p) % (2 * H) = 2 * (a % H) + p
  BY <1>3, <1>4, ModDouble
<1>6. a % H \in Nat
  BY <1>4, ModNat
<1> QED
  BY <1>2, <1>5, <1>6 DEF a, p

(* One step of the induction.                                              *)
LEMMA SameLowStep ==
    ASSUME NEW n \in 1 .. HASHES, n # 1, n \div 2 \in 1 .. HASHES, SameLow(n \div 2)
    PROVE  SameLow(n)
<1>s. SUFFICES ASSUME NEW G \in Nat \ {0}, PowerOf2(G), n % G = 0, NEW x \in Nat, NEW y \in Nat, NEW z \in Nat
             PROVE  /\ x % G = z % G => xor[n][x][y] % G = xor[n][z][y] % G
                    /\ y % G = 0 => xor[n][x][y] % G = x % G
  BY DEF SameLow
<1> DEFINE j == n \div 2
           H == G \div 2
<1>0. HASHES \in Nat
  BY HtabAssumption DEF PowerOf2
<1>1. CASE G = 1
  <2>1. xor[n][x][y] \in Nat /\ xor[n][z][y] \in Nat
    BY XorNat
  <2>2. \A k \in Nat : k % 1 = 0
    OBVIOUS
  <2> QED
    BY <1>1, <2>1, <2>2
<1>2. CASE G # 1
  <2>1. H \in Nat \ {0} /\ G = 2 * H /\ PowerOf2(H)
    BY <1>s, <1>2, PowerHalf
  <2>2. PICK k \in Nat : n = G * k
    <3>1. n = G * (n \div G) /\ n \div G \in Nat
      BY <1>s, <1>0, Multiple
    <3> HIDE DEF j
    <3> QED
      BY <3>1
  <2> HIDE DEF H
  <2>3. H * k \in Nat /\ n = 2 * (H * k)
    BY <2>1, <2>2
  <2>4. j = H * k /\ j \in Nat
    <3> DEFINE i == H * k
    <3> HIDE DEF i
    <3>1. i \in Nat /\ n = 2 * i
      BY <2>3 DEF i
    <3>2. n \div 2 = i
      BY <3>1
    <3> QED
      BY <3>1, <3>2 DEF i
  <2>5. j % H = 0
    <3>1. H % H = 0
      BY <2>1
    <3>2. (k * H) % H = 0 /\ k * H = H * k
      BY <2>1, <3>1, MultipleProduct
    <3> QED
      BY <2>4, <3>2
  <2> DEFINE xa == x \div 2
             ya == y \div 2
             za == z \div 2
             a == xor[j][xa][ya]
             b == xor[j][za][ya]
             ra == xor[j][xa][ya] % H
             rb == xor[j][za][ya] % H
             rx == xa % H
             ry == ya % H
             rz == za % H
             p == (x + y) % 2
             q == (z + y) % 2
             px == x % 2
             py == y % 2
             pz == z % 2
  <2>6. /\ x % G = 2 * rx + px /\ y % G = 2 * ry + py /\ z % G = 2 * rz + pz
        /\ rx \in Nat /\ ry \in Nat /\ rz \in Nat /\ px \in 0 .. 1 /\ py \in 0 .. 1 /\ pz \in 0 .. 1
        /\ xa \in Nat /\ ya \in Nat /\ za \in Nat
    BY <2>1, LowBits
  <2>7. xor[n][x][y] % G = 2 * ra + p /\ xor[n][z][y] % G = 2 * rb + q /\ ra \in Nat /\ rb \in Nat
    <3>1. xor[n][x][y] % (2 * H) = 2 * ra + p /\ ra \in Nat
      BY <2>1, XorBits, Zenon
    <3>2. xor[n][z][y] % (2 * H) = 2 * rb + q /\ rb \in Nat
      BY <2>1, XorBits, Zenon
    <3> HIDE DEF ra, rb, p, q
    <3> QED
      BY <2>1, <3>1, <3>2, Zenon
  <2>8. p \in 0 .. 1 /\ q \in 0 .. 1 /\ (px = pz => p = q) /\ (py = 0 => p = px)
    <3>1. \A i, l \in Nat : (i + l) % 2 = ((i % 2) + (l % 2)) % 2 /\ (i + l) % 2 \in 0 .. 1 /\ i % 2 \in 0 .. 1
      OBVIOUS
    <3>2. \A i \in 0 .. 1 : (i + 0) % 2 = i
      OBVIOUS
    <3> QED
      BY <3>1, <3>2
  <2>9. (rx = rz => ra = rb) /\ (ry = 0 => ra = rx)
    <3> HIDE DEF j, xa, ya, za
    <3>1. SameLow(j)
      BY DEF j
    <3>2. xa \in Nat /\ ya \in Nat /\ za \in Nat
      BY <2>6
    <3>3. \A i, l, o \in Nat :
            /\ i % H = o % H => xor[j][i][l] % H = xor[j][o][l] % H
            /\ l % H = 0 => xor[j][i][l] % H = i % H
      BY <2>1, <2>5, <3>1 DEF SameLow
    <3> DEFINE F(i, l) == xor[j][i][l] % H
               L(i) == i % H
    <3>4. \A i, l, o \in Nat : (L(i) = L(o) => F(i, l) = F(o, l)) /\ (L(l) = 0 => F(i, l) = L(i))
      BY <3>3, Zenon
    <3> HIDE DEF F, L
    <3>5. (L(xa) = L(za) => F(xa, ya) = F(za, ya)) /\ (L(ya) = 0 => F(xa, ya) = L(xa))
      BY <3>2, <3>4
    <3> QED
      BY <3>5, Zenon DEF F, L
  <2> HIDE DEF ra, rb, rx, ry, rz, p, q, px, py, pz
  <2>10. ASSUME x % G = z % G PROVE xor[n][x][y] % G = xor[n][z][y] % G
    <3>1. rx = rz /\ px = pz
      BY <2>6, <2>10
    <3> QED
      BY <2>7, <2>8, <2>9, <3>1
  <2>11. ASSUME y % G = 0 PROVE xor[n][x][y] % G = x % G
    <3>1. ry = 0 /\ py = 0
      BY <2>6, <2>11
    <3> QED
      BY <2>6, <2>7, <2>8, <2>9, <3>1
  <2> QED
    BY <2>10, <2>11
<1> QED
  BY <1>1, <1>2

(* It holds for the exclusive or of any number of bits.                    *)
LEMMA SameLowAlways ==
    ASSUME NEW n \in 1 .. HASHES
    PROVE  SameLow(n)
<1> DEFINE T == {k \in Nat : k \in 1 .. HASHES /\ ~SameLow(k)}
<1>0. HASHES \in Nat
  BY HtabAssumption DEF PowerOf2
<1>1. ASSUME T # {} PROVE FALSE
  <2>1. T \subseteq Nat
    OBVIOUS
  <2>2. PICK k \in T : \A j \in T : k <= j
    <3> HIDE DEF T
    <3> QED
      BY <1>1, <2>1, NatMin
  <2>3. k \in 1 .. HASHES /\ ~SameLow(k)
    BY <2>2
  <2>4. CASE k = 1
    <3>1. \E G \in Nat \ {0} : 1 % G = 0 /\ \E x, y, z \in Nat :
             ~(/\ x % G = z % G => xor[1][x][y] % G = xor[1][z][y] % G
               /\ y % G = 0 => xor[1][x][y] % G = x % G)
      BY <2>3, <2>4 DEF SameLow
    <3>2. PICK G \in Nat \ {0} : 1 % G = 0 /\ \E x, y, z \in Nat :
             ~(/\ x % G = z % G => xor[1][x][y] % G = xor[1][z][y] % G
               /\ y % G = 0 => xor[1][x][y] % G = x % G)
      BY <3>1
    <3>3. 1 = G * (1 \div G) /\ 1 \div G \in Nat
      BY <3>2, Multiple
    <3>4. G = 1
      BY <3>3
    <3>5. PICK x \in Nat, y \in Nat, z \in Nat :
             ~(/\ x % 1 = z % 1 => xor[1][x][y] % 1 = xor[1][z][y] % 1
               /\ y % 1 = 0 => xor[1][x][y] % 1 = x % 1)
      BY <3>2, <3>4
    <3>6. xor[1][x][y] \in Nat /\ xor[1][z][y] \in Nat
      BY <2>3, <2>4, XorNat
    <3>7. \A i \in Nat : i % 1 = 0
      OBVIOUS
    <3> QED
      BY <3>5, <3>6, <3>7
  <2>5. CASE k # 1
    <3> DEFINE j == k \div 2
    <3>1. j \in 1 .. HASHES /\ j < k
      <4>1. k \in Nat /\ k > 1 /\ k <= HASHES
        BY <1>0, <2>3, <2>5
      <4>2. j \in 1 .. k - 1
        BY <4>1, Half
      <4> QED
        BY <1>0, <4>1, <4>2
    <3>2. j \notin T
      BY <2>2, <3>1
    <3>3. SameLow(j)
      BY <3>1, <3>2
    <3>4. SameLow(k)
      BY <2>3, <2>5, <3>1, <3>3, SameLowStep
    <3> QED
      BY <2>3, <3>4
  <2> QED
    BY <2>4, <2>5
<1> QED
  BY <1>0, <1>1

(* The VSID once more, further up than the table has groups, is not seen.  *)
LEMMA XorTwice ==
    ASSUME NEW v \in Nat, NEW s \in Nat, s % PTEGS = 0, NEW p \in Nat
    PROVE  Xor(Xor(v, s), p) % PTEGS = Xor(v, p) % PTEGS
<1>1. PTEGS \in Nat \ {0} /\ PowerOf2(PTEGS) /\ HASHES % PTEGS = 0 /\ HASHES \in 1 .. HASHES
  BY HtabAssumption DEF PowerOf2
<1>2. SameLow(HASHES)
  BY <1>1, SameLowAlways
<1> DEFINE w == Xor(v, s)
<1>3. w \in Nat /\ w = xor[HASHES][v][s]
  BY <1>1, XorNat DEF Xor
<1>4. w % PTEGS = v % PTEGS
  BY <1>1, <1>2, <1>3 DEF SameLow
<1> HIDE DEF w
<1>5. xor[HASHES][w][p] % PTEGS = xor[HASHES][v][p] % PTEGS
  BY <1>1, <1>2, <1>3, <1>4 DEF SameLow
<1> QED
  BY <1>5 DEF Xor, w

(* Pages of one segment in one group are the same page, if the segment has *)
(* no more pages than the table has groups.                                *)
LEMMA XorOneToOne ==
    ASSUME NEW v \in Nat, NEW x \in Nat, NEW y \in Nat, x < PTEGS, y < PTEGS,
           Xor(v, x) % PTEGS = Xor(v, y) % PTEGS
    PROVE  x = y
<1>1. PTEGS \in Nat \ {0} /\ PowerOf2(PTEGS) /\ HASHES % PTEGS = 0 /\ HASHES \in 1 .. HASHES
  BY HtabAssumption DEF PowerOf2
<1>2. LowOf(HASHES)
  BY <1>1, XorLow
<1>3. x % PTEGS = y % PTEGS
  BY <1>1, <1>2 DEF LowOf, Xor
<1>4. (PTEGS * 0 + x) % PTEGS = x /\ (PTEGS * 0 + y) % PTEGS = y
  BY <1>1, DivUnique
<1> QED
  BY <1>1, <1>3, <1>4

(* A hash is a number, and picks a group.                                  *)
LEMMA XorGroup ==
    ASSUME NEW x \in Nat, NEW y \in Nat
    PROVE  Xor(x, y) \in Nat /\ Xor(x, y) % PTEGS \in 0 .. PTEGS - 1
<1>1. PTEGS \in Nat \ {0} /\ HASHES \in 1 .. HASHES
  BY HtabAssumption DEF PowerOf2
<1>2. Xor(x, y) \in Nat
  BY <1>1, XorNat DEF Xor
<1> QED
  BY <1>1, <1>2, DivMod

-----------------------------------------------------------------------------
(***************************************************************************)
(* Pages, segments and groups.                                             *)
(***************************************************************************)
(* The sizes are numbers, and segments have whole large pages.             *)
LEMMA SizeFacts ==
    /\ LARGE \in Nat \ {0} /\ DROP \in Nat \ {0} /\ LARGE = 2 * DROP /\ LARGE > 1
    /\ SEG \in Nat \ {0} /\ TERA \in Nat \ {0} /\ SEG % LARGE = 0 /\ TERA % LARGE = 0
    /\ PTEGS \in Nat \ {0} /\ SEG <= PTEGS /\ TERA <= PTEGS * LARGE
BY HtabAssumption, GroupAssumption DEF PowerOf2

(* The page of an address, within its segment.                             *)
LEMMA PageInSegment ==
    ASSUME NEW L \in Nat \ {0}, NEW S \in Nat \ {0}, NEW u \in Nat, S % L = 0
    PROVE  /\ Div(S, L) \in Nat \ {0} /\ Div(u, S) = Div(Div(u, L), Div(S, L))
           /\ Div(u, L) = Div(S, L) * Div(u, S) + Div(Rem(u, S), L)
<1> DEFINE K == S \div L
           q == u \div S
           r == u % S
           x == r \div L
           s == r % L
<1>1. S = L * K /\ K \in Nat
  BY Multiple
<1>2. u = S * q + r /\ q \in Nat /\ r \in Nat
  BY DivMod
<1>3. r = L * x + s /\ x \in Nat /\ s \in 0 .. L - 1
  BY <1>2, DivMod
<1> HIDE DEF K, q, r, x, s
<1>4. K # 0
  BY <1>1
<1>5. K * q \in Nat /\ u = L * (K * q) + L * x + s
  BY <1>1, <1>2, <1>3
<1> DEFINE y == K * q + x
<1>6. y \in Nat /\ u = L * y + s
  BY <1>1, <1>2, <1>3, <1>5
<1> HIDE DEF y
<1>7. (L * y + s) \div L = y
  BY <1>3, <1>6, DivUnique
<1>8. u \div L = y
  BY <1>6, <1>7
<1>9. (u \div L) \div K = u \div (L * K)
  BY <1>1, <1>4, DivTwice
<1> QED
  BY <1>1, <1>4, <1>8, <1>9 DEF y, K, q, r, x, Div, Rem

(* The segment and the page of an address.                                 *)
BaseOf(b) == IF b = "1T" THEN "16M" ELSE "4K"
VsidOf(b, u) == u \div SegPages(b)
PageOf(base, u) == u \div Units(base)
OffOf(b, u) == (u % SegPages(b)) \div Units(BaseOf(b))

(* ... are numbers.                                                        *)
LEMMA PlaceNat ==
    ASSUME NEW b \in {"256M", "1T"}, NEW u \in Nat
    PROVE  /\ VsidOf(b, u) \in Nat /\ OffOf(b, u) \in Nat /\ OffOf(b, u) < PTEGS
           /\ PageOf(BaseOf(b), u) \in Nat
<1>1. CASE b = "256M"
  <2>1. SegPages(b) = SEG /\ BaseOf(b) = "4K" /\ Units("4K") = 1
    BY <1>1 DEF SegPages, BaseOf, Units
  <2>2. SEG \in Nat \ {0} /\ PTEGS \in Nat /\ SEG <= PTEGS
    BY SizeFacts
  <2> DEFINE q == u \div SEG
             r == u % SEG
  <2>3. q \in Nat /\ r \in 0 .. SEG - 1
    BY <2>2, DivMod
  <2> HIDE DEF q, r
  <2>4. r \div 1 = r /\ u \div 1 = u
    BY <2>2, <2>3
  <2>5. VsidOf(b, u) = q /\ OffOf(b, u) = r /\ PageOf(BaseOf(b), u) = u
    BY <2>1, <2>4 DEF VsidOf, OffOf, PageOf, q, r
  <2> QED
    BY <2>2, <2>3, <2>5
<1>2. CASE b = "1T"
  <2>1. SegPages(b) = TERA /\ BaseOf(b) = "16M" /\ Units("16M") = LARGE
    BY <1>2 DEF SegPages, BaseOf, Units
  <2>2. TERA \in Nat \ {0} /\ LARGE \in Nat \ {0} /\ PTEGS \in Nat /\ TERA <= PTEGS * LARGE
    BY SizeFacts
  <2> DEFINE q == u \div TERA
             r == u % TERA
             x == Div(r, LARGE)
             s == Rem(r, LARGE)
  <2>3. q \in Nat /\ r \in 0 .. TERA - 1
    BY <2>2, DivMod
  <2> HIDE DEF q, r
  <2>4. r = LARGE * x + s /\ x \in Nat /\ s \in Nat /\ s < LARGE
    BY <2>2, <2>3, DivRem
  <2> HIDE DEF x, s
  <2>5. x < PTEGS
    <3>1. ASSUME PTEGS <= x PROVE PTEGS * LARGE <= LARGE * x
      BY <2>2, <2>4, <3>1
    <3>2. LARGE * x < TERA
      BY <2>2, <2>3, <2>4
    <3> QED
      BY <2>2, <2>4, <3>1, <3>2
  <2>6. VsidOf(b, u) = q /\ OffOf(b, u) = x /\ PageOf(BaseOf(b), u) = u \div LARGE
    BY <2>1 DEF VsidOf, OffOf, PageOf, q, r, x, Div
  <2>7. u \div LARGE \in Nat
    BY <2>2, DivMod
  <2> QED
    BY <2>2, <2>3, <2>4, <2>5, <2>6, <2>7
<1> QED
  BY <1>1, <1>2

(* A page is a segment and a page in it.                                   *)
LEMMA PagePlace ==
    ASSUME NEW b \in {"256M", "1T"}, NEW u \in Nat, NEW w \in Nat
    PROVE  PageOf(BaseOf(b), u) = PageOf(BaseOf(b), w) <=>
             VsidOf(b, u) = VsidOf(b, w) /\ OffOf(b, u) = OffOf(b, w)
<1> DEFINE L == Units(BaseOf(b))
           S == SegPages(b)
           K == Div(S, L)
<1>1. L \in Nat \ {0} /\ S \in Nat \ {0} /\ S % L = 0
  BY SizeFacts DEF Units, BaseOf, SegPages
<1> HIDE DEF L, S
<1>2. Div(u, S) = Div(Div(u, L), K) /\ Div(u, L) = K * Div(u, S) + Div(Rem(u, S), L) /\ K \in Nat \ {0}
  BY <1>1, PageInSegment
<1>3. Div(w, S) = Div(Div(w, L), K) /\ Div(w, L) = K * Div(w, S) + Div(Rem(w, S), L)
  BY <1>1, PageInSegment
<1> DEFINE uv == VsidOf(b, u)
           uo == OffOf(b, u)
           up == PageOf(BaseOf(b), u)
           wv == VsidOf(b, w)
           wo == OffOf(b, w)
           wp == PageOf(BaseOf(b), w)
<1>4. uv = Div(up, K) /\ up = K * uv + uo /\ wv = Div(wp, K) /\ wp = K * wv + wo
  <2>1. Div(u, S) = uv /\ Div(u, L) = up /\ Div(Rem(u, S), L) = uo
    BY DEF VsidOf, OffOf, PageOf, L, S, Div, Rem
  <2>2. Div(w, S) = wv /\ Div(w, L) = wp /\ Div(Rem(w, S), L) = wo
    BY DEF VsidOf, OffOf, PageOf, L, S, Div, Rem
  <2> HIDE DEF uv, uo, up, wv, wo, wp
  <2> QED
    BY <1>2, <1>3, <2>1, <2>2
<1>5. uv \in Nat /\ uo \in Nat /\ up \in Nat /\ wv \in Nat /\ wo \in Nat /\ wp \in Nat
  BY PlaceNat
<1> HIDE DEF uv, uo, up, wv, wo, wp, K
<1>6. up = wp => uv = wv
  BY <1>4
<1>7. ASSUME up = wp, uv = wv PROVE uo = wo
  <2> DEFINE z == K * uv
  <2>1. z \in Nat
    <3>1. K \in Nat /\ uv \in Nat
      BY <1>2, <1>5
    <3> QED
      BY <3>1
  <2>2. up = z + uo /\ wp = K * wv + wo
    BY <1>4
  <2>3. up = z + wo
    BY <2>2, <1>7, Zenon
  <2> HIDE DEF z
  <2> QED
    BY <1>5, <2>1, <2>2, <2>3
<1>8. uv = wv /\ uo = wo => up = wp
  BY <1>4
<1> QED
  BY <1>6, <1>7, <1>8 DEF uv, uo, up, wv, wo, wp

(* What the VSID contributes to a hash.                                    *)
Salt(v) == Xor(v, v * VSID_STEP)

(* ... is a number, of which a small table sees the VSID only.             *)
LEMMA SaltFacts ==
    ASSUME NEW v \in Nat, NEW p \in Nat
    PROVE  Salt(v) \in Nat /\ Xor(Salt(v), p) % PTEGS = Xor(v, p) % PTEGS
<1> DEFINE s == v * VSID_STEP
<1>1. VSID_STEP \in Nat /\ VSID_STEP % PTEGS = 0 /\ PTEGS \in Nat \ {0}
  BY GroupAssumption, SizeFacts
<1>2. s \in Nat /\ s % PTEGS = 0
  BY <1>1, MultipleProduct
<1> HIDE DEF s
<1>3. Xor(v, s) \in Nat /\ Xor(Xor(v, s), p) % PTEGS = Xor(v, p) % PTEGS
  BY <1>2, XorGroup, XorTwice
<1> QED
  BY <1>3 DEF Salt, s

(* The group of an address is that of the hardware, and depends on the     *)
(* page.                                                                   *)
LEMMA GroupFacts ==
    ASSUME NEW b \in {"256M", "1T"}, NEW u \in Nat
    PROVE  /\ Pteg(u, b, BaseOf(b)) = Xor(Salt(VsidOf(b, u)), OffOf(b, u)) % PTEGS
           /\ HwGroup(u, b, BaseOf(b)) = Pteg(u, b, BaseOf(b))
           /\ Pteg(u, b, BaseOf(b)) \in 0 .. PTEGS - 1
<1> DEFINE v == VsidOf(b, u)
           x == OffOf(b, u)
<1>1. Pteg(u, b, BaseOf(b)) = Xor(Salt(v), x) % PTEGS
  BY DEF Pteg, vpn_hash, VsidOf, OffOf, Salt
<1>2. HwGroup(u, b, BaseOf(b)) = Xor(IF b = "1T" THEN Salt(v) ELSE v, x) % PTEGS
  BY DEF HwGroup, VsidOf, OffOf, Salt
<1>3. v \in Nat /\ x \in Nat
  BY PlaceNat
<1> HIDE DEF v, x
<1>4. Salt(v) \in Nat /\ Xor(Salt(v), x) % PTEGS = Xor(v, x) % PTEGS
  BY <1>3, SaltFacts
<1>5. Xor(Salt(v), x) % PTEGS \in 0 .. PTEGS - 1
  BY <1>3, <1>4, XorGroup
<1>6. HwGroup(u, b, BaseOf(b)) = Pteg(u, b, BaseOf(b))
  BY <1>1, <1>2, <1>4
<1> QED
  BY <1>1, <1>5, <1>6 DEF v, x

(* Pages of one segment in one group are the same.                         *)
LEMMA OneGroup ==
    ASSUME NEW b \in {"256M", "1T"}, NEW u \in Nat, NEW w \in Nat,
           VsidOf(b, u) = VsidOf(b, w), Pteg(u, b, BaseOf(b)) = Pteg(w, b, BaseOf(b))
    PROVE  PageOf(BaseOf(b), u) = PageOf(BaseOf(b), w)
<1> DEFINE v == Salt(VsidOf(b, u))
           x == OffOf(b, u)
           y == OffOf(b, w)
<1>1. v \in Nat /\ x \in Nat /\ y \in Nat /\ x < PTEGS /\ y < PTEGS
  BY PlaceNat, SaltFacts
<1>2. Xor(v, x) % PTEGS = Xor(v, y) % PTEGS
  BY GroupFacts
<1> HIDE DEF v, x, y
<1>3. x = y
  BY <1>1, <1>2, XorOneToOne
<1> QED
  BY <1>3, PagePlace DEF x, y

(* One page has one group.                                                 *)
LEMMA PageGroup ==
    ASSUME NEW b \in {"256M", "1T"}, NEW u \in Nat, NEW w \in Nat,
           PageOf(BaseOf(b), u) = PageOf(BaseOf(b), w)
    PROVE  Pteg(u, b, BaseOf(b)) = Pteg(w, b, BaseOf(b)) /\ VsidOf(b, u) = VsidOf(b, w)
BY PagePlace, GroupFacts

(* What an abbreviated page number tells of the address.                   *)
Start(avpn) == avpn * DROP
SegmentOf(avpn, b) == (avpn * DROP) \div SegPages(b)

(* For a base page of 16M it is twice the page number.                     *)
LEMMA AvpnLarge ==
    ASSUME NEW u \in Nat
    PROVE  /\ PageOf("16M", u) \in Nat
           /\ avpn_encode(u, "16M") = 2 * PageOf("16M", u)
           /\ Div(avpn_encode(u, "16M"), 2) = PageOf("16M", u)
           /\ Start(avpn_encode(u, "16M")) = LARGE * PageOf("16M", u)
<1> DEFINE v == u \div DROP
           p == u \div LARGE
<1>1. DROP \in Nat \ {0} /\ LARGE \in Nat \ {0} /\ LARGE = DROP * 2
  BY SizeFacts
<1>2. v \in Nat
  BY <1>1, DivMod
<1>3. v \div 2 = p
  <2>1. (u \div DROP) \div 2 = u \div (DROP * 2)
    BY <1>1, DivTwice
  <2> QED
    BY <1>1, <2>1
<1>4. avpn_encode(u, "16M") = v - (v % 2) /\ PageOf("16M", u) = p
  BY DEF avpn_encode, PageOf, Units
<1>5. p \in Nat
  BY <1>1, DivMod
<1> HIDE DEF v, p
<1>6. v - (v % 2) = 2 * p
  BY <1>2, <1>3
<1>7. (2 * p) \div 2 = p
  BY <1>5
<1>8. 2 * p * DROP = LARGE * p
  BY <1>1, <1>5
<1> QED
  BY <1>4, <1>5, <1>6, <1>7, <1>8 DEF Start, Div

(* Rounding down to a divisor of the segment stays in the segment.         *)
LEMMA RoundInSegment ==
    ASSUME NEW d \in Nat \ {0}, NEW S \in Nat \ {0}, NEW u \in Nat, S % d = 0
    PROVE  Div(d * Div(u, d), S) = Div(u, S) /\ d * Div(u, d) \in Nat
<1> DEFINE q == Div(u, d)
           a == d * q
           K == Div(S, d)
<1>1. q \in Nat
  BY DivRem
<1>2. Div(u, S) = Div(q, K)
  BY PageInSegment
<1> HIDE DEF q, K
<1>3. a \in Nat
  BY <1>1
<1>4. Div(a, S) = Div(Div(a, d), K)
  <2> HIDE DEF a
  <2> QED
    BY <1>3, PageInSegment DEF K
<1>5. Div(a, d) = q
  <2>1. (d * q + 0) \div d = q
    BY <1>1, DivUnique
  <2> QED
    BY <1>1, <2>1 DEF Div
<1> QED
  BY <1>2, <1>3, <1>4, <1>5 DEF q

(* The segment can be read off an abbreviated page number.                 *)
LEMMA AvpnSegment ==
    ASSUME NEW b \in {"256M", "1T"}, NEW u \in Nat
    PROVE  /\ SegmentOf(avpn_encode(u, BaseOf(b)), b) = VsidOf(b, u)
           /\ Start(avpn_encode(u, BaseOf(b))) \in Nat /\ avpn_encode(u, BaseOf(b)) \in Nat
<1>1. CASE b = "256M"
  <2> DEFINE v == Div(u, DROP)
  <2>1. avpn_encode(u, BaseOf(b)) = v /\ SegPages(b) = SEG
    BY <1>1 DEF avpn_encode, BaseOf, SegPages, Div
  <2>2. DROP \in Nat \ {0} /\ SEG \in Nat \ {0} /\ SEG % DROP = 0
    <3>1. DROP \in Nat \ {0} /\ SEG \in Nat \ {0} /\ LARGE \in Nat \ {0} /\ SEG % LARGE = 0 /\ LARGE = 2 * DROP
      BY SizeFacts
    <3> DEFINE k == SEG \div LARGE
    <3>2. SEG = LARGE * k /\ k \in Nat
      BY <3>1, Multiple
    <3> HIDE DEF k
    <3>3. 2 * k \in Nat /\ SEG = DROP * (2 * k) + 0
      BY <3>1, <3>2
    <3> DEFINE j == 2 * k
    <3>4. j \in Nat /\ SEG = DROP * j + 0
      BY <3>3
    <3> HIDE DEF j
    <3>5. (DROP * j + 0) % DROP = 0
      BY <3>1, <3>4, DivUnique
    <3> QED
      BY <3>1, <3>4, <3>5
  <2>3. Div(DROP * v, SEG) = Div(u, SEG) /\ DROP * v \in Nat
    BY <2>2, RoundInSegment
  <2>4. v \in Nat
    BY <2>2, DivRem
  <2> HIDE DEF v
  <2>5. Start(v) = DROP * v
    BY <2>2, <2>4 DEF Start
  <2>6. SegmentOf(v, b) = Div(Start(v), SEG) /\ VsidOf(b, u) = Div(u, SEG)
    BY <2>1 DEF SegmentOf, Start, VsidOf, Div
  <2> QED
    BY <2>1, <2>3, <2>4, <2>5, <2>6
<1>2. CASE b = "1T"
  <2> DEFINE v == avpn_encode(u, "16M")
  <2>1. BaseOf(b) = "16M" /\ SegPages(b) = TERA
    BY <1>2 DEF BaseOf, SegPages
  <2>2. LARGE \in Nat \ {0} /\ TERA \in Nat \ {0} /\ TERA % LARGE = 0
    BY SizeFacts
  <2>3. Start(v) = LARGE * Div(u, LARGE) /\ v \in Nat
    BY AvpnLarge DEF PageOf, Units, Div
  <2> HIDE DEF v
  <2>4. Div(LARGE * Div(u, LARGE), TERA) = Div(u, TERA) /\ LARGE * Div(u, LARGE) \in Nat
    BY <2>2, RoundInSegment
  <2>5. SegmentOf(v, b) = Div(Start(v), TERA) /\ VsidOf(b, u) = Div(u, TERA)
    BY <2>1 DEF SegmentOf, Start, VsidOf, Div
  <2> QED
    BY <2>1, <2>3, <2>4, <2>5 DEF v
<1> QED
  BY <1>1, <1>2

(* The start of the large page that holds u, and of the page of size s.    *)
Down(s, u) == u - (u % Units(s))

(* Addresses of a page that is aligned.                                    *)
LEMMA DownFacts ==
    ASSUME NEW s \in Pages, NEW m \in Nat, NEW u \in Nat, m % Units(s) = 0
    PROVE  /\ Down(s, u) = m <=> m <= u /\ u < m + Units(s)
           /\ Down(s, u) = m <=> PageOf(s, u) = PageOf(s, m)
<1> DEFINE d == Units(s)
           q == u \div d
           r == u % d
           p == m \div d
<1>1. d \in Nat \ {0}
  BY SizeFacts DEF Units
<1> HIDE DEF d
<1>2. u = d * q + r /\ q \in Nat /\ r \in Nat /\ r < d
  BY <1>1, DivMod
<1>3. m = d * p /\ p \in Nat
  BY <1>1, Multiple DEF d
<1>4. Down(s, u) = u - r /\ PageOf(s, u) = q /\ PageOf(s, m) = p
  BY DEF Down, PageOf, d
<1> HIDE DEF q, r, p
<1>5. Down(s, u) = d * q
  <2> DEFINE z == d * q
  <2>1. z \in Nat /\ u = z + r
    BY <1>1, <1>2
  <2> HIDE DEF z
  <2>2. u - r = z
    BY <1>2, <2>1
  <2> QED
    BY <1>4, <2>2 DEF z
<1>6. ASSUME q = p PROVE m <= u /\ u < m + d /\ Down(s, u) = m
  <2>1. u = m + r /\ Down(s, u) = m
    BY <1>2, <1>3, <1>5, <1>6
  <2> QED
    BY <1>1, <1>2, <2>1
<1>7. ASSUME m <= u, u < m + d PROVE q = p
  <2>1. d * (p + 1) = m + d
    BY <1>1, <1>3
  <2>2. ASSUME q < p PROVE FALSE
    <3>1. d * (q + 1) <= d * p
      BY <1>1, <1>2, <1>3, <2>2
    <3>2. d * (q + 1) = d * q + d
      BY <1>1, <1>2
    <3> QED
      BY <1>1, <1>2, <1>3, <1>7, <3>1, <3>2
  <2>3. ASSUME p < q PROVE FALSE
    <3>1. d * (p + 1) <= d * q
      BY <1>1, <1>2, <1>3, <2>3
    <3> QED
      BY <1>1, <1>2, <1>3, <1>7, <2>1, <3>1
  <2> QED
    BY <1>2, <1>3, <2>2, <2>3
<1>8. ASSUME Down(s, u) = m PROVE q = p
  <2>1. d * q = d * p
    BY <1>3, <1>5, <1>8
  <2> QED
    BY <1>1, <1>2, <1>3, <2>1
<1> QED
  BY <1>4, <1>6, <1>7, <1>8 DEF d

-----------------------------------------------------------------------------
(***************************************************************************)
(* Mappings and their entries.                                             *)
(***************************************************************************)
(* The segments that are in use, and where they end.                       *)
Vsids(b) == IF b = "1T" THEN {HV_VSID, GRM_VSID} ELSE {AIL_VSID} \cup 0 .. SEGMENTS - 1
SegEnd(b, v) == IF b = "1T" /\ v = HV_VSID THEN v * TERA + HvEnd ELSE (v + 1) * SegPages(b)

(* A mapping of whole pages in one of them.                                *)
In(m, v) == v * SegPages(m.b) <= m.vpn /\ m.vpn + Units(m.actual) <= SegEnd(m.b, v)
Sound(m) ==
    /\ m \in Mappings /\ m.base = BaseOf(m.b)
    /\ m.base = "16M" => m.actual = "16M"
    /\ m.vpn % Units(m.actual) = 0
    /\ \E v \in Vsids(m.b) : In(m, v)

Clear(m, n) ==
    m.b = n.b => m.vpn + Units(m.actual) <= n.vpn \/ n.vpn + Units(n.actual) <= m.vpn

(* The addresses for which it has an entry, one for each base page, and    *)
(* the entry.                                                              *)
Parts(m) == IF m.base = "16M" THEN {m.vpn} ELSE m.vpn .. m.vpn + Units(m.actual) - 1
Pte(m, u) ==
    [v |-> TRUE, b |-> m.b, avpn |-> avpn_encode(u, m.base), l |-> m.actual # "4K",
     lp |-> rpn_encode(m.base, m.actual), ra |-> m.ra]

(* The segments lie one after the other.                                   *)
LEMMA VsidFacts ==
    ASSUME NEW b \in {"256M", "1T"}, NEW v \in Vsids(b)
    PROVE  /\ v \in Nat /\ SegPages(b) \in Nat \ {0} /\ v * SegPages(b) \in Nat
           /\ SegEnd(b, v) \in Nat /\ SegEnd(b, v) <= (v + 1) * SegPages(b)
<1>1. v \in Nat
  BY VsidAssumption, GroupAssumption DEF Vsids
<1>2. SegPages(b) \in Nat \ {0}
  BY SizeFacts DEF SegPages
<1> DEFINE S == SegPages(b)
<1>3. v * S \in Nat /\ (v + 1) * S \in Nat /\ (v + 1) * S = v * S + S
  <2> HIDE DEF S
  <2>1. S \in Nat
    BY <1>2 DEF S
  <2> QED
    BY <1>1, <2>1
<1>4. SegEnd(b, v) \in Nat /\ SegEnd(b, v) <= (v + 1) * S
  <2>1. CASE b = "1T" /\ v = HV_VSID
    <3>1. S = TERA /\ SegEnd(b, v) = v * S + HvEnd
      BY <2>1 DEF SegEnd, SegPages
    <3>2. HvEnd \in Nat /\ HvEnd <= TERA /\ TERA \in Nat
      BY VsidAssumption, SizeFacts
    <3> DEFINE z == v * S
    <3> HIDE DEF z
    <3>3. z \in Nat /\ (v + 1) * S = z + TERA /\ SegEnd(b, v) = z + HvEnd
      BY <1>3, <3>1 DEF z
    <3> QED
      BY <3>2, <3>3
  <2>2. CASE ~(b = "1T" /\ v = HV_VSID)
    <3>1. SegEnd(b, v) = (v + 1) * S
      BY <2>2 DEF SegEnd
    <3> HIDE DEF S
    <3> QED
      BY <1>3, <3>1
  <2> QED
    BY <2>1, <2>2
<1> QED
  BY <1>1, <1>2, <1>3, <1>4

(* The fields of a mapping.                                                *)
LEMMA SoundFacts ==
    ASSUME NEW m, Sound(m)
    PROVE  /\ m.b \in {"256M", "1T"} /\ m.base = BaseOf(m.b) /\ m.actual \in Pages /\ m.vpn \in Nat /\ m.ra \in Nat
           /\ m.vpn % Units(m.actual) = 0 /\ Units(m.actual) \in Nat \ {0}
           /\ m.base = "16M" => m.actual = "16M" /\ Units(m.actual) = LARGE
           /\ m = [b |-> m.b, base |-> m.base, vpn |-> m.vpn, actual |-> m.actual, ra |-> m.ra]
<1>1. /\ m \in Mappings /\ m.base = BaseOf(m.b) /\ (m.base = "16M" => m.actual = "16M")
      /\ m.vpn % Units(m.actual) = 0
  BY DEF Sound
<1>2. Units(m.actual) \in Nat \ {0} /\ (m.actual = "16M" => Units(m.actual) = LARGE)
  BY SizeFacts DEF Units
<1> QED
  BY <1>1, <1>2 DEF Mappings

(* The addresses of its entries.                                           *)
LEMMA PartFacts ==
    ASSUME NEW m, Sound(m), NEW u
    PROVE  u \in Parts(m) <=>
             /\ u \in Nat /\ m.vpn <= u /\ u < m.vpn + Units(m.actual)
             /\ m.base = "16M" => u = m.vpn
BY SoundFacts DEF Parts

(* ... are in a segment that is in use.                                    *)
LEMMA PartVsid ==
    ASSUME NEW m, Sound(m), NEW u \in Parts(m)
    PROVE  \E v \in Vsids(m.b) : VsidOf(m.b, u) = v /\ v * SegPages(m.b) <= u /\ u < SegEnd(m.b, v) /\ In(m, v)
<1>1. PICK v \in Vsids(m.b) : In(m, v)
  BY DEF Sound
<1>2. u \in Nat /\ m.vpn <= u /\ u < m.vpn + Units(m.actual)
  BY PartFacts
<1>3. m.vpn \in Nat /\ Units(m.actual) \in Nat /\ m.b \in {"256M", "1T"}
  BY SoundFacts
<1> DEFINE S == SegPages(m.b)
           E == SegEnd(m.b, v)
           lo == v * S
           hi == (v + 1) * S
<1>4. v \in Nat /\ S \in Nat \ {0} /\ lo \in Nat /\ E \in Nat /\ E <= hi
  BY <1>3, VsidFacts
<1>5. lo <= m.vpn /\ m.vpn + Units(m.actual) <= E
  BY <1>1 DEF In
<1>6. hi \in Nat
  <2> HIDE DEF S
  <2> QED
    BY <1>4
<1>7. lo <= u /\ u < E /\ u < hi
  <2> HIDE DEF S, E, lo, hi
  <2> QED
    BY <1>2, <1>3, <1>4, <1>5, <1>6
<1>8. u \div S = v
  <2> HIDE DEF S, E
  <2> QED
    BY <1>2, <1>4, <1>7, DivIs
<1> QED
  BY <1>1, <1>7, <1>8 DEF VsidOf

(* Entries of one base page are the same entry of the same mapping.        *)
LEMMA SamePart ==
    ASSUME NEW m, NEW n, Sound(m), Sound(n), m.b = n.b, m = n \/ Clear(m, n),
           NEW u \in Parts(m), NEW w \in Parts(n),
           PageOf(BaseOf(m.b), u) = PageOf(BaseOf(m.b), w)
    PROVE  m = n /\ u = w
<1>1. u \in Nat /\ m.vpn <= u /\ u < m.vpn + Units(m.actual) /\ (m.base = "16M" => u = m.vpn)
  BY PartFacts
<1>2. w \in Nat /\ n.vpn <= w /\ w < n.vpn + Units(n.actual) /\ (n.base = "16M" => w = n.vpn)
  BY PartFacts
<1>3. /\ m.b \in {"256M", "1T"} /\ m.base = BaseOf(m.b) /\ m.vpn \in Nat /\ Units(m.actual) \in Nat
      /\ m.base = "16M" => m.vpn % LARGE = 0
  BY SoundFacts
<1>4. n.base = BaseOf(m.b) /\ n.vpn \in Nat /\ Units(n.actual) \in Nat /\ (n.base = "16M" => n.vpn % LARGE = 0)
  BY SoundFacts
<1>5. u = w
  <2>1. CASE m.b = "256M"
    <3>1. PageOf(BaseOf(m.b), u) = u \div 1 /\ PageOf(BaseOf(m.b), w) = w \div 1
      BY <2>1 DEF PageOf, BaseOf, Units
    <3>2. u \div 1 = u /\ w \div 1 = w
      BY <1>1, <1>2
    <3> QED
      BY <3>1, <3>2
  <2>2. CASE m.b = "1T"
    <3>1. BaseOf(m.b) = "16M" /\ Units("16M") = LARGE
      BY <2>2 DEF BaseOf, Units
    <3>2. u = m.vpn /\ w = n.vpn /\ u % Units("16M") = 0 /\ w % Units("16M") = 0
      BY <1>1, <1>2, <1>3, <1>4, <3>1
    <3>3. "16M" \in Pages
      BY DEF Pages
    <3>4. Down("16M", u) = u
      BY <1>1, <3>2, <3>3, DownFacts
    <3>5. Down("16M", u) = w
      BY <1>1, <1>2, <3>1, <3>2, <3>3, DownFacts
    <3> QED
      BY <3>4, <3>5
  <2> QED
    BY <1>3, <2>1, <2>2
<1>6. ~Clear(m, n)
  BY <1>1, <1>2, <1>3, <1>4, <1>5 DEF Clear
<1> QED
  BY <1>5, <1>6

(* Entries of a group with the same number and segment size are for the    *)
(* same base page.                                                         *)
LEMMA SameEntry ==
    ASSUME NEW b \in {"256M", "1T"}, NEW u \in Nat, NEW w \in Nat,
           Pteg(u, b, BaseOf(b)) = Pteg(w, b, BaseOf(b)),
           avpn_encode(u, BaseOf(b)) = avpn_encode(w, BaseOf(b))
    PROVE  PageOf(BaseOf(b), u) = PageOf(BaseOf(b), w)
<1> DEFINE a == avpn_encode(u, BaseOf(b))
<1>1. SegmentOf(a, b) = VsidOf(b, u)
  BY AvpnSegment
<1>2. SegmentOf(avpn_encode(w, BaseOf(b)), b) = VsidOf(b, w)
  BY AvpnSegment
<1>3. VsidOf(b, u) = VsidOf(b, w)
  BY <1>1, <1>2
<1> QED
  BY <1>3, OneGroup

(* Entries of the two segment sizes have different numbers, so it does not *)
(* matter that PTE_V_COMPARE leaves out the size.                          *)
LEMMA OtherSize ==
    ASSUME NEW m, NEW n, Sound(m), Sound(n), m.b = "1T", n.b = "256M",
           NEW u \in Parts(m), NEW w \in Parts(n)
    PROVE  avpn_encode(u, "16M") # avpn_encode(w, "4K")
<1>1. SUFFICES ASSUME avpn_encode(u, "16M") = avpn_encode(w, "4K") PROVE FALSE
  OBVIOUS
<1>2. BaseOf("1T") = "16M" /\ BaseOf("256M") = "4K" /\ Units("16M") = LARGE
  BY DEF BaseOf, Units
<1>3. /\ u \in Nat /\ u = m.vpn /\ u % LARGE = 0 /\ m.vpn \in Nat
      /\ Units(m.actual) = LARGE
  <2>1. m.base = "16M" /\ m.vpn % Units(m.actual) = 0 /\ Units(m.actual) = LARGE /\ m.vpn \in Nat
    BY <1>2, SoundFacts
  <2>2. u \in Nat /\ u = m.vpn
    BY <2>1, PartFacts
  <2> QED
    BY <2>1, <2>2
<1>4. w \in Nat
  BY PartFacts
<1> DEFINE a == avpn_encode(u, "16M")
           x == Start(a)
<1>5. x = u
  <2>1. LARGE \in Nat \ {0}
    BY SizeFacts
  <2>2. u = LARGE * (u \div LARGE)
    BY <2>1, <1>3, Multiple
  <2>3. x = LARGE * PageOf("16M", u)
    BY <1>3, AvpnLarge
  <2> QED
    BY <1>2, <2>2, <2>3 DEF PageOf
<1>6. PICK k \in Vsids("1T") : k * TERA <= u /\ u + LARGE <= SegEnd("1T", k)
  BY <1>3 DEF Sound, In, SegPages
<1>7. PICK v \in Vsids("256M") : VsidOf("256M", w) = v
  BY PartVsid
<1>8. v \in Nat /\ k \in Nat /\ SEG \in Nat \ {0} /\ v * SEG \in Nat /\ k * TERA \in Nat /\ SegEnd("1T", k) \in Nat
  BY VsidFacts, SizeFacts DEF SegPages
<1>9. u \div SEG = v
  <2>1. SegmentOf(avpn_encode(w, "4K"), "256M") = v
    BY <1>2, <1>4, <1>7, AvpnSegment
  <2>2. SegmentOf(a, "256M") = x \div SEG
    BY DEF SegmentOf, Start, SegPages
  <2> HIDE DEF a, x
  <2> QED
    BY <1>1, <1>5, <2>1, <2>2 DEF a
<1>10. v * SEG <= u /\ u < (v + 1) * SEG
  <2> DEFINE q == Div(u, SEG)
             r == Rem(u, SEG)
  <2>1. u = SEG * q + r /\ r \in Nat /\ r < SEG
    BY <1>3, <1>8, DivRem
  <2>2. q = v
    BY <1>9 DEF Div
  <2> HIDE DEF q, r
  <2>3. SEG * q = v * SEG /\ (v + 1) * SEG = v * SEG + SEG
    BY <1>8, <2>2
  <2> QED
    BY <1>8, <2>1, <2>3
<1>11. LARGE \in Nat \ {0} /\ TERA \in Nat /\ HvEnd \in Nat
  BY SizeFacts, VsidAssumption
<1>12. (k = HV_VSID /\ SegEnd("1T", k) = k * TERA + HvEnd) \/ (k = GRM_VSID /\ SegEnd("1T", k) = (k + 1) * TERA)
  BY VsidAssumption DEF Vsids, SegEnd, SegPages
<1>13. CASE v = AIL_VSID
  BY <1>3, <1>6, <1>8, <1>10, <1>11, <1>12, <1>13, VsidAssumption
<1>14. CASE v # AIL_VSID
  <2>1. v + 1 <= SEGMENTS /\ SEGMENTS \in Nat
    BY <1>7, <1>14, GroupAssumption DEF Vsids
  <2>2. (v + 1) * SEG <= SEGMENTS * SEG
    BY <1>8, <2>1
  <2>3. SEGMENTS * SEG <= k * TERA
    BY <1>12, VsidAssumption
  <2>4. (v + 1) * SEG \in Nat /\ SEGMENTS * SEG \in Nat
    BY <1>8, <2>1
  <2> DEFINE p == (v + 1) * SEG
             q == SEGMENTS * SEG
             r == k * TERA
  <2>5. p \in Nat /\ q \in Nat /\ r \in Nat /\ p <= q /\ q <= r /\ r <= u /\ u < p
    BY <1>6, <1>8, <1>10, <2>2, <2>3, <2>4
  <2> HIDE DEF p, q, r
  <2> QED
    BY <2>5, <1>3
<1> QED
  BY <1>13, <1>14

(* The fields of an entry.                                                 *)
LEMMA PteFacts ==
    ASSUME NEW m, NEW u
    PROVE  /\ Pte(m, u).v = TRUE /\ Pte(m, u).b = m.b /\ Pte(m, u).avpn = avpn_encode(u, m.base)
           /\ Pte(m, u).l = (m.actual # "4K") /\ Pte(m, u).lp = rpn_encode(m.base, m.actual) /\ Pte(m, u).ra = m.ra
BY DEF Pte

(* The base page size of an entry, and the number the hardware compares.   *)
LEMMA MatchFacts ==
    ASSUME NEW m, Sound(m), NEW u \in Parts(m), NEW b \in {"256M", "1T"}, NEW vpn \in Nat
    PROVE  HwMatch(Pte(m, u), vpn, b, BaseOf(b)) <=>
             /\ m.b = b
             /\ IF b = "1T" THEN PageOf("16M", u) = PageOf("16M", vpn)
                ELSE avpn_encode(u, "4K") = avpn_encode(vpn, "4K")
<1>1. /\ m.b \in {"256M", "1T"} /\ m.base = BaseOf(m.b) /\ m.actual \in Pages
      /\ m.base = "16M" => m.actual = "16M"
  BY SoundFacts
<1>2. u \in Nat
  BY PartFacts
<1> DEFINE e == Pte(m, u)
<1>3. e.v = TRUE /\ e.b = m.b /\ e.avpn = avpn_encode(u, m.base)
  BY PteFacts
<1>4. (IF e.l THEN e.lp ELSE "4K") = m.base
  BY <1>1, PteFacts DEF Pages, rpn_encode, BaseOf
<1> HIDE DEF e
<1>5. CASE m.b # b
  BY <1>3, <1>5 DEF HwMatch, e
<1>6. CASE m.b = b /\ b = "1T"
  <2>1. BaseOf(b) = "16M" /\ m.base = "16M"
    BY <1>1, <1>6 DEF BaseOf
  <2>2. Div(avpn_encode(u, "16M"), 2) = PageOf("16M", u)
    BY <1>2, AvpnLarge
  <2>3. vpn \div LARGE = PageOf("16M", vpn)
    BY DEF PageOf, Units
  <2>4. HwMatch(e, vpn, b, "16M") <=> Div(e.avpn, 2) = vpn \div LARGE
    BY <1>3, <1>4, <1>6, <2>1 DEF HwMatch, Div
  <2> QED
    BY <1>3, <1>6, <2>1, <2>2, <2>3, <2>4 DEF e
<1>7. CASE m.b = b /\ b = "256M"
  <2>1. BaseOf(b) = "4K" /\ m.base = "4K"
    BY <1>1, <1>7 DEF BaseOf
  <2>2. avpn_encode(vpn, "4K") = vpn \div DROP
    BY DEF avpn_encode
  <2>3. HwMatch(e, vpn, b, "4K") <=> e.avpn = vpn \div DROP
    BY <1>3, <1>4, <1>7, <2>1 DEF HwMatch
  <2> QED
    BY <1>3, <1>7, <2>1, <2>2, <2>3 DEF e
<1> QED
  BY <1>1, <1>5, <1>6, <1>7

(* What the hardware makes of an entry for the base page of vpn.           *)
LEMMA EntryIs ==
    ASSUME NEW m, Sound(m), NEW u \in Parts(m), NEW vpn \in Nat,
           PageOf(BaseOf(m.b), u) = PageOf(BaseOf(m.b), vpn)
    PROVE  Down(m.actual, vpn) = m.vpn /\ HwEntry(Pte(m, u), vpn, m.b, BaseOf(m.b)) = m
<1>1. /\ m.b \in {"256M", "1T"} /\ m.base = BaseOf(m.b) /\ m.actual \in Pages /\ m.vpn \in Nat
      /\ m.vpn % Units(m.actual) = 0 /\ (m.base = "16M" => m.actual = "16M")
  BY SoundFacts
<1>2. u \in Nat /\ m.vpn <= u /\ u < m.vpn + Units(m.actual) /\ (m.base = "16M" => u = m.vpn)
  BY PartFacts
<1>3. Down(m.actual, vpn) = m.vpn
  <2>1. CASE m.b = "256M"
    <3>1. PageOf(BaseOf(m.b), u) = u \div 1 /\ PageOf(BaseOf(m.b), vpn) = vpn \div 1
      BY <2>1 DEF PageOf, BaseOf, Units
    <3>2. u \div 1 = u /\ vpn \div 1 = vpn
      BY <1>2
    <3>3. u = vpn
      BY <3>1, <3>2
    <3> QED
      BY <1>1, <1>2, <3>3, DownFacts
  <2>2. CASE m.b = "1T"
    <3>1. m.actual = "16M" /\ u = m.vpn /\ BaseOf(m.b) = "16M"
      BY <1>1, <1>2, <2>2 DEF BaseOf
    <3>2. PageOf(m.actual, vpn) = PageOf(m.actual, m.vpn)
      BY <3>1
    <3> QED
      BY <1>1, <3>2, DownFacts
  <2> QED
    BY <1>1, <2>1, <2>2
<1> DEFINE e == Pte(m, u)
<1>4. (IF e.l THEN "16M" ELSE "4K") = m.actual /\ e.ra = m.ra
  BY <1>1, PteFacts DEF Pages
<1> HIDE DEF e
<1>5. HwEntry(e, vpn, m.b, BaseOf(m.b)) =
        [b |-> m.b, base |-> m.base, vpn |-> m.vpn, actual |-> m.actual, ra |-> m.ra]
  BY <1>1, <1>3, <1>4 DEF HwEntry, Down
<1> QED
  BY <1>3, <1>5, SoundFacts DEF e

(* What the hardware finds is a mapping that covers the address ...        *)
LEMMA HwFinds ==
    ASSUME NEW m, Sound(m), NEW u \in Parts(m), NEW b \in {"256M", "1T"}, NEW vpn \in Nat,
           HwMatch(Pte(m, u), vpn, b, BaseOf(b)), Pteg(u, m.b, m.base) = HwGroup(vpn, b, BaseOf(b))
    PROVE  HwEntry(Pte(m, u), vpn, b, BaseOf(b)) = m /\ Covers(m, vpn, b, BaseOf(b))
<1>1. m.b = b /\ m.base = BaseOf(b) /\ u \in Nat
  BY MatchFacts, SoundFacts, PartFacts
<1>2. PageOf(BaseOf(b), u) = PageOf(BaseOf(b), vpn)
  <2>1. CASE b = "1T"
    BY <2>1, MatchFacts DEF BaseOf
  <2>2. CASE b = "256M"
    <3>1. avpn_encode(u, BaseOf(b)) = avpn_encode(vpn, BaseOf(b))
      BY <2>2, MatchFacts DEF BaseOf
    <3>2. Pteg(u, b, BaseOf(b)) = Pteg(vpn, b, BaseOf(b))
      BY <1>1, GroupFacts
    <3> QED
      BY <1>1, <3>1, <3>2, SameEntry
  <2> QED
    BY <2>1, <2>2
<1>3. Down(m.actual, vpn) = m.vpn /\ HwEntry(Pte(m, u), vpn, b, BaseOf(b)) = m
  BY <1>1, <1>2, EntryIs
<1> QED
  BY <1>1, <1>3 DEF Covers, Down

(* ... and a mapping that covers it is found, if its entry is there.       *)
LEMMA HwCovers ==
    ASSUME NEW m, Sound(m), NEW b \in {"256M", "1T"}, NEW vpn \in Nat, Covers(m, vpn, b, BaseOf(b))
    PROVE  \E u \in Parts(m) :
             /\ HwMatch(Pte(m, u), vpn, b, BaseOf(b)) /\ Pteg(u, m.b, m.base) = HwGroup(vpn, b, BaseOf(b))
             /\ HwEntry(Pte(m, u), vpn, b, BaseOf(b)) = m
<1>1. /\ m.actual \in Pages /\ m.vpn \in Nat /\ m.vpn % Units(m.actual) = 0
      /\ m.base = "16M" => m.actual = "16M"
  BY SoundFacts
<1>2. m.b = b /\ m.base = BaseOf(b) /\ Down(m.actual, vpn) = m.vpn
  BY DEF Covers, Down
<1>3. m.vpn <= vpn /\ vpn < m.vpn + Units(m.actual) /\ PageOf(m.actual, vpn) = PageOf(m.actual, m.vpn)
  BY <1>1, <1>2, DownFacts
<1>4. PICK u \in Parts(m) : PageOf(BaseOf(b), u) = PageOf(BaseOf(b), vpn) /\ (b = "256M" => u = vpn)
  <2>1. CASE b = "1T"
    <3>1. m.base = "16M" /\ BaseOf(b) = "16M" /\ m.actual = "16M"
      BY <1>1, <1>2, <2>1 DEF BaseOf
    <3>2. m.vpn \in Parts(m)
      BY <3>1 DEF Parts
    <3> QED
      BY <1>3, <2>1, <3>1, <3>2
  <2>2. CASE b = "256M"
    <3>1. m.base # "16M"
      BY <1>2, <2>2 DEF BaseOf
    <3>2. vpn \in Parts(m)
      BY <1>3, <3>1, PartFacts
    <3> QED
      BY <3>2
  <2> QED
    BY <2>1, <2>2
<1>5. u \in Nat
  BY PartFacts
<1>6. Pteg(u, m.b, m.base) = HwGroup(vpn, b, BaseOf(b))
  <2>1. Pteg(u, b, BaseOf(b)) = Pteg(vpn, b, BaseOf(b))
    BY <1>4, <1>5, PageGroup
  <2> QED
    BY <1>2, <2>1, GroupFacts
<1>7. HwEntry(Pte(m, u), vpn, b, BaseOf(b)) = m
  BY <1>2, <1>4, EntryIs
<1>8. HwMatch(Pte(m, u), vpn, b, BaseOf(b))
  <2>1. CASE b = "1T"
    <3>1. PageOf("16M", u) = PageOf("16M", vpn)
      BY <1>4, <2>1 DEF BaseOf
    <3> QED
      BY <1>2, <2>1, <3>1, MatchFacts
  <2>2. CASE b = "256M"
    BY <1>2, <1>4, <2>2, MatchFacts
  <2> QED
    BY <2>1, <2>2
<1> QED
  BY <1>6, <1>7, <1>8

-----------------------------------------------------------------------------
(***************************************************************************)
(* The inductive invariant.                                                *)
(***************************************************************************)
Ptes == [v : BOOLEAN, b : {"256M", "1T"}, avpn : Nat, l : BOOLEAN, lp : Pages, ra : Nat]
Groups == 0 .. PTEGS - 1
Slots == 1 .. PTES_PER_GROUP

Types ==
    /\ htab \in [Groups -> [Slots -> Ptes]]
    /\ IsFiniteSet(tlb) /\ Cardinality(tlb) <= TLB_SIZE
    /\ off \in BOOLEAN

(* The mapping that c enters or removes, and the part of it that is not,   *)
(* or no more, in the table.                                               *)
Cur(c) == [b |-> c.b, base |-> c.base, vpn |-> c.vpn - (Units(c.actual) - c.left), actual |-> c.actual, ra |-> c.ra]
Pending(c, m, u) ==
    /\ c.op # "none" /\ m = Cur(c)
    /\ IF c.op = "map" THEN u >= c.vpn ELSE u < c.vpn \/ (u = c.vpn /\ c.stage = "tlbie")

Calls ==
    [op : {"map", "unmap"}, stage : {"next", "v", "tlbie"}, b : {"256M", "1T"}, base : Pages, actual : Pages,
     vpn : Nat, ra : Nat, left : 0 .. LARGE, slot : 0 .. PTES_PER_GROUP]

(* A call in progress counts down to zero. Between its two stores the      *)
(* entry is there but for what makes it valid.                             *)
CallOK(c, t, w) ==
    c # NoCall =>
        /\ c \in Calls /\ Cur(c) \in w /\ c.left <= Units(c.actual) /\ c.left % Units(c.base) = 0
        /\ c.stage # "next" => c.left # 0
        /\ c.stage = "tlbie" => c.op = "unmap"
        /\ c.stage = "v" =>
            /\ c.op = "map" /\ c.slot # 0
            /\ LET e == t[Pteg(c.vpn, c.b, c.base)][c.slot]
               IN  ~e.v /\ e.ra = c.ra /\ e.lp = rpn_encode(c.base, c.actual)

WantedOK(w) == \A m \in w : Sound(m) /\ \A n \in w : n # m => Clear(m, n)

(* The table holds the parts of the mappings, but for those that a call    *)
(* has still to enter or has removed already.                              *)
OnlyWanted(t, w, c) ==
    \A g \in Groups, i \in Slots :
        t[g][i].v => \E m \in w : \E u \in Parts(m) :
            ~Pending(c, m, u) /\ t[g][i] = Pte(m, u) /\ g = Pteg(u, m.b, m.base)

AllWanted(t, w, c) ==
    \A m \in w : \A u \in Parts(m) :
        Pending(c, m, u) \/ \E i \in Slots : t[Pteg(u, m.b, m.base)][i] = Pte(m, u)

(* No two entries of a group belong to one segment.                        *)
Spread(t) ==
    \A g \in Groups : \A i, j \in Slots :
        i # j /\ t[g][i].v /\ t[g][j].v /\ t[g][i].b = t[g][j].b =>
            SegmentOf(t[g][i].avpn, t[g][i].b) # SegmentOf(t[g][j].avpn, t[g][j].b)

(* The TLB holds mappings, and not the one that has just been removed.     *)
TlbOK(b, w, c) == b \subseteq w /\ (c.op = "unmap" /\ c.left = 0 => Cur(c) \notin b)

TableOK(t, w, c, b) ==
    /\ WantedOK(w) /\ CallOK(c, t, w) /\ OnlyWanted(t, w, c) /\ AllWanted(t, w, c)
    /\ Spread(t) /\ TlbOK(b, w, c)

(***************************************************************************)
(* What boot and "map" have still to do.                                   *)
(***************************************************************************)
SizeOf(space, o) == IF space = "hv" \/ (space = "vm" /\ o) THEN "1T" ELSE "256M"
VpnOf(space, p, o) ==
    CASE space = "ail" -> AIL_VSID * SEG + p
      [] space = "hv" -> HV_VSID * TERA + p
      [] OTHER -> IF o THEN GRM_VSID * TERA + p ELSE p

(* The mapping that mmu_map(ea, ra, actual) asks for when guest_is_mmu_off *)
(* returns o, and the one of item x of a script.                           *)
MappingOf(ea, ra, actual, o) ==
    [b |-> SizeOf(ea.space, o), base |-> BaseOf(SizeOf(ea.space, o)),
     vpn |-> VpnOf(ea.space, ea.page, o), actual |-> actual, ra |-> ra]
Target(x, o) == MappingOf(x.ea, x.ra, x.actual, o)

(* guest_is_mmu_off() when item i is reached.                              *)
Then(s, i, o) == o /\ \A j \in 1 .. i - 1 : s[j].do # "mmu_on"

ItemOK(x, o) ==
    /\ x.do = "map" /\ x.ea.space \in {"vm", "hv", "ail"} /\ x.ea.page \in Nat
    /\ x.ea.page % Units(x.actual) = 0 /\ x.ra % Units(x.actual) = 0
    /\ Sound(Target(x, o))

ScriptOK(s, o, w) ==
    /\ s \in Seq(Range(s))
    /\ \A i \in 1 .. Len(s) : s[i].do # "mmu_on" =>
        /\ ItemOK(s[i], Then(s, i, o))
        /\ \A m \in w : Clear(m, Target(s[i], Then(s, i, o)))
        /\ \A j \in 1 .. Len(s) : i < j /\ s[j].do # "mmu_on" =>
              Clear(Target(s[i], Then(s, i, o)), Target(s[j], Then(s, j, o)))

IInv == Types /\ TableOK(htab, wanted, call, tlb) /\ ScriptOK(script, off, wanted) /\ halt = "no"

(* The machine has stopped because a group was full.                       *)
Spilled ==
    /\ Types /\ TableOK(htab, wanted, call, tlb)
    /\ halt = "spill" /\ Cardinality(SegmentsUsed) > PTES_PER_GROUP

Inv == misused \in BOOLEAN /\ (~misused => IInv \/ Spilled)

-----------------------------------------------------------------------------
(* A call in progress, and the part it is at.                              *)
LEMMA CallFacts ==
    ASSUME NEW c, NEW t, NEW w, WantedOK(w), CallOK(c, t, w), c # NoCall
    PROVE  /\ c \in Calls /\ Cur(c) \in w /\ Sound(Cur(c)) /\ c.base = BaseOf(c.b)
           /\ Units(c.actual) \in Nat \ {0} /\ Units(c.base) \in Nat \ {0}
           /\ Cur(c).vpn \in Nat /\ c.vpn = Cur(c).vpn + (Units(c.actual) - c.left)
           /\ c.left # 0 => c.vpn \in Parts(Cur(c)) /\ c.left >= Units(c.base)
           /\ c.left # 0 /\ c.base = "16M" => c.vpn = Cur(c).vpn /\ c.left = Units(c.base)
<1>1. c \in Calls /\ Cur(c) \in w /\ c.left <= Units(c.actual) /\ c.left % Units(c.base) = 0
  BY DEF CallOK
<1>2. Sound(Cur(c))
  BY <1>1 DEF WantedOK
<1> DEFINE m == Cur(c)
           A == Units(c.actual)
           B == Units(c.base)
<1>3. m.b = c.b /\ m.base = c.base /\ m.vpn = c.vpn - (A - c.left) /\ m.actual = c.actual
  BY DEF Cur
<1>4. c.left \in Nat /\ c.vpn \in Nat /\ c.left <= A /\ c.base \in Pages
  BY <1>1, SizeFacts DEF Calls
<1>5. A \in Nat \ {0} /\ B \in Nat \ {0} /\ (B = 1 \/ (c.base = "16M" /\ B = LARGE)) /\ (c.base = "16M" => B = LARGE)
  BY SizeFacts DEF Units
<1>6. m.vpn \in Nat /\ c.base = BaseOf(c.b) /\ (c.base = "16M" => A = B)
  BY <1>2, <1>3, <1>5, SoundFacts
<1> HIDE DEF m, A
<1>7. c.vpn = m.vpn + (A - c.left)
  BY <1>3, <1>4, <1>5, <1>6
<1>8. c.left # 0 => c.left >= B
  <2>1. CASE B = 1
    BY <1>4, <2>1
  <2>2. CASE c.base = "16M"
    <3> HIDE DEF B
    <3>1. LARGE \in Nat \ {0} /\ 0 % LARGE = 0
      BY SizeFacts
    <3>2. c.left % LARGE = 0
      BY <1>1, <1>5, <2>2 DEF B
    <3>3. ASSUME c.left # 0 PROVE 0 + LARGE <= c.left
      <4>1. 0 < c.left /\ 0 \in Nat
        BY <1>4, <3>3
      <4> QED
        BY <1>4, <3>1, <3>2, <4>1, MultipleStep
    <3> QED
      BY <1>5, <2>2, <3>1, <3>3
  <2> QED
    BY <1>5, <2>1, <2>2
<1> HIDE DEF B
<1>9. c.left # 0 /\ c.base = "16M" => c.vpn = m.vpn /\ c.left = B
  BY <1>4, <1>5, <1>6, <1>7, <1>8
<1>10. c.left # 0 => c.vpn \in Parts(m)
  <2> SUFFICES ASSUME c.left # 0 PROVE c.vpn \in Parts(m)
    OBVIOUS
  <2>1. m.vpn <= c.vpn /\ c.vpn < m.vpn + A
    BY <1>4, <1>5, <1>6, <1>7
  <2> QED
    BY <1>2, <1>3, <1>4, <1>9, <2>1, PartFacts DEF m, A
<1> QED
  BY <1>1, <1>2, <1>5, <1>6, <1>7, <1>8, <1>9, <1>10 DEF m, A, B

(* The next round of a call.                                               *)
NextOf(c) == [c EXCEPT !.stage = "next", !.left = @ - Units(c.base), !.vpn = @ + Units(c.base)]

(* ... is about the same mapping, and one more part of it is dealt with.   *)
LEMMA NextFacts ==
    ASSUME NEW c, NEW t, NEW w, WantedOK(w), CallOK(c, t, w), c # NoCall, c.left # 0
    PROVE  /\ Cur(NextOf(c)) = Cur(c) /\ NextOf(c).op = c.op /\ NextOf(c).stage = "next"
           /\ NextOf(c) # NoCall
           /\ \A x : CallOK(NextOf(c), x, w)
           /\ \A u \in Parts(Cur(c)) :
                /\ u >= NextOf(c).vpn <=> u >= c.vpn /\ u # c.vpn
                /\ u < NextOf(c).vpn <=> u < c.vpn \/ u = c.vpn
<1> DEFINE d == NextOf(c)
           B == Units(c.base)
           A == Units(c.actual)
           m == Cur(c)
<1>1. /\ c \in Calls /\ m \in w /\ Sound(m) /\ A \in Nat \ {0} /\ B \in Nat \ {0}
      /\ m.vpn \in Nat /\ c.vpn = m.vpn + (A - c.left) /\ c.left >= B
      /\ c.base = "16M" => c.vpn = m.vpn /\ c.left = B
  BY CallFacts
<1>2. c.left \in 0 .. LARGE /\ LARGE \in Nat /\ c.vpn \in Nat /\ c.left <= A /\ c.left % B = 0 /\ c.op \in {"map", "unmap"}
  BY <1>1, SizeFacts DEF CallOK, Calls
<1>3. /\ d.op = c.op /\ d.stage = "next" /\ d.b = c.b /\ d.base = c.base /\ d.actual = c.actual
      /\ d.vpn = c.vpn + B /\ d.ra = c.ra /\ d.left = c.left - B /\ d.slot = c.slot
  BY <1>1 DEF NextOf, Calls
<1> HIDE DEF B, A
<1>4. d.left \in 0 .. LARGE /\ d.vpn \in Nat /\ d.left <= A
  BY <1>1, <1>2, <1>3
<1>5. d \in Calls
  BY <1>1, <1>3, <1>4 DEF NextOf, Calls
<1>6. Cur(d) = m
  <2>1. d.vpn - (A - d.left) = c.vpn - (A - c.left)
    BY <1>1, <1>2, <1>3
  <2> HIDE DEF d
  <2> QED
    BY <1>3, <2>1 DEF Cur, A
<1>7. d.left % B = 0
  <2>1. B = 1 \/ c.left = B
    BY <1>1 DEF B, Units
  <2>2. CASE B = 1
    BY <1>4, <2>2
  <2>3. CASE c.left = B
    BY <1>1, <1>3, <2>3
  <2> QED
    BY <2>1, <2>2, <2>3
<1>8. d # NoCall /\ d.op # "none"
  <2>1. NoCall.op = "none"
    BY DEF NoCall
  <2> QED
    BY <1>2, <1>3, <2>1
<1> HIDE DEF d, m
<1>9. ASSUME NEW x PROVE CallOK(d, x, w)
  BY <1>1, <1>3, <1>4, <1>5, <1>6, <1>7 DEF CallOK, A, B
<1>10. ASSUME NEW u \in Parts(m)
       PROVE  (u >= d.vpn <=> u >= c.vpn /\ u # c.vpn) /\ (u < d.vpn <=> u < c.vpn \/ u = c.vpn)
  <2>1. u \in Nat /\ (m.base = "16M" => u = m.vpn) /\ m.base = c.base
    BY <1>1, PartFacts DEF m, Cur
  <2>2. CASE c.base = "16M"
    BY <1>1, <1>3, <2>1, <2>2
  <2>3. CASE c.base # "16M"
    <3>1. B = 1
      BY <2>3 DEF B, Units
    <3> QED
      BY <1>2, <1>3, <2>1, <3>1
  <2> QED
    BY <2>2, <2>3
<1> QED
  BY <1>3, <1>6, <1>8, <1>9, <1>10 DEF d, m

-----------------------------------------------------------------------------
(***************************************************************************)
(* The hardware.                                                           *)
(***************************************************************************)
(* An effective address has a number and sizes that go together.           *)
LEMMA EaFacts ==
    ASSUME NEW ea, ea.page \in Nat
    PROVE  /\ ea_2_seg_size(ea) \in {"256M", "1T"} /\ ea_2_base_size(ea) = BaseOf(ea_2_seg_size(ea))
           /\ ea_2_vpn(ea) \in Nat
           /\ ea_2_seg_size(ea) = SizeOf(ea.space, off) /\ ea_2_vpn(ea) = VpnOf(ea.space, ea.page, off)
<1>1. AIL_VSID \in Nat /\ HV_VSID \in Nat /\ GRM_VSID \in Nat /\ SEG \in Nat /\ TERA \in Nat
  BY VsidAssumption, SizeFacts
<1>2. AIL_VSID * SEG \in Nat /\ HV_VSID * TERA \in Nat /\ GRM_VSID * TERA \in Nat
  BY <1>1
<1>3. ea_2_vpn(ea) \in Nat
  BY <1>2 DEF ea_2_vpn
<1>4. ea_2_seg_size(ea) \in {"256M", "1T"} /\ ea_2_base_size(ea) = BaseOf(ea_2_seg_size(ea))
  BY DEF ea_2_seg_size, ea_2_base_size, BaseOf
<1>5. ea_2_seg_size(ea) = SizeOf(ea.space, off) /\ ea_2_vpn(ea) = VpnOf(ea.space, ea.page, off)
  BY DEF ea_2_seg_size, ea_2_vpn, SizeOf, VpnOf
<1> QED
  BY <1>3, <1>4, <1>5

(* What a walk returns.                                                    *)
LEMMA WalkIs ==
    ASSUME htab \in [Groups -> [Slots -> Ptes]],
           NEW b \in {"256M", "1T"}, NEW vpn \in Nat, NEW e
    PROVE  /\ HwGroup(vpn, b, BaseOf(b)) \in Groups
           /\ e \in Walk(vpn, b, BaseOf(b)) <=>
                \E i \in Slots : /\ HwMatch(htab[HwGroup(vpn, b, BaseOf(b))][i], vpn, b, BaseOf(b))
                                 /\ e = HwEntry(htab[HwGroup(vpn, b, BaseOf(b))][i], vpn, b, BaseOf(b))
<1> DEFINE g == HwGroup(vpn, b, BaseOf(b))
<1>1. g \in Groups
  BY GroupFacts DEF Groups
<1> HIDE DEF g
<1>2. DOMAIN htab[g] = Slots
  BY <1>1
<1>3. ToSet(htab[g]) = {htab[g][i] : i \in Slots}
  BY <1>2 DEF ToSet
<1>4. Walk(vpn, b, BaseOf(b)) =
        {HwEntry(p, vpn, b, BaseOf(b)) : p \in {p \in ToSet(htab[g]) : HwMatch(p, vpn, b, BaseOf(b))}}
  BY DEF Walk, g
<1>5. e \in Walk(vpn, b, BaseOf(b)) <=>
        \E i \in Slots : HwMatch(htab[g][i], vpn, b, BaseOf(b)) /\ e = HwEntry(htab[g][i], vpn, b, BaseOf(b))
  BY <1>3, <1>4
<1> QED
  BY <1>1, <1>5 DEF g

(* At any instant of an update the hardware finds only mappings that were  *)
(* asked for, and no part that an update has still to enter or has removed *)
(* already.                                                                *)
LEMMA WalkSound ==
    ASSUME htab \in [Groups -> [Slots -> Ptes]], WantedOK(wanted), OnlyWanted(htab, wanted, call),
           NEW b \in {"256M", "1T"}, NEW vpn \in Nat, NEW e \in Walk(vpn, b, BaseOf(b))
    PROVE  /\ e \in wanted /\ Covers(e, vpn, b, BaseOf(b))
           /\ \E u \in Parts(e) : ~Pending(call, e, u)
<1> DEFINE g == HwGroup(vpn, b, BaseOf(b))
<1>1. g \in Groups
  BY WalkIs
<1>2. PICK i \in Slots : HwMatch(htab[g][i], vpn, b, BaseOf(b)) /\ e = HwEntry(htab[g][i], vpn, b, BaseOf(b))
  BY WalkIs
<1> HIDE DEF g
<1>3. htab[g][i].v
  BY <1>2 DEF HwMatch
<1>0. PICK m \in wanted : \E u \in Parts(m) :
        ~Pending(call, m, u) /\ htab[g][i] = Pte(m, u) /\ g = Pteg(u, m.b, m.base)
  BY <1>1, <1>3 DEF OnlyWanted
<1>4. PICK u \in Parts(m) : ~Pending(call, m, u) /\ htab[g][i] = Pte(m, u) /\ g = Pteg(u, m.b, m.base)
  BY <1>0
<1>5. Sound(m)
  BY DEF WantedOK
<1>6. HwEntry(Pte(m, u), vpn, b, BaseOf(b)) = m /\ Covers(m, vpn, b, BaseOf(b))
  BY <1>2, <1>4, <1>5, HwFinds DEF g
<1>7. e = m
  BY <1>2, <1>4, <1>6
<1> QED
  BY <1>4, <1>6, <1>7

(* Between calls it finds every one of them.                               *)
LEMMA WalkComplete ==
    ASSUME htab \in [Groups -> [Slots -> Ptes]], WantedOK(wanted), AllWanted(htab, wanted, call),
           call.op = "none",
           NEW b \in {"256M", "1T"}, NEW vpn \in Nat, NEW m \in wanted, Covers(m, vpn, b, BaseOf(b))
    PROVE  m \in Walk(vpn, b, BaseOf(b))
<1>1. Sound(m)
  BY DEF WantedOK
<1>2. PICK u \in Parts(m) :
        /\ HwMatch(Pte(m, u), vpn, b, BaseOf(b)) /\ Pteg(u, m.b, m.base) = HwGroup(vpn, b, BaseOf(b))
        /\ HwEntry(Pte(m, u), vpn, b, BaseOf(b)) = m
  BY <1>1, HwCovers
<1>3. ~Pending(call, m, u)
  BY DEF Pending
<1>4. PICK i \in Slots : htab[Pteg(u, m.b, m.base)][i] = Pte(m, u)
  BY <1>3 DEF AllWanted
<1> QED
  BY <1>2, <1>4, WalkIs

(* An idle machine has no call.                                            *)
LEMMA NoCallOp ==
    ASSUME NEW c, NEW t, NEW w, CallOK(c, t, w)
    PROVE  c.op = "none" <=> c = NoCall
BY DEF CallOK, Calls, NoCall

-----------------------------------------------------------------------------
(***************************************************************************)
(* The groups.                                                             *)
(***************************************************************************)
(* The entries of a mapping go to groups of the table.                     *)
LEMMA PartGroup ==
    ASSUME NEW w, WantedOK(w), NEW m \in w, NEW u \in Parts(m)
    PROVE  Pteg(u, m.b, m.base) \in Groups
<1>1. Sound(m)
  BY DEF WantedOK
<1>2. m.b \in {"256M", "1T"} /\ m.base = BaseOf(m.b) /\ u \in Nat
  BY <1>1, SoundFacts, PartFacts
<1> QED
  BY <1>2, GroupFacts DEF Groups

(* No entry of the group belongs to the segment of the part that is to be  *)
(* entered next.                                                           *)
LEMMA NoRival ==
    ASSUME NEW t, NEW w, NEW c, WantedOK(w), CallOK(c, t, w), OnlyWanted(t, w, c),
           c.op = "map", c.left # 0, NEW g, g = Pteg(c.vpn, c.b, c.base),
           NEW j \in Slots, t[g][j].v, t[g][j].b = c.b
    PROVE  SegmentOf(t[g][j].avpn, c.b) # VsidOf(c.b, c.vpn)
<1>0. SUFFICES ASSUME SegmentOf(t[g][j].avpn, c.b) = VsidOf(c.b, c.vpn) PROVE FALSE
  OBVIOUS
<1>1. c # NoCall
  BY DEF NoCall
<1> DEFINE n == Cur(c)
<1>2. c \in Calls /\ n \in w /\ Sound(n) /\ c.base = BaseOf(c.b) /\ c.vpn \in Parts(n)
  BY <1>1, CallFacts
<1>3. n.b = c.b /\ n.base = c.base /\ c.vpn \in Nat /\ c.b \in {"256M", "1T"}
  BY <1>2 DEF Cur, Calls
<1> HIDE DEF n
<1>4. g \in Groups
  BY <1>2, <1>3, GroupFacts DEF Groups
<1>5. PICK m \in w : \E u \in Parts(m) :
        ~Pending(c, m, u) /\ t[g][j] = Pte(m, u) /\ g = Pteg(u, m.b, m.base)
  BY <1>4 DEF OnlyWanted
<1>6. PICK u \in Parts(m) : ~Pending(c, m, u) /\ t[g][j] = Pte(m, u) /\ g = Pteg(u, m.b, m.base)
  BY <1>5
<1>7. Sound(m) /\ (m = n \/ Clear(m, n))
  BY <1>2 DEF WantedOK
<1>8. m.b = c.b /\ m.base = BaseOf(c.b) /\ u \in Nat /\ t[g][j].avpn = avpn_encode(u, m.base)
  <2>1. t[g][j].b = m.b /\ t[g][j].avpn = avpn_encode(u, m.base)
    BY <1>6 DEF Pte
  <2>2. m.base = BaseOf(m.b)
    BY <1>7, SoundFacts
  <2>3. u \in Nat
    BY <1>7, PartFacts
  <2> QED
    BY <2>1, <2>2, <2>3
<1>9. VsidOf(c.b, u) = VsidOf(c.b, c.vpn)
  BY <1>0, <1>3, <1>8, AvpnSegment
<1>10. Pteg(u, c.b, BaseOf(c.b)) = Pteg(c.vpn, c.b, BaseOf(c.b))
  BY <1>2, <1>6, <1>8
<1>11. PageOf(BaseOf(c.b), u) = PageOf(BaseOf(c.b), c.vpn)
  BY <1>3, <1>8, <1>9, <1>10, OneGroup
<1>12. m = n /\ u = c.vpn
  BY <1>2, <1>3, <1>7, <1>8, <1>11, SamePart
<1>13. Pending(c, m, u)
  BY <1>3, <1>12 DEF Pending, n
<1> QED
  BY <1>6, <1>13

(* The segments that have mappings.                                        *)
Used(w) == {<<m.b, m.vpn \div SegPages(m.b)>> : m \in w}

(* All parts of a mapping are in its segment.                              *)
LEMMA PartUsed ==
    ASSUME NEW w, WantedOK(w), NEW m \in w, NEW u \in Parts(m)
    PROVE  VsidOf(m.b, u) \in Vsids(m.b) /\ <<m.b, VsidOf(m.b, u)>> \in Used(w)
<1>1. Sound(m)
  BY DEF WantedOK
<1>2. PICK v \in Vsids(m.b) : VsidOf(m.b, u) = v /\ In(m, v)
  BY <1>1, PartVsid
<1>3. m.vpn \in Nat /\ Units(m.actual) \in Nat \ {0} /\ m.b \in {"256M", "1T"}
  BY <1>1, SoundFacts
<1> DEFINE S == SegPages(m.b)
           E == SegEnd(m.b, v)
           lo == v * S
           hi == (v + 1) * S
<1>4. v \in Nat /\ S \in Nat \ {0} /\ lo \in Nat /\ E \in Nat /\ E <= hi
  BY <1>3, VsidFacts
<1>5. lo <= m.vpn /\ m.vpn + Units(m.actual) <= E
  BY <1>2 DEF In
<1>6. hi \in Nat
  <2> HIDE DEF S
  <2> QED
    BY <1>4
<1>7. lo <= m.vpn /\ m.vpn < hi
  <2> HIDE DEF S, E, lo, hi
  <2> QED
    BY <1>3, <1>4, <1>5, <1>6
<1>8. m.vpn \div S = v
  <2> HIDE DEF S, E
  <2> QED
    BY <1>3, <1>4, <1>7, DivIs
<1> QED
  BY <1>2, <1>8 DEF Used

(* There are finitely many.                                                *)
LEMMA UsedFinite ==
    ASSUME NEW w, WantedOK(w)
    PROVE  IsFiniteSet(Used(w)) /\ Cardinality(Used(w)) \in Nat
<1> DEFINE B == {"256M", "1T"}
           I == 0 .. SEGMENTS - 1
           V == {HV_VSID, GRM_VSID} \cup ({AIL_VSID} \cup I)
<1>1. SEGMENTS \in Nat
  BY GroupAssumption
<1>2. IsFiniteSet(I)
  BY <1>1, FS_Interval
<1>3. IsFiniteSet(B) /\ IsFiniteSet({HV_VSID, GRM_VSID}) /\ IsFiniteSet({AIL_VSID})
  <2>1. ASSUME NEW x, NEW y PROVE IsFiniteSet({x, y})
    <3>1. IsFiniteSet({x})
      BY FS_Singleton
    <3>2. IsFiniteSet({x} \cup {y})
      BY <3>1, FS_AddElement, Zenon
    <3>3. {x} \cup {y} = {x, y}
      OBVIOUS
    <3> QED
      BY <3>2, <3>3
  <2> QED
    BY <2>1, FS_Singleton
<1>4. IsFiniteSet(V)
  <2> HIDE DEF I
  <2>1. IsFiniteSet({AIL_VSID} \cup I)
    BY <1>2, <1>3, FS_Union
  <2> QED
    BY <1>3, <2>1, FS_Union
<1> HIDE DEF V, B
<1>5. IsFiniteSet(B \X V)
  BY <1>3, <1>4, FS_Product
<1>6. Used(w) \subseteq B \X V
  <2> SUFFICES ASSUME NEW m \in w PROVE <<m.b, m.vpn \div SegPages(m.b)>> \in B \X V
    BY DEF Used
  <2>1. Sound(m)
    BY DEF WantedOK
  <2>2. m.vpn \in Parts(m) /\ m.b \in {"256M", "1T"}
    BY <2>1, PartFacts, SoundFacts
  <2>3. VsidOf(m.b, m.vpn) \in Vsids(m.b)
    BY <2>2, PartUsed
  <2>4. Vsids(m.b) \subseteq V
    BY DEF Vsids, V
  <2> QED
    BY <2>2, <2>3, <2>4 DEF VsidOf, B
<1>7. IsFiniteSet(Used(w))
  BY <1>5, <1>6, FS_Subset
<1> QED
  BY <1>7, FS_CardinalityType

(* The segment of a valid entry has mappings.                              *)
LEMMA EntrySegment ==
    ASSUME NEW t, NEW w, NEW c, WantedOK(w), OnlyWanted(t, w, c),
           NEW g \in Groups, NEW j \in Slots, t[g][j].v
    PROVE  t[g][j].b \in {"256M", "1T"} /\ <<t[g][j].b, SegmentOf(t[g][j].avpn, t[g][j].b)>> \in Used(w)
<1>1. PICK m \in w : \E u \in Parts(m) :
        ~Pending(c, m, u) /\ t[g][j] = Pte(m, u) /\ g = Pteg(u, m.b, m.base)
  BY DEF OnlyWanted
<1>2. PICK u \in Parts(m) : ~Pending(c, m, u) /\ t[g][j] = Pte(m, u) /\ g = Pteg(u, m.b, m.base)
  BY <1>1
<1>3. Sound(m)
  BY DEF WantedOK
<1>4. m.b \in {"256M", "1T"} /\ m.base = BaseOf(m.b) /\ u \in Nat /\ t[g][j].avpn = avpn_encode(u, m.base) /\ t[g][j].b = m.b
  <2>1. t[g][j].b = m.b /\ t[g][j].avpn = avpn_encode(u, m.base)
    BY <1>2 DEF Pte
  <2>2. m.b \in {"256M", "1T"} /\ m.base = BaseOf(m.b)
    BY <1>3, SoundFacts
  <2>3. u \in Nat
    BY <1>3, PartFacts
  <2> QED
    BY <2>1, <2>2, <2>3
<1>5. <<m.b, VsidOf(m.b, u)>> \in Used(w)
  BY PartUsed
<1>6. SegmentOf(avpn_encode(u, BaseOf(m.b)), m.b) = VsidOf(m.b, u)
  BY <1>4, AvpnSegment
<1> QED
  BY <1>4, <1>5, <1>6

(* mmu_map_vpn finds a free entry, unless more segments have mappings than *)
(* the group has entries.                                                  *)
LEMMA SpillOnly ==
    ASSUME NEW t, NEW w, NEW c, WantedOK(w), CallOK(c, t, w), OnlyWanted(t, w, c), Spread(t),
           c.op = "map", c.left # 0, NEW g, g = Pteg(c.vpn, c.b, c.base)
    PROVE  g \in Groups /\ ((\E i \in Slots : ~t[g][i].v) \/ Cardinality(Used(w)) > PTES_PER_GROUP)
<1>1. c # NoCall
  BY DEF NoCall
<1> DEFINE n == Cur(c)
<1>2. c \in Calls /\ n \in w /\ Sound(n) /\ c.base = BaseOf(c.b) /\ c.vpn \in Parts(n)
  BY <1>1, CallFacts
<1>3. n.b = c.b /\ n.base = c.base /\ c.vpn \in Nat /\ c.b \in {"256M", "1T"}
  BY <1>2 DEF Cur, Calls
<1> HIDE DEF n
<1>4. g \in Groups
  BY <1>2, <1>3, GroupFacts DEF Groups
<1>11. PTES_PER_GROUP \in Nat /\ IsFiniteSet(Used(w)) /\ Cardinality(Used(w)) \in Nat
  BY GroupAssumption, UsedFinite
<1>5. SUFFICES ASSUME \A i \in Slots : t[g][i].v, Cardinality(Used(w)) <= PTES_PER_GROUP PROVE FALSE
  BY <1>4, <1>11
<1> DEFINE own == <<c.b, VsidOf(c.b, c.vpn)>>
           N == Used(w)
           K == N \ {own}
           h(i) == <<t[g][i].b, SegmentOf(t[g][i].avpn, t[g][i].b)>>
           f == [i \in Slots |-> h(i)]
<1>7. own \in N
  BY <1>2, <1>3, PartUsed
<1>8. ASSUME NEW i \in Slots PROVE h(i) \in K
  <2>1. h(i) \in N
    BY <1>4, <1>5, EntrySegment
  <2>2. ASSUME h(i) = own PROVE FALSE
    <3>1. t[g][i].b = c.b /\ SegmentOf(t[g][i].avpn, c.b) = VsidOf(c.b, c.vpn)
      BY <2>2
    <3> QED
      BY <3>1, <1>5, NoRival
  <2> HIDE DEF N, own, h
  <2> QED
    BY <2>1, <2>2
<1>9. ASSUME NEW i \in Slots, NEW j \in Slots, i # j PROVE h(i) # h(j)
  <2>1. t[g][i].v /\ t[g][j].v
    BY <1>5
  <2>2. t[g][i].b = t[g][j].b => SegmentOf(t[g][i].avpn, t[g][i].b) # SegmentOf(t[g][j].avpn, t[g][j].b)
    BY <1>4, <1>9, <2>1 DEF Spread
  <2> QED
    BY <2>2
<1> HIDE DEF h
<1>10. f \in [Slots -> K]
  BY <1>8
<1>12. IsFiniteSet(Slots) /\ Cardinality(Slots) = PTES_PER_GROUP
  BY <1>11, FS_Interval DEF Slots
<1> HIDE DEF own
<1>14. IsFiniteSet(K) /\ Cardinality(K) = Cardinality(N) - 1
  <2> HIDE DEF N
  <2>1. IsFiniteSet(N)
    BY <1>11 DEF N
  <2>2. IsFiniteSet(N \ {own}) /\ Cardinality(N \ {own}) = IF own \in N THEN Cardinality(N) - 1 ELSE Cardinality(N)
    BY <2>1, FS_RemoveElement, Zenon
  <2> QED
    BY <1>7, <2>2, Zenon
<1>15. Cardinality(K) < Cardinality(Slots)
  <2> HIDE DEF K
  <2> QED
    BY <1>5, <1>11, <1>12, <1>14
<1> HIDE DEF K, f, N
<1>16. \E x, y \in Slots : x # y /\ f[x] = f[y]
  BY <1>10, <1>12, <1>14, <1>15, FS_PigeonHole
<1> QED
  BY <1>9, <1>16 DEF f

-----------------------------------------------------------------------------
(***************************************************************************)
(* The steps of mmu_map.                                                   *)
(***************************************************************************)
Tables == [Groups -> [Slots -> Ptes]]

(* d is t with entry i of group g replaced by e.                           *)
Changed(d, t, g, i, e) ==
    /\ d \in Tables /\ d[g][i] = e
    /\ \A h \in Groups, j \in Slots : h # g \/ j # i => d[h][j] = t[h][j]

(* Replacing an entry.                                                     *)
LEMMA Replaces ==
    ASSUME NEW t \in Tables, NEW g \in Groups, NEW i \in Slots, NEW e \in Ptes
    PROVE  Changed([t EXCEPT ![g] = [t[g] EXCEPT ![i] = e]], t, g, i, e)
<1> DEFINE r == [t[g] EXCEPT ![i] = e]
           d == [t EXCEPT ![g] = r]
<1>1. t[g] \in [Slots -> Ptes]
  BY DEF Tables
<1>2. r \in [Slots -> Ptes] /\ r[i] = e /\ \A j \in Slots : j # i => r[j] = t[g][j]
  BY <1>1
<1> HIDE DEF r
<1>3. d \in Tables /\ d[g] = r /\ \A h \in Groups : h # g => d[h] = t[h]
  BY <1>2 DEF Tables
<1> HIDE DEF d
<1> QED
  BY <1>2, <1>3 DEF Changed, d, r

(* MapR writes the half of an entry that the hardware does not look at.    *)
MapRStep(t, d, w, c, b, x, g, i, e) ==
    /\ t \in Tables /\ TableOK(t, w, c, b) /\ c.op = "map" /\ c.stage = "next" /\ c.left # 0
    /\ g = Pteg(c.vpn, c.b, c.base) /\ g \in Groups /\ i \in Slots /\ ~t[g][i].v
    /\ ~e.v /\ e.ra = c.ra /\ e.lp = rpn_encode(c.base, c.actual) /\ Changed(d, t, g, i, e)
    /\ x = [c EXCEPT !.stage = "v", !.slot = i]

(* That keeps the table in order.                                          *)
LEMMA MapRKeeps ==
    ASSUME NEW t, NEW d, NEW w, NEW c, NEW b, NEW x, NEW g, NEW i, NEW e, MapRStep(t, d, w, c, b, x, g, i, e)
    PROVE  TableOK(d, w, x, b)
<1> USE DEF MapRStep
<1>1. WantedOK(w) /\ CallOK(c, t, w) /\ OnlyWanted(t, w, c) /\ AllWanted(t, w, c) /\ Spread(t) /\ TlbOK(b, w, c)
  BY DEF TableOK
<1>2. c # NoCall /\ c \in Calls /\ Cur(c) \in w /\ c.left <= Units(c.actual) /\ c.left % Units(c.base) = 0
  BY <1>1 DEF NoCall, CallOK
<1>3. /\ x.op = "map" /\ x.stage = "v" /\ x.b = c.b /\ x.base = c.base /\ x.actual = c.actual
      /\ x.vpn = c.vpn /\ x.ra = c.ra /\ x.left = c.left /\ x.slot = i
  BY <1>2 DEF Calls
<1>4. x \in Calls
  <2>1. i \in 0 .. PTES_PER_GROUP
    BY GroupAssumption DEF Slots
  <2> QED
    BY <1>2, <2>1 DEF Calls
<1>5. Cur(x) = Cur(c)
  BY <1>3 DEF Cur
<1>6. \A m, u : Pending(x, m, u) <=> Pending(c, m, u)
  BY <1>3, <1>5 DEF Pending
<1>7. CallOK(x, d, w)
  <2>1. i # 0
    BY DEF Slots
  <2> QED
    BY <1>2, <1>3, <1>4, <1>5, <2>1 DEF CallOK, Changed
<1>8. ASSUME NEW h \in Groups, NEW j \in Slots, d[h][j].v
      PROVE  d[h][j] = t[h][j] /\ (h # g \/ j # i)
  BY <1>8 DEF Changed
<1>9. ASSUME NEW h \in Groups, NEW j \in Slots, t[h][j].v
      PROVE  d[h][j] = t[h][j]
  BY <1>9 DEF Changed
<1>10. OnlyWanted(d, w, x)
  BY <1>1, <1>6, <1>8 DEF OnlyWanted
<1>11. AllWanted(d, w, x)
  <2> SUFFICES ASSUME NEW m \in w, NEW u \in Parts(m), ~Pending(c, m, u)
               PROVE  \E j \in Slots : d[Pteg(u, m.b, m.base)][j] = Pte(m, u)
    BY <1>6 DEF AllWanted
  <2>1. PICK j \in Slots : t[Pteg(u, m.b, m.base)][j] = Pte(m, u)
    BY <1>1 DEF AllWanted
  <2>2. Pteg(u, m.b, m.base) \in Groups
    BY <1>1, PartGroup
  <2>3. t[Pteg(u, m.b, m.base)][j].v
    BY <2>1 DEF Pte
  <2> QED
    BY <1>9, <2>1, <2>2, <2>3
<1>12. Spread(d)
  BY <1>1, <1>8 DEF Spread
<1>13. TlbOK(b, w, x)
  BY <1>1, <1>3 DEF TlbOK
<1> QED
  BY <1>1, <1>7, <1>10, <1>11, <1>12, <1>13 DEF TableOK

(* MapV makes it valid.                                                    *)
LEMMA MapVKeeps ==
    ASSUME NEW t \in Tables, NEW d, NEW w, NEW c, NEW b, NEW g,
           TableOK(t, w, c, b), c.op = "map", c.stage = "v",
           g = Pteg(c.vpn, c.b, c.base), Changed(d, t, g, c.slot, Pte(Cur(c), c.vpn))
    PROVE  TableOK(d, w, NextOf(c), b)
<1> DEFINE x == NextOf(c)
           n == Cur(c)
           e == Pte(n, c.vpn)
           i == c.slot
<1>1. WantedOK(w) /\ CallOK(c, t, w) /\ OnlyWanted(t, w, c) /\ AllWanted(t, w, c) /\ Spread(t) /\ TlbOK(b, w, c)
  BY DEF TableOK
<1>2. c # NoCall /\ c.left # 0 /\ c \in Calls /\ n \in w /\ Sound(n) /\ c.vpn \in Parts(n) /\ c.base = BaseOf(c.b)
  <2>1. c # NoCall
    BY DEF NoCall
  <2>2. c.left # 0
    BY <1>1, <2>1 DEF CallOK
  <2> QED
    BY <1>1, <2>1, <2>2, CallFacts
<1>3. i \in Slots /\ ~t[g][i].v
  <2>1. i \in 0 .. PTES_PER_GROUP /\ i # 0 /\ ~t[g][i].v
    BY <1>1, <1>2 DEF CallOK, Calls
  <2> QED
    BY <2>1, GroupAssumption DEF Slots
<1>4. /\ n.b = c.b /\ n.base = c.base /\ c.vpn \in Nat /\ c.b \in {"256M", "1T"} /\ g = Pteg(c.vpn, n.b, n.base)
      /\ g \in Groups
  <2>1. n.b = c.b /\ n.base = c.base /\ c.vpn \in Nat /\ c.b \in {"256M", "1T"}
    BY <1>2 DEF Cur, Calls
  <2>2. g \in Groups
    BY <1>2, <2>1, GroupFacts DEF Groups
  <2> QED
    BY <2>1, <2>2
<1>5. /\ Cur(x) = n /\ x.op = "map" /\ CallOK(x, d, w)
      /\ \A u \in Parts(n) : u >= x.vpn <=> u >= c.vpn /\ u # c.vpn
  BY <1>1, <1>2, NextFacts
<1> HIDE DEF x, n
<1>6. \A m, u : u \in Parts(m) => (Pending(x, m, u) <=> Pending(c, m, u) /\ ~(m = n /\ u = c.vpn))
  BY <1>5 DEF Pending, n
<1>7. d \in Tables /\ d[g][i] = e /\ \A h \in Groups, j \in Slots : h # g \/ j # i => d[h][j] = t[h][j]
  BY DEF Changed, n
<1>8. OnlyWanted(d, w, x)
  <2> SUFFICES ASSUME NEW h \in Groups, NEW j \in Slots, d[h][j].v
               PROVE  \E m \in w : \E u \in Parts(m) :
                        ~Pending(x, m, u) /\ d[h][j] = Pte(m, u) /\ h = Pteg(u, m.b, m.base)
    BY DEF OnlyWanted
  <2>1. CASE h = g /\ j = i
    <3>1. ~Pending(x, n, c.vpn)
      BY <1>2, <1>6
    <3> QED
      BY <1>2, <1>4, <1>7, <2>1, <3>1
  <2>2. CASE h # g \/ j # i
    <3>1. d[h][j] = t[h][j]
      BY <1>7, <2>2
    <3>2. PICK m \in w : \E u \in Parts(m) :
            ~Pending(c, m, u) /\ t[h][j] = Pte(m, u) /\ h = Pteg(u, m.b, m.base)
      BY <1>1, <3>1 DEF OnlyWanted
    <3>3. PICK u \in Parts(m) : ~Pending(c, m, u) /\ t[h][j] = Pte(m, u) /\ h = Pteg(u, m.b, m.base)
      BY <3>2
    <3>4. ~Pending(x, m, u)
      BY <1>6, <3>3
    <3> QED
      BY <3>1, <3>3, <3>4
  <2> QED
    BY <2>1, <2>2
<1>9. AllWanted(d, w, x)
  <2> SUFFICES ASSUME NEW m \in w, NEW u \in Parts(m), ~Pending(x, m, u)
               PROVE  \E j \in Slots : d[Pteg(u, m.b, m.base)][j] = Pte(m, u)
    BY DEF AllWanted
  <2>1. CASE m = n /\ u = c.vpn
    BY <1>3, <1>4, <1>7, <2>1
  <2>2. CASE ~(m = n /\ u = c.vpn)
    <3>1. ~Pending(c, m, u)
      BY <1>6, <2>2
    <3>2. PICK j \in Slots : t[Pteg(u, m.b, m.base)][j] = Pte(m, u)
      BY <1>1, <3>1 DEF AllWanted
    <3>3. Pteg(u, m.b, m.base) \in Groups
      BY <1>1, PartGroup
    <3>4. t[Pteg(u, m.b, m.base)][j].v
      BY <3>2 DEF Pte
    <3> QED
      BY <1>3, <1>7, <3>2, <3>3, <3>4
  <2> QED
    BY <2>1, <2>2
<1>10. Spread(d)
  <2>1. e.v /\ e.b = c.b /\ SegmentOf(e.avpn, e.b) = VsidOf(c.b, c.vpn)
    <3>1. e.v /\ e.b = c.b /\ e.avpn = avpn_encode(c.vpn, BaseOf(c.b))
      BY <1>2, <1>4 DEF Pte
    <3> QED
      BY <1>4, <3>1, AvpnSegment
  <2>2. ASSUME NEW j \in Slots, j # i, d[g][j].v, d[g][j].b = e.b
        PROVE  SegmentOf(d[g][j].avpn, d[g][j].b) # SegmentOf(e.avpn, e.b)
    <3>1. d[g][j] = t[g][j]
      BY <1>4, <1>7, <2>2
    <3>2. SegmentOf(t[g][j].avpn, c.b) # VsidOf(c.b, c.vpn)
      BY <1>1, <1>2, <2>1, <2>2, <3>1, NoRival
    <3> QED
      BY <2>1, <2>2, <3>1, <3>2
  <2> HIDE DEF e, i
  <2> SUFFICES ASSUME NEW h \in Groups, NEW j \in Slots, NEW k \in Slots,
                      j # k, d[h][j].v, d[h][k].v, d[h][j].b = d[h][k].b
               PROVE  SegmentOf(d[h][j].avpn, d[h][j].b) # SegmentOf(d[h][k].avpn, d[h][k].b)
    BY DEF Spread
  <2>3. CASE h = g /\ j = i
    BY <1>7, <2>2, <2>3
  <2>4. CASE h = g /\ k = i
    BY <1>7, <2>2, <2>4
  <2>5. CASE ~(h = g /\ j = i) /\ ~(h = g /\ k = i)
    <3>1. d[h][j] = t[h][j] /\ d[h][k] = t[h][k]
      BY <1>7, <2>5
    <3> QED
      BY <1>1, <3>1 DEF Spread
  <2> QED
    BY <2>3, <2>4, <2>5
<1>11. TlbOK(b, w, x)
  BY <1>1, <1>5 DEF TlbOK
<1> QED
  BY <1>1, <1>5, <1>8, <1>9, <1>10, <1>11 DEF TableOK, x

(***************************************************************************)
(* The steps of mmu_unmap.                                                 *)
(***************************************************************************)
(* The entry that mmu_unmap_vpn looks for is there, and what it finds is   *)
(* that entry.                                                             *)
LEMMA FindsOwn ==
    ASSUME NEW t, NEW w, NEW c, NEW g,
           WantedOK(w), CallOK(c, t, w), OnlyWanted(t, w, c), AllWanted(t, w, c),
           c.op = "unmap", c.stage = "next", c.left # 0, g = Pteg(c.vpn, c.b, c.base)
    PROVE  /\ g \in Groups /\ Cur(c) \in w /\ Sound(Cur(c)) /\ c.vpn \in Parts(Cur(c))
           /\ \E i \in Slots : t[g][i].v /\ t[g][i].avpn = avpn_encode(c.vpn, c.base)
           /\ \A i \in Slots : t[g][i].v /\ t[g][i].avpn = avpn_encode(c.vpn, c.base) =>
                t[g][i] = Pte(Cur(c), c.vpn)
           /\ \A i \in Slots : \A m \in w : \A u \in Parts(m) :
                t[g][i] = Pte(Cur(c), c.vpn) /\ t[g][i] = Pte(m, u) /\ g = Pteg(u, m.b, m.base) =>
                  m = Cur(c) /\ u = c.vpn
<1> DEFINE n == Cur(c)
<1>1. c # NoCall
  BY DEF NoCall
<1>2. c \in Calls /\ n \in w /\ Sound(n) /\ c.vpn \in Parts(n) /\ c.base = BaseOf(c.b)
  BY <1>1, CallFacts
<1>3. n.b = c.b /\ n.base = c.base /\ c.vpn \in Nat /\ c.b \in {"256M", "1T"}
  BY <1>2 DEF Cur, Calls
<1>4. g \in Groups
  BY <1>2, <1>3, GroupFacts DEF Groups
<1>5. ~Pending(c, n, c.vpn)
  BY <1>3 DEF Pending
<1> HIDE DEF n
<1>6. PICK k \in Slots : t[g][k] = Pte(n, c.vpn)
  BY <1>2, <1>3, <1>5 DEF AllWanted
<1>7. t[g][k].v /\ t[g][k].avpn = avpn_encode(c.vpn, c.base)
  BY <1>3, <1>6 DEF Pte
<1>8. ASSUME NEW m \in w, NEW u \in Parts(m), g = Pteg(u, m.b, m.base),
             avpn_encode(u, m.base) = avpn_encode(c.vpn, c.base)
      PROVE  m = n /\ u = c.vpn
  <2>1. Sound(m) /\ (m = n \/ Clear(m, n))
    BY <1>2 DEF WantedOK
  <2>2. m.b \in {"256M", "1T"} /\ m.base = BaseOf(m.b)
    BY <2>1, SoundFacts
  <2>3. u \in Nat
    BY <2>1, PartFacts
  <2>4. CASE m.b = c.b
    <3>1. PageOf(BaseOf(c.b), u) = PageOf(BaseOf(c.b), c.vpn)
      BY <1>2, <1>3, <1>8, <2>2, <2>3, <2>4, SameEntry
    <3> QED
      BY <1>2, <1>3, <2>1, <2>4, <3>1, SamePart
  <2>5. CASE m.b = "1T" /\ c.b = "256M"
    <3>1. m.base = "16M" /\ c.base = "4K"
      BY <1>2, <2>2, <2>5 DEF BaseOf
    <3> QED
      BY <1>2, <1>3, <1>8, <2>1, <2>5, <3>1, OtherSize
  <2>6. CASE m.b = "256M" /\ c.b = "1T"
    <3>1. m.base = "4K" /\ c.base = "16M"
      BY <1>2, <2>2, <2>6 DEF BaseOf
    <3> QED
      BY <1>2, <1>3, <1>8, <2>1, <2>6, <3>1, OtherSize
  <2> QED
    BY <1>3, <2>2, <2>4, <2>5, <2>6
<1>9. ASSUME NEW i \in Slots, t[g][i].v, t[g][i].avpn = avpn_encode(c.vpn, c.base)
      PROVE  t[g][i] = Pte(n, c.vpn)
  <2>1. PICK m \in w : \E u \in Parts(m) :
          ~Pending(c, m, u) /\ t[g][i] = Pte(m, u) /\ g = Pteg(u, m.b, m.base)
    BY <1>4, <1>9 DEF OnlyWanted
  <2>2. PICK u \in Parts(m) : t[g][i] = Pte(m, u) /\ g = Pteg(u, m.b, m.base)
    BY <2>1
  <2>3. t[g][i].avpn = avpn_encode(u, m.base)
    BY <2>2 DEF Pte
  <2>4. m = n /\ u = c.vpn
    BY <1>8, <1>9, <2>2, <2>3
  <2> QED
    BY <2>2, <2>4
<1>10. ASSUME NEW i \in Slots, NEW m \in w, NEW u \in Parts(m),
              t[g][i] = Pte(n, c.vpn), t[g][i] = Pte(m, u), g = Pteg(u, m.b, m.base)
       PROVE  m = n /\ u = c.vpn
  <2>1. t[g][i].avpn = avpn_encode(c.vpn, c.base)
    BY <1>3, <1>10 DEF Pte
  <2>2. t[g][i].avpn = avpn_encode(u, m.base)
    BY <1>10 DEF Pte
  <2> QED
    BY <1>8, <1>10, <2>1, <2>2
<1> QED
  BY <1>2, <1>4, <1>6, <1>7, <1>9, <1>10 DEF n

(* UnmapV makes it invalid.                                                *)
UnmapVStep(t, d, w, c, b, x, g, i, e) ==
    /\ t \in Tables /\ TableOK(t, w, c, b) /\ c.op = "unmap" /\ c.stage = "next" /\ c.left # 0
    /\ g = Pteg(c.vpn, c.b, c.base) /\ i \in Slots
    /\ t[g][i].v /\ t[g][i].avpn = avpn_encode(c.vpn, c.base)
    /\ ~e.v /\ Changed(d, t, g, i, e) /\ x = [c EXCEPT !.stage = "tlbie"]

(* That keeps the table in order.                                          *)
LEMMA UnmapVKeeps ==
    ASSUME NEW t, NEW d, NEW w, NEW c, NEW b, NEW x, NEW g, NEW i, NEW e, UnmapVStep(t, d, w, c, b, x, g, i, e)
    PROVE  TableOK(d, w, x, b)
<1> USE DEF UnmapVStep
<1> DEFINE n == Cur(c)
<1>1. WantedOK(w) /\ CallOK(c, t, w) /\ OnlyWanted(t, w, c) /\ AllWanted(t, w, c) /\ Spread(t) /\ TlbOK(b, w, c)
  BY DEF TableOK
<1>2. c # NoCall /\ c \in Calls /\ n \in w /\ c.left <= Units(c.actual) /\ c.left % Units(c.base) = 0
  BY <1>1 DEF NoCall, CallOK
<1>3. /\ x.op = "unmap" /\ x.stage = "tlbie" /\ x.b = c.b /\ x.base = c.base /\ x.actual = c.actual
      /\ x.vpn = c.vpn /\ x.ra = c.ra /\ x.left = c.left /\ x.slot = c.slot
  BY <1>2 DEF Calls
<1>4. x \in Calls
  BY <1>2 DEF Calls
<1>5. Cur(x) = n
  BY <1>3 DEF Cur
<1>6. /\ g \in Groups /\ t[g][i] = Pte(n, c.vpn)
      /\ \A m \in w : \A u \in Parts(m) :
            t[g][i] = Pte(m, u) /\ g = Pteg(u, m.b, m.base) => m = n /\ u = c.vpn
  BY <1>1, FindsOwn
<1> HIDE DEF n
<1>7. \A m, u : Pending(x, m, u) <=> Pending(c, m, u) \/ (m = n /\ u = c.vpn)
  BY <1>3, <1>5 DEF Pending, n
<1>8. CallOK(x, d, w)
  BY <1>2, <1>3, <1>4, <1>5 DEF CallOK
<1>9. d \in Tables /\ d[g][i] = e /\ \A h \in Groups, j \in Slots : h # g \/ j # i => d[h][j] = t[h][j]
  BY DEF Changed
<1>10. OnlyWanted(d, w, x)
  <2> SUFFICES ASSUME NEW h \in Groups, NEW j \in Slots, d[h][j].v
               PROVE  \E m \in w : \E u \in Parts(m) :
                        ~Pending(x, m, u) /\ d[h][j] = Pte(m, u) /\ h = Pteg(u, m.b, m.base)
    BY DEF OnlyWanted
  <2>1. (h # g \/ j # i) /\ d[h][j] = t[h][j]
    BY <1>9
  <2>2. PICK m \in w : \E u \in Parts(m) :
          ~Pending(c, m, u) /\ t[h][j] = Pte(m, u) /\ h = Pteg(u, m.b, m.base)
    BY <1>1, <2>1 DEF OnlyWanted
  <2>3. PICK u \in Parts(m) : ~Pending(c, m, u) /\ t[h][j] = Pte(m, u) /\ h = Pteg(u, m.b, m.base)
    BY <2>2
  <2>4. ASSUME m = n, u = c.vpn PROVE FALSE
    <3>1. h = g
      BY <1>2, <2>3, <2>4 DEF Cur, n
    <3>2. t[g][j] = t[g][i] /\ j # i /\ t[g][i].v
      BY <1>6, <2>1, <2>3, <2>4, <3>1
    <3> QED
      BY <1>1, <1>6, <3>2 DEF Spread
  <2>5. ~Pending(x, m, u)
    BY <1>7, <2>3, <2>4
  <2> QED
    BY <2>1, <2>3, <2>5
<1>11. AllWanted(d, w, x)
  <2> SUFFICES ASSUME NEW m \in w, NEW u \in Parts(m), ~Pending(x, m, u)
               PROVE  \E j \in Slots : d[Pteg(u, m.b, m.base)][j] = Pte(m, u)
    BY DEF AllWanted
  <2>1. ~Pending(c, m, u) /\ ~(m = n /\ u = c.vpn)
    BY <1>7
  <2>2. PICK j \in Slots : t[Pteg(u, m.b, m.base)][j] = Pte(m, u)
    BY <1>1, <2>1 DEF AllWanted
  <2>3. Pteg(u, m.b, m.base) \in Groups
    BY <1>1, PartGroup
  <2>4. ~(Pteg(u, m.b, m.base) = g /\ j = i)
    BY <1>6, <2>1, <2>2
  <2> QED
    BY <1>9, <2>2, <2>3, <2>4
<1>12. Spread(d)
  <2> SUFFICES ASSUME NEW h \in Groups, NEW j \in Slots, NEW k \in Slots,
                      j # k, d[h][j].v, d[h][k].v, d[h][j].b = d[h][k].b
               PROVE  SegmentOf(d[h][j].avpn, d[h][j].b) # SegmentOf(d[h][k].avpn, d[h][k].b)
    BY DEF Spread
  <2>1. d[h][j] = t[h][j] /\ d[h][k] = t[h][k]
    BY <1>9
  <2> QED
    BY <1>1, <2>1 DEF Spread
<1>13. TlbOK(b, w, x)
  BY <1>1, <1>3 DEF TlbOK
<1> QED
  BY <1>1, <1>8, <1>10, <1>11, <1>12, <1>13 DEF TableOK

(* Tlbie takes the mapping out of the TLB and goes on to the next part.    *)
LEMMA TlbieKeeps ==
    ASSUME NEW t, NEW w, NEW c, NEW b, NEW d,
           TableOK(t, w, c, b), c.op = "unmap", c.stage = "tlbie",
           d = {e \in b : ~(/\ e.b = c.b /\ e.base = c.base /\ e.actual = c.actual
                            /\ e.vpn = c.vpn - (c.vpn % Units(c.actual)))}
    PROVE  TableOK(t, w, NextOf(c), d)
<1> DEFINE x == NextOf(c)
           n == Cur(c)
<1>1. WantedOK(w) /\ CallOK(c, t, w) /\ OnlyWanted(t, w, c) /\ AllWanted(t, w, c) /\ Spread(t) /\ TlbOK(b, w, c)
  BY DEF TableOK
<1>2. c # NoCall /\ c.left # 0 /\ c \in Calls /\ Sound(n) /\ c.vpn \in Parts(n)
  <2>1. c # NoCall
    BY DEF NoCall
  <2>2. c.left # 0
    BY <1>1, <2>1 DEF CallOK
  <2> QED
    BY <1>1, <2>1, <2>2, CallFacts
<1>3. /\ Cur(x) = n /\ x.op = "unmap" /\ x.stage = "next" /\ CallOK(x, t, w)
      /\ \A u \in Parts(n) : u < x.vpn <=> u < c.vpn \/ u = c.vpn
  BY <1>1, <1>2, NextFacts
<1>4. n.b = c.b /\ n.base = c.base /\ n.actual = c.actual /\ c.actual \in Pages
  BY <1>2 DEF Cur, Calls
<1> HIDE DEF x, n
<1>5. \A m, u : u \in Parts(m) => (Pending(x, m, u) <=> Pending(c, m, u))
  BY <1>3 DEF Pending, n
<1>6. n.vpn = c.vpn - (c.vpn % Units(c.actual))
  <2>1. n.vpn \in Nat /\ n.vpn % Units(c.actual) = 0
    BY <1>2, <1>4, SoundFacts
  <2>2. c.vpn \in Nat /\ n.vpn <= c.vpn /\ c.vpn < n.vpn + Units(c.actual)
    BY <1>2, <1>4, PartFacts
  <2>3. Down(c.actual, c.vpn) = n.vpn
    BY <1>4, <2>1, <2>2, DownFacts
  <2> QED
    BY <2>3 DEF Down
<1>7. n \notin d /\ d \subseteq b
  BY <1>4, <1>6
<1>8. TlbOK(d, w, x)
  BY <1>1, <1>3, <1>7 DEF TlbOK
<1>9. OnlyWanted(t, w, x)
  <2> SUFFICES ASSUME NEW h \in Groups, NEW j \in Slots, t[h][j].v
               PROVE  \E m \in w : \E u \in Parts(m) :
                        ~Pending(x, m, u) /\ t[h][j] = Pte(m, u) /\ h = Pteg(u, m.b, m.base)
    BY DEF OnlyWanted
  <2> QED
    BY <1>1, <1>5 DEF OnlyWanted
<1>10. AllWanted(t, w, x)
  BY <1>1, <1>5 DEF AllWanted
<1> QED
  BY <1>1, <1>3, <1>8, <1>9, <1>10 DEF TableOK, x

(***************************************************************************)
(* The end of a call.                                                      *)
(***************************************************************************)
(* Every part of a mapping has been entered or removed when left is zero.  *)
LEMMA ReturnKeeps ==
    ASSUME NEW t, NEW w, NEW c, NEW b, NEW d,
           TableOK(t, w, c, b), c.op # "none", c.left = 0,
           d = IF c.op = "unmap" THEN w \ {Mapping(c, c.vpn - 1)} ELSE w
    PROVE  TableOK(t, d, NoCall, b) /\ d \subseteq w
<1> DEFINE n == Cur(c)
<1>1. WantedOK(w) /\ CallOK(c, t, w) /\ OnlyWanted(t, w, c) /\ AllWanted(t, w, c) /\ Spread(t) /\ TlbOK(b, w, c)
  BY DEF TableOK
<1>2. /\ c # NoCall /\ c \in Calls /\ Sound(n) /\ Units(c.actual) \in Nat \ {0}
      /\ n.vpn \in Nat /\ c.vpn = n.vpn + Units(c.actual)
  <2>1. c # NoCall
    BY DEF NoCall
  <2>2. c \in Calls /\ Sound(n) /\ Units(c.actual) \in Nat \ {0}
        /\ n.vpn \in Nat /\ c.vpn = n.vpn + (Units(c.actual) - c.left)
    BY <1>1, <2>1, CallFacts
  <2>3. n.vpn + (Units(c.actual) - 0) = n.vpn + Units(c.actual)
    BY <2>2
  <2> QED
    BY <2>1, <2>2, <2>3
<1>3. n.b = c.b /\ n.base = c.base /\ n.actual = c.actual /\ c.actual \in Pages /\ n.ra = c.ra /\ c.op \in {"map", "unmap"}
  BY <1>2 DEF Cur, Calls
<1>4. Mapping(c, c.vpn - 1) = n
  <2> DEFINE z == c.vpn - 1
  <2>1. z \in Nat /\ n.vpn <= z /\ z < n.vpn + Units(c.actual)
    BY <1>2
  <2>2. n.vpn % Units(c.actual) = 0
    BY <1>2, <1>3, SoundFacts
  <2> HIDE DEF z
  <2>3. Down(c.actual, z) = n.vpn
    BY <1>2, <1>3, <2>1, <2>2, DownFacts
  <2>4. Mapping(c, z) = [b |-> n.b, base |-> n.base, vpn |-> n.vpn, actual |-> n.actual, ra |-> n.ra]
    BY <1>3, <2>3 DEF Mapping, Down
  <2> QED
    BY <1>2, <2>4, SoundFacts DEF z
<1>5. \A u \in Parts(n) : u \in Nat /\ u < c.vpn
  BY <1>2, <1>3, PartFacts
<1> HIDE DEF n
<1>6. ASSUME NEW m, NEW u \in Parts(m) PROVE ~Pending(NoCall, m, u) /\ (Pending(c, m, u) <=> c.op = "unmap" /\ m = n)
  <2>1. ~Pending(NoCall, m, u)
    BY DEF Pending, NoCall
  <2>2. CASE c.op = "map"
    <3>1. Pending(c, m, u) => m = n /\ u >= c.vpn
      BY <2>2 DEF Pending, n
    <3>2. c.vpn \in Nat
      BY <1>2
    <3> QED
      BY <1>5, <2>1, <2>2, <3>1, <3>2
  <2>3. CASE c.op = "unmap"
    <3>1. Pending(c, m, u) <=> m = n /\ (u < c.vpn \/ (u = c.vpn /\ c.stage = "tlbie"))
      BY <2>3 DEF Pending, n
    <3> QED
      BY <1>5, <2>1, <2>3, <3>1
  <2> QED
    BY <1>3, <2>2, <2>3
<1>7. d \subseteq w /\ WantedOK(d)
  BY <1>1 DEF WantedOK
<1>8. \A m \in w : m \in d <=> ~(c.op = "unmap" /\ m = n)
  BY <1>4
<1>9. OnlyWanted(t, d, NoCall)
  <2> SUFFICES ASSUME NEW h \in Groups, NEW j \in Slots, t[h][j].v
               PROVE  \E m \in d : \E u \in Parts(m) :
                        ~Pending(NoCall, m, u) /\ t[h][j] = Pte(m, u) /\ h = Pteg(u, m.b, m.base)
    BY DEF OnlyWanted
  <2>1. PICK m \in w : \E u \in Parts(m) :
          ~Pending(c, m, u) /\ t[h][j] = Pte(m, u) /\ h = Pteg(u, m.b, m.base)
    BY <1>1 DEF OnlyWanted
  <2>2. PICK u \in Parts(m) : ~Pending(c, m, u) /\ t[h][j] = Pte(m, u) /\ h = Pteg(u, m.b, m.base)
    BY <2>1
  <2>3. m \in d
    BY <1>6, <1>8, <2>2
  <2> QED
    BY <1>6, <2>2, <2>3
<1>10. AllWanted(t, d, NoCall)
  <2> SUFFICES ASSUME NEW m \in d, NEW u \in Parts(m)
               PROVE  \E i \in Slots : t[Pteg(u, m.b, m.base)][i] = Pte(m, u)
    BY DEF AllWanted
  <2>1. m \in w /\ ~Pending(c, m, u)
    BY <1>6, <1>7, <1>8
  <2> QED
    BY <1>1, <2>1 DEF AllWanted
<1>11. TlbOK(b, d, NoCall)
  <2>1. b \subseteq w /\ (c.op = "unmap" => n \notin b)
    BY <1>1 DEF TlbOK, n
  <2>2. b \subseteq d
    BY <1>8, <2>1
  <2> QED
    BY <2>2 DEF TlbOK, NoCall
<1>12. CallOK(NoCall, t, d)
  BY DEF CallOK
<1> QED
  BY <1>1, <1>7, <1>9, <1>10, <1>11, <1>12 DEF TableOK

(***************************************************************************)
(* The beginning of a call.                                                *)
(***************************************************************************)
NewCall(op, n) ==
    [op |-> op, stage |-> "next", b |-> n.b, base |-> n.base, actual |-> n.actual,
     vpn |-> n.vpn, ra |-> n.ra, left |-> Units(n.actual), slot |-> 0]

(* A new call has all of the mapping before it.                            *)
LEMMA NewCallFacts ==
    ASSUME NEW op \in {"map", "unmap"}, NEW n, Sound(n), NEW c, c = NewCall(op, n)
    PROVE  /\ c # NoCall /\ c.op = op /\ Cur(c) = n /\ Mapping(c, c.vpn) = n /\ c.left # 0 /\ c.stage = "next"
           /\ \A t, w : n \in w => CallOK(c, t, w)
           /\ \A u \in Parts(n) : Pending(c, n, u) <=> op = "map"
<1>1. /\ n.b \in {"256M", "1T"} /\ n.base = BaseOf(n.b) /\ n.actual \in Pages /\ n.vpn \in Nat /\ n.ra \in Nat
      /\ n.vpn % Units(n.actual) = 0 /\ Units(n.actual) \in Nat \ {0}
      /\ n.base = "16M" => n.actual = "16M"
      /\ n = [b |-> n.b, base |-> n.base, vpn |-> n.vpn, actual |-> n.actual, ra |-> n.ra]
  BY SoundFacts
<1>2. /\ c.op = op /\ c.stage = "next" /\ c.b = n.b /\ c.base = n.base /\ c.actual = n.actual
      /\ c.vpn = n.vpn /\ c.ra = n.ra /\ c.left = Units(n.actual) /\ c.slot = 0
  BY DEF NewCall
<1> DEFINE A == Units(n.actual)
<1>3. A \in 0 .. LARGE /\ A # 0 /\ A % Units(n.base) = 0
  <2>1. LARGE \in Nat \ {0}
    BY SizeFacts
  <2>2. CASE n.actual = "16M" /\ n.base = "16M"
    BY <2>1, <2>2 DEF Units
  <2>3. CASE n.actual = "16M" /\ n.base # "16M"
    BY <2>1, <2>3 DEF Units
  <2>4. CASE n.actual # "16M"
    BY <1>1, <2>1, <2>4 DEF Units
  <2> QED
    BY <2>2, <2>3, <2>4
<1>4. c \in Calls
  <2>1. n.base \in Pages /\ 0 \in 0 .. PTES_PER_GROUP
    BY <1>1, GroupAssumption DEF BaseOf, Pages
  <2> QED
    BY <1>1, <1>3, <2>1 DEF NewCall, Calls
<1>5. Cur(c) = n
  <2>1. n.vpn - (A - A) = n.vpn
    BY <1>1
  <2>2. Cur(c) = [b |-> n.b, base |-> n.base, vpn |-> n.vpn - (A - A), actual |-> n.actual, ra |-> n.ra]
    BY <1>2 DEF Cur
  <2> HIDE DEF A
  <2> QED
    BY <1>1, <2>1, <2>2
<1>6. Mapping(c, c.vpn) = n
  <2>1. n.vpn - 0 = n.vpn
    BY <1>1
  <2>2. Mapping(c, c.vpn) =
          [b |-> n.b, base |-> n.base, vpn |-> n.vpn - (n.vpn % A), actual |-> n.actual, ra |-> n.ra]
    BY <1>2 DEF Mapping
  <2>3. n.vpn % A = 0
    BY <1>1
  <2> HIDE DEF A
  <2> QED
    BY <1>1, <2>1, <2>2, <2>3
<1>7. c # NoCall /\ c.op # "none"
  <2>1. NoCall.op = "none"
    BY DEF NoCall
  <2> QED
    BY <1>2, <2>1
<1>8. ASSUME NEW t, NEW w, n \in w PROVE CallOK(c, t, w)
  <2>1. c.left <= Units(c.actual) /\ c.left % Units(c.base) = 0
    BY <1>2, <1>3
  <2> QED
    BY <1>2, <1>4, <1>5, <1>8, <2>1 DEF CallOK
<1>9. ASSUME NEW u \in Parts(n) PROVE Pending(c, n, u) <=> op = "map"
  <2>1. u \in Nat /\ n.vpn <= u
    BY PartFacts
  <2>2. u >= c.vpn /\ ~(u < c.vpn)
    BY <1>1, <1>2, <2>1
  <2> QED
    BY <1>2, <1>5, <1>7, <2>2 DEF Pending
<1> QED
  BY <1>2, <1>3, <1>5, <1>6, <1>7, <1>8, <1>9

(* mmu_map asks for a mapping that overlaps no other.                      *)
LEMMA StartMap ==
    ASSUME NEW t, NEW w, NEW b, NEW n, TableOK(t, w, NoCall, b), Sound(n), \A m \in w : Clear(m, n)
    PROVE  TableOK(t, w \cup {n}, NewCall("map", n), b)
<1> DEFINE c == NewCall("map", n)
           d == w \cup {n}
<1>1. WantedOK(w) /\ OnlyWanted(t, w, NoCall) /\ AllWanted(t, w, NoCall) /\ Spread(t) /\ TlbOK(b, w, NoCall)
  BY DEF TableOK
<1>2. c # NoCall /\ c.op = "map" /\ Cur(c) = n /\ CallOK(c, t, d) /\ \A u \in Parts(n) : Pending(c, n, u)
  BY NewCallFacts
<1> HIDE DEF c
<1>3. ASSUME NEW m \in w PROVE Clear(n, m) /\ m # n
  <2>1. Clear(m, n)
    OBVIOUS
  <2>2. Sound(m) /\ Sound(n)
    BY <1>1 DEF WantedOK
  <2>3. n.vpn \in Nat /\ Units(n.actual) \in Nat \ {0}
    BY SoundFacts
  <2>4. ~Clear(n, n)
    BY <2>3 DEF Clear
  <2> QED
    BY <2>1, <2>4 DEF Clear
<1>4. WantedOK(d)
  BY <1>1, <1>3 DEF WantedOK
<1>5. ASSUME NEW m \in w, NEW u PROVE ~Pending(c, m, u) /\ ~Pending(NoCall, m, u)
  BY <1>2, <1>3 DEF Pending, NoCall
<1>6. OnlyWanted(t, d, c)
  <2> SUFFICES ASSUME NEW h \in Groups, NEW j \in Slots, t[h][j].v
               PROVE  \E m \in d : \E u \in Parts(m) :
                        ~Pending(c, m, u) /\ t[h][j] = Pte(m, u) /\ h = Pteg(u, m.b, m.base)
    BY DEF OnlyWanted
  <2>1. PICK m \in w : \E u \in Parts(m) : t[h][j] = Pte(m, u) /\ h = Pteg(u, m.b, m.base)
    BY <1>1 DEF OnlyWanted
  <2> QED
    BY <1>5, <2>1
<1>7. AllWanted(t, d, c)
  <2> SUFFICES ASSUME NEW m \in d, NEW u \in Parts(m), ~Pending(c, m, u)
               PROVE  \E i \in Slots : t[Pteg(u, m.b, m.base)][i] = Pte(m, u)
    BY DEF AllWanted
  <2>1. m \in w
    BY <1>2
  <2> QED
    BY <1>1, <1>5, <2>1 DEF AllWanted
<1>8. TlbOK(b, d, c)
  BY <1>1, <1>2 DEF TlbOK
<1> QED
  BY <1>1, <1>2, <1>4, <1>6, <1>7, <1>8 DEF TableOK, c

(* mmu_unmap takes one back.                                               *)
LEMMA StartUnmap ==
    ASSUME NEW t, NEW w, NEW b, NEW n \in w, TableOK(t, w, NoCall, b)
    PROVE  TableOK(t, w, NewCall("unmap", n), b)
<1> DEFINE c == NewCall("unmap", n)
<1>1. WantedOK(w) /\ OnlyWanted(t, w, NoCall) /\ AllWanted(t, w, NoCall) /\ Spread(t) /\ TlbOK(b, w, NoCall)
  BY DEF TableOK
<1>2. Sound(n)
  BY <1>1 DEF WantedOK
<1>3. c # NoCall /\ c.op = "unmap" /\ Cur(c) = n /\ CallOK(c, t, w) /\ c.left # 0 /\ \A u \in Parts(n) : ~Pending(c, n, u)
  BY <1>2, NewCallFacts
<1> HIDE DEF c
<1>4. ASSUME NEW m \in w, NEW u \in Parts(m) PROVE ~Pending(c, m, u) /\ ~Pending(NoCall, m, u)
  <2>1. ~Pending(NoCall, m, u)
    BY DEF Pending, NoCall
  <2>2. Pending(c, m, u) => m = n
    BY <1>3 DEF Pending
  <2> QED
    BY <1>3, <2>1, <2>2
<1>5. OnlyWanted(t, w, c)
  <2> SUFFICES ASSUME NEW h \in Groups, NEW j \in Slots, t[h][j].v
               PROVE  \E m \in w : \E u \in Parts(m) :
                        ~Pending(c, m, u) /\ t[h][j] = Pte(m, u) /\ h = Pteg(u, m.b, m.base)
    BY DEF OnlyWanted
  <2>1. PICK m \in w : \E u \in Parts(m) : t[h][j] = Pte(m, u) /\ h = Pteg(u, m.b, m.base)
    BY <1>1 DEF OnlyWanted
  <2> QED
    BY <1>4, <2>1
<1>6. AllWanted(t, w, c)
  BY <1>1, <1>4 DEF AllWanted
<1>7. TlbOK(b, w, c)
  BY <1>1, <1>3 DEF TlbOK
<1> QED
  BY <1>1, <1>3, <1>5, <1>6, <1>7 DEF TableOK, c

(* A call of either function.                                              *)
LEMMA CallIs ==
    ASSUME NEW ea, ea.page \in Nat, NEW ra, NEW actual, NEW op
    PROVE  Call(op, ea, ra, actual) = NewCall(op, MappingOf(ea, ra, actual, off))
<1>1. /\ ea_2_base_size(ea) = BaseOf(ea_2_seg_size(ea))
      /\ ea_2_seg_size(ea) = SizeOf(ea.space, off) /\ ea_2_vpn(ea) = VpnOf(ea.space, ea.page, off)
  BY EaFacts
<1> DEFINE n == MappingOf(ea, ra, actual, off)
<1>2. /\ n.b = ea_2_seg_size(ea) /\ n.base = ea_2_base_size(ea) /\ n.vpn = ea_2_vpn(ea)
      /\ n.actual = actual /\ n.ra = ra
  BY <1>1 DEF MappingOf
<1> HIDE DEF n
<1>3. Call(op, ea, ra, actual) = NewCall(op, n)
  BY <1>2 DEF Call, NewCall
<1> QED
  BY <1>3 DEF n

(* mmu_map for pages that are aligned and not mapped.                      *)
LEMMA MapStarts ==
    ASSUME NEW ea, NEW ra, NEW actual, NEW n,
           ea.page \in Nat, n = MappingOf(ea, ra, actual, off), Sound(n), \A m \in wanted : Clear(m, n),
           ea.page % Units(actual) = 0, ra % Units(actual) = 0,
           TableOK(htab, wanted, call, tlb), call.op = "none", mmu_map(ea, ra, actual)
    PROVE  TableOK(htab, wanted', call', tlb) /\ wanted' = wanted \cup {n} /\ halt' = halt /\ call'.op # "none"
<1> DEFINE c == NewCall("map", n)
<1>1. Call("map", ea, ra, actual) = c
  BY CallIs
<1>2. call = NoCall
  BY NoCallOp DEF TableOK
<1>3. /\ c.op = "map" /\ c.actual = actual /\ c.ra = ra /\ c.base = n.base /\ n.actual = actual
      /\ Mapping(c, c.vpn) = n
  <2>1. c.actual = n.actual /\ c.ra = n.ra /\ c.base = n.base
    BY DEF NewCall
  <2>2. n.actual = actual /\ n.ra = ra
    BY DEF MappingOf
  <2>3. c.op = "map" /\ Mapping(c, c.vpn) = n
    BY NewCallFacts
  <2> QED
    BY <2>1, <2>2, <2>3
<1> HIDE DEF c
<1>4. ~(Units(actual) < Units(n.base))
  <2>1. n.base = BaseOf(n.b) /\ (n.base = "16M" => n.actual = "16M") /\ n.actual \in Pages /\ LARGE \in Nat \ {0}
    BY SoundFacts, SizeFacts
  <2> QED
    BY <1>3, <2>1 DEF Units, Pages
<1>5. ~CallBug(c, ea)
  BY <1>3, <1>4 DEF CallBug
<1>6. call' = c /\ wanted' = wanted \cup {n} /\ halt' = halt
  BY <1>1, <1>3, <1>5 DEF mmu_map
<1>7. TableOK(htab, wanted \cup {n}, c, tlb)
  BY <1>2, StartMap DEF c
<1> QED
  BY <1>3, <1>6, <1>7

-----------------------------------------------------------------------------
(***************************************************************************)
(* The actions.                                                            *)
(***************************************************************************)
(* A script that was good stays good when mappings are taken back.         *)
LEMMA ScriptSubset ==
    ASSUME NEW s, NEW o, NEW w, NEW d, ScriptOK(s, o, w), d \subseteq w
    PROVE  ScriptOK(s, o, d)
BY DEF ScriptOK

(* The first of the entries that mmu_map_vpn or mmu_unmap_vpn looks for.   *)
LEMMA FirstSlot ==
    ASSUME NEW T, T \subseteq Slots, T # {}
    PROVE  (CHOOSE n \in T : \A m \in T : n <= m) \in T
<1>1. T \subseteq Nat
  BY DEF Slots
<1>2. \E n \in T : \A m \in T : n <= m
  BY <1>1, NatMin
<1> QED
  BY <1>2

(* MapR keeps the invariant, or stops.                                     *)
LEMMA MapRInv ==
    ASSUME IInv, MapR
    PROVE  IInv' \/ Spilled'
<1>1. htab \in Tables /\ TableOK(htab, wanted, call, tlb) /\ ScriptOK(script, off, wanted)
      /\ IsFiniteSet(tlb) /\ Cardinality(tlb) <= TLB_SIZE /\ off \in BOOLEAN /\ halt = "no"
  BY DEF IInv, Types, Tables
<1>2. /\ call.op = "map" /\ call.stage = "next" /\ call.left # 0
      /\ tlb' = tlb /\ off' = off /\ script' = script /\ wanted' = wanted
  BY DEF MapR
<1> DEFINE g == Group
           T == Free(g)
           i == CHOOSE n \in T : \A m \in T : n <= m
<1>3. g = Pteg(call.vpn, call.b, call.base)
  BY DEF Group
<1>16. g \in Groups /\ ((\E k \in Slots : ~htab[g][k].v) \/ Cardinality(Used(wanted)) > PTES_PER_GROUP)
  BY <1>1, <1>2, <1>3, SpillOnly DEF TableOK
<1>5. T = {k \in Slots : ~htab[g][k].v}
  BY DEF Free, Slots
<1>17. ASSUME T = {} PROVE Spilled'
  <2>1. Cardinality(Used(wanted)) > PTES_PER_GROUP
    BY <1>5, <1>16, <1>17
  <2>2. halt' = "spill" /\ htab' = htab /\ call' = call
    BY <1>17 DEF MapR
  <2>3. SegmentsUsed' = Used(wanted)
    BY <1>2 DEF SegmentsUsed, Used
  <2>4. htab' \in [Groups -> [Slots -> Ptes]] /\ TableOK(htab', wanted', call', tlb')
    BY <1>1, <1>2, <2>2 DEF Tables
  <2> QED
    BY <1>1, <1>2, <2>1, <2>2, <2>3, <2>4 DEF Spilled, Types
<1>18. SUFFICES ASSUME T # {} PROVE IInv'
  BY <1>17
<1>4. g \in Groups /\ \E k \in Slots : ~htab[g][k].v
  BY <1>5, <1>16, <1>18
<1>6. T # {} /\ T \subseteq Slots
  BY <1>5, <1>18
<1>7. i \in T
  BY <1>6, FirstSlot
<1>8. /\ htab' = [htab EXCEPT ![g][i].ra = call.ra, ![g][i].lp = rpn_encode(call.base, call.actual)]
      /\ call' = [call EXCEPT !.stage = "v", !.slot = i]
      /\ halt' = halt
  BY <1>6 DEF MapR
<1>9. i \in Slots /\ ~htab[g][i].v
  BY <1>5, <1>7
<1> HIDE DEF i, T, g
<1> DEFINE p == htab[g][i]
           e == [p EXCEPT !.ra = call.ra, !.lp = rpn_encode(call.base, call.actual)]
<1>10. htab[g] \in [Slots -> Ptes] /\ p \in Ptes
  BY <1>1, <1>4, <1>9 DEF Tables
<1>11. e \in Ptes /\ ~e.v /\ e.ra = call.ra /\ e.lp = rpn_encode(call.base, call.actual)
  <2>1. call \in Calls
    BY <1>1, <1>2 DEF TableOK, CallOK, NoCall
  <2>2. call.ra \in Nat /\ rpn_encode(call.base, call.actual) \in Pages
    BY <2>1 DEF Calls, rpn_encode, Pages
  <2>3. ~p.v
    BY <1>9
  <2> HIDE DEF p
  <2> QED
    BY <1>10, <2>2, <2>3 DEF Ptes
<1>12. htab' = [htab EXCEPT ![g] = [htab[g] EXCEPT ![i] = e]]
  BY <1>1, <1>4, <1>8, <1>9, <1>10 DEF Tables, Ptes
<1> HIDE DEF e, p
<1>13. Changed(htab', htab, g, i, e)
  BY <1>1, <1>4, <1>9, <1>11, <1>12, Replaces
<1>0. MapRStep(htab, htab', wanted, call, tlb, call', g, i, e)
  BY <1>1, <1>2, <1>3, <1>4, <1>8, <1>9, <1>11, <1>13 DEF MapRStep
<1>14. TableOK(htab', wanted, call', tlb)
  BY <1>0, MapRKeeps
<1>15. htab' \in Tables
  BY <1>13 DEF Changed
<1> QED
  BY <1>1, <1>2, <1>8, <1>14, <1>15 DEF IInv, Types, Tables

(* MapV keeps it.                                                          *)
LEMMA MapVInv ==
    ASSUME IInv, MapV
    PROVE  IInv'
<1>1. htab \in Tables /\ TableOK(htab, wanted, call, tlb) /\ ScriptOK(script, off, wanted)
      /\ IsFiniteSet(tlb) /\ Cardinality(tlb) <= TLB_SIZE /\ off \in BOOLEAN /\ halt = "no"
  BY DEF IInv, Types, Tables
<1> DEFINE g == Group
           i == call.slot
           n == Cur(call)
<1>2. /\ call.op = "map" /\ call.stage = "v" /\ call' = NextOf(call)
      /\ tlb' = tlb /\ off' = off /\ script' = script /\ wanted' = wanted /\ halt' = halt
      /\ htab' = [htab EXCEPT ![g][i] =
                  [v |-> TRUE, b |-> call.b, avpn |-> avpn_encode(call.vpn, call.base),
                   l |-> call.actual # "4K", lp |-> @.lp, ra |-> @.ra]]
  BY DEF MapV, NextUnit, NextOf
<1>3. g = Pteg(call.vpn, call.b, call.base)
  BY DEF Group
<1>4. /\ call # NoCall /\ call \in Calls /\ n \in wanted /\ Sound(n) /\ call.vpn \in Parts(n) /\ call.base = BaseOf(call.b)
      /\ i \in Slots /\ htab[g][i].ra = call.ra /\ htab[g][i].lp = rpn_encode(call.base, call.actual)
  <2>1. call # NoCall /\ WantedOK(wanted) /\ CallOK(call, htab, wanted)
    BY <1>1, <1>2 DEF NoCall, TableOK
  <2>2. /\ call.left # 0 /\ i \in 0 .. PTES_PER_GROUP /\ i # 0
        /\ htab[g][i].ra = call.ra /\ htab[g][i].lp = rpn_encode(call.base, call.actual)
    BY <1>2, <1>3, <2>1 DEF CallOK, Calls
  <2>3. i \in Slots
    BY <2>2, GroupAssumption DEF Slots
  <2> QED
    BY <2>1, <2>2, <2>3, CallFacts
<1>5. g \in Groups
  BY <1>1, <1>3, <1>4, PartGroup DEF TableOK, Cur
<1> HIDE DEF g, i
<1> DEFINE p == htab[g][i]
           e == Pte(n, call.vpn)
<1>6. htab[g] \in [Slots -> Ptes] /\ p \in Ptes
  BY <1>1, <1>4, <1>5 DEF Tables
<1>7. e = [v |-> TRUE, b |-> call.b, avpn |-> avpn_encode(call.vpn, call.base),
           l |-> call.actual # "4K", lp |-> p.lp, ra |-> p.ra]
  <2>1. p.ra = n.ra /\ p.lp = rpn_encode(n.base, n.actual)
    BY <1>4 DEF Cur
  <2>2. n.b = call.b /\ n.base = call.base /\ n.actual = call.actual
    BY DEF Cur
  <2> HIDE DEF p, n
  <2> QED
    BY <2>1, <2>2 DEF Pte
<1>8. e \in Ptes
  <2>1. avpn_encode(call.vpn, call.base) \in Nat
    <3>1. call.vpn \in Nat /\ DROP \in Nat \ {0}
      BY <1>4, PartFacts, HtabAssumption
    <3>2. call.vpn \div DROP \in Nat
      BY <3>1, DivMod
    <3> QED
      BY <3>2 DEF avpn_encode
  <2>2. call.b \in {"256M", "1T"} /\ (call.actual # "4K") \in BOOLEAN
    BY <1>4 DEF Calls
  <2> HIDE DEF p, e
  <2> QED
    BY <1>6, <1>7, <2>1, <2>2 DEF Ptes
<1>9. htab' = [htab EXCEPT ![g] = [htab[g] EXCEPT ![i] = e]]
  <2> HIDE DEF e
  <2> QED
    BY <1>1, <1>2, <1>4, <1>5, <1>6, <1>7 DEF Tables
<1> HIDE DEF e, p
<1>10. Changed(htab', htab, g, i, e)
  BY <1>1, <1>4, <1>5, <1>8, <1>9, Replaces
<1>11. TableOK(htab', wanted, call', tlb)
  BY <1>1, <1>2, <1>3, <1>10, MapVKeeps DEF e, i
<1>12. htab' \in Tables
  BY <1>10 DEF Changed
<1> QED
  BY <1>1, <1>2, <1>11, <1>12 DEF IInv, Types, Tables

(* UnmapV keeps it, and finds the entry.                                   *)
LEMMA UnmapVInv ==
    ASSUME IInv, UnmapV
    PROVE  IInv'
<1>1. htab \in Tables /\ TableOK(htab, wanted, call, tlb) /\ ScriptOK(script, off, wanted)
      /\ IsFiniteSet(tlb) /\ Cardinality(tlb) <= TLB_SIZE /\ off \in BOOLEAN /\ halt = "no"
  BY DEF IInv, Types, Tables
<1>2. /\ call.op = "unmap" /\ call.stage = "next" /\ call.left # 0
      /\ tlb' = tlb /\ off' = off /\ script' = script /\ wanted' = wanted
  BY DEF UnmapV
<1> DEFINE g == Group
           T == Found(g)
           i == CHOOSE n \in T : \A m \in T : n <= m
<1>3. g = Pteg(call.vpn, call.b, call.base)
  BY DEF Group
<1>4. g \in Groups /\ \E k \in Slots : htab[g][k].v /\ htab[g][k].avpn = avpn_encode(call.vpn, call.base)
  BY <1>1, <1>2, <1>3, FindsOwn DEF TableOK
<1>5. T = {k \in Slots : htab[g][k].v /\ htab[g][k].avpn = avpn_encode(call.vpn, call.base)}
  BY DEF Found, Slots
<1>6. T # {} /\ T \subseteq Slots
  BY <1>4, <1>5
<1>7. i \in T
  BY <1>6, FirstSlot
<1>8. htab' = [htab EXCEPT ![g][i].v = FALSE] /\ call' = [call EXCEPT !.stage = "tlbie"] /\ halt' = halt
  BY <1>6 DEF UnmapV
<1>9. i \in Slots /\ htab[g][i].v /\ htab[g][i].avpn = avpn_encode(call.vpn, call.base)
  BY <1>5, <1>7
<1> HIDE DEF i, T, g
<1> DEFINE p == htab[g][i]
           e == [p EXCEPT !.v = FALSE]
<1>10. htab[g] \in [Slots -> Ptes] /\ p \in Ptes
  BY <1>1, <1>4, <1>9 DEF Tables
<1>11. e \in Ptes /\ ~e.v
  <2> HIDE DEF p
  <2> QED
    BY <1>10 DEF Ptes
<1>12. htab' = [htab EXCEPT ![g] = [htab[g] EXCEPT ![i] = e]]
  BY <1>1, <1>4, <1>8, <1>9, <1>10 DEF Tables, Ptes
<1> HIDE DEF e, p
<1>13. Changed(htab', htab, g, i, e)
  BY <1>1, <1>4, <1>9, <1>11, <1>12, Replaces
<1>0. UnmapVStep(htab, htab', wanted, call, tlb, call', g, i, e)
  BY <1>1, <1>2, <1>3, <1>8, <1>9, <1>11, <1>13 DEF UnmapVStep
<1>14. TableOK(htab', wanted, call', tlb)
  BY <1>0, UnmapVKeeps
<1>15. htab' \in Tables
  BY <1>13 DEF Changed
<1> QED
  BY <1>1, <1>2, <1>8, <1>14, <1>15 DEF IInv, Types, Tables

(* Tlbie keeps it.                                                         *)
LEMMA TlbieInv ==
    ASSUME IInv, Tlbie
    PROVE  IInv'
<1>1. htab \in Tables /\ TableOK(htab, wanted, call, tlb) /\ ScriptOK(script, off, wanted)
      /\ IsFiniteSet(tlb) /\ Cardinality(tlb) <= TLB_SIZE /\ off \in BOOLEAN /\ halt = "no"
  BY DEF IInv, Types, Tables
<1>2. /\ call.op = "unmap" /\ call.stage = "tlbie" /\ call' = NextOf(call)
      /\ tlb' = {e \in tlb : ~(/\ e.b = call.b /\ e.base = call.base /\ e.actual = call.actual
                               /\ e.vpn = call.vpn - (call.vpn % Units(call.actual)))}
      /\ htab' = htab /\ off' = off /\ script' = script /\ wanted' = wanted /\ halt' = halt
  BY DEF Tlbie, NextUnit, NextOf
<1>3. TableOK(htab, wanted, NextOf(call), tlb')
  BY <1>1, <1>2, TlbieKeeps
<1>4. IsFiniteSet(tlb') /\ Cardinality(tlb') <= TLB_SIZE
  <2>1. tlb' \subseteq tlb
    BY <1>2
  <2>2. IsFiniteSet(tlb') /\ Cardinality(tlb') <= Cardinality(tlb)
    BY <1>1, <2>1, FS_Subset
  <2>3. Cardinality(tlb') \in Nat /\ Cardinality(tlb) \in Nat /\ TLB_SIZE \in Nat
    BY <1>1, <2>2, FS_CardinalityType, HtabAssumption
  <2> QED
    BY <1>1, <2>2, <2>3
<1> QED
  BY <1>1, <1>2, <1>3, <1>4 DEF IInv, Types, Tables

(* Return keeps it.                                                        *)
LEMMA ReturnInv ==
    ASSUME IInv, Return
    PROVE  IInv'
<1>1. htab \in Tables /\ TableOK(htab, wanted, call, tlb) /\ ScriptOK(script, off, wanted)
      /\ IsFiniteSet(tlb) /\ Cardinality(tlb) <= TLB_SIZE /\ off \in BOOLEAN /\ halt = "no"
  BY DEF IInv, Types, Tables
<1>2. /\ call.op # "none" /\ call.left = 0 /\ call' = NoCall
      /\ wanted' = IF call.op = "unmap" THEN wanted \ {Mapping(call, call.vpn - 1)} ELSE wanted
      /\ htab' = htab /\ tlb' = tlb /\ off' = off /\ script' = script /\ halt' = halt
  BY DEF Return
<1>3. TableOK(htab, wanted', NoCall, tlb) /\ wanted' \subseteq wanted
  BY <1>1, <1>2, ReturnKeeps
<1>4. ScriptOK(script, off, wanted')
  BY <1>1, <1>3, ScriptSubset
<1> QED
  BY <1>1, <1>2, <1>3, <1>4 DEF IInv, Types, Tables

(* The TLB takes nothing that a call has finished removing.                *)
LEMMA TlbFillInv ==
    ASSUME IInv, NEW ea \in EAs, TlbFill(ea)
    PROVE  IInv'
<1>1. htab \in Tables /\ TableOK(htab, wanted, call, tlb) /\ ScriptOK(script, off, wanted)
      /\ IsFiniteSet(tlb) /\ Cardinality(tlb) <= TLB_SIZE /\ off \in BOOLEAN /\ halt = "no"
  BY DEF IInv, Types, Tables
<1>2. /\ htab' = htab /\ off' = off /\ script' = script /\ wanted' = wanted /\ halt' = halt /\ call' = call
      /\ \E e \in WalkEa(ea) \ tlb :
            \/ Cardinality(tlb) < TLB_SIZE /\ tlb' = tlb \cup {e}
            \/ Cardinality(tlb) = TLB_SIZE /\ \E old \in tlb : tlb' = (tlb \ {old}) \cup {e}
  BY DEF TlbFill
<1>3. PICK e \in WalkEa(ea) \ tlb :
            \/ Cardinality(tlb) < TLB_SIZE /\ tlb' = tlb \cup {e}
            \/ Cardinality(tlb) = TLB_SIZE /\ \E old \in tlb : tlb' = (tlb \ {old}) \cup {e}
  BY <1>2
<1>4. ea.page \in Nat
  <2>1. AilPages[1] \in Nat
    BY PlaceAssumption
  <2> QED
    BY <2>1 DEF EAs, Ea, VmPages
<1> DEFINE b == ea_2_seg_size(ea)
           vpn == ea_2_vpn(ea)
<1>5. b \in {"256M", "1T"} /\ vpn \in Nat /\ WalkEa(ea) = Walk(vpn, b, BaseOf(b))
  BY <1>4, EaFacts DEF WalkEa
<1> HIDE DEF b, vpn
<1>6. e \in wanted /\ \E u \in Parts(e) : ~Pending(call, e, u)
  BY <1>1, <1>3, <1>5, WalkSound DEF TableOK, Tables
<1>7. ASSUME call.op = "unmap", call.left = 0 PROVE e # Cur(call)
  <2>1. call # NoCall /\ WantedOK(wanted) /\ CallOK(call, htab, wanted)
    BY <1>1, <1>7 DEF NoCall, TableOK
  <2> DEFINE n == Cur(call)
  <2>2. /\ Sound(n) /\ Units(call.actual) \in Nat \ {0} /\ n.vpn \in Nat
        /\ call.vpn = n.vpn + (Units(call.actual) - call.left) /\ n.actual = call.actual
    BY <2>1, CallFacts DEF Cur
  <2>3. call.vpn = n.vpn + Units(n.actual)
    BY <1>7, <2>2
  <2>4. ASSUME NEW u \in Parts(n) PROVE u < call.vpn
    BY <2>2, <2>3, PartFacts
  <2>5. ASSUME NEW u \in Parts(n) PROVE Pending(call, n, u)
    BY <1>7, <2>4 DEF Pending
  <2> QED
    BY <1>6, <2>5
<1>8. /\ IsFiniteSet(tlb') /\ Cardinality(tlb') <= TLB_SIZE
      /\ tlb' \subseteq tlb \cup {e}
  <2>1. Cardinality(tlb) \in Nat /\ TLB_SIZE \in Nat
    BY <1>1, FS_CardinalityType, HtabAssumption
  <2>2. CASE Cardinality(tlb) < TLB_SIZE /\ tlb' = tlb \cup {e}
    <3>1. IsFiniteSet(tlb') /\ Cardinality(tlb') = Cardinality(tlb) + 1
      BY <1>1, <1>3, <2>2, FS_AddElement
    <3> QED
      BY <2>1, <2>2, <3>1
  <2>3. CASE Cardinality(tlb) = TLB_SIZE /\ \E old \in tlb : tlb' = (tlb \ {old}) \cup {e}
    <3>1. PICK old \in tlb : tlb' = (tlb \ {old}) \cup {e}
      BY <2>3
    <3> DEFINE rest == tlb \ {old}
    <3>2. IsFiniteSet(rest) /\ Cardinality(rest) = Cardinality(tlb) - 1 /\ e \notin rest
      BY <1>1, <1>3, FS_RemoveElement
    <3> HIDE DEF rest
    <3>3. IsFiniteSet(rest \cup {e}) /\ Cardinality(rest \cup {e}) = Cardinality(rest) + 1
      BY <3>2, FS_AddElement
    <3>4. tlb' = rest \cup {e}
      BY <3>1 DEF rest
    <3>5. tlb' \subseteq tlb \cup {e}
      BY <3>1
    <3> QED
      BY <2>1, <2>3, <3>2, <3>3, <3>4, <3>5
  <2> QED
    BY <1>3, <2>2, <2>3
<1>9. TlbOK(tlb', wanted, call)
  BY <1>1, <1>6, <1>7, <1>8 DEF TableOK, TlbOK
<1>10. TableOK(htab, wanted, call, tlb')
  BY <1>1, <1>9 DEF TableOK
<1> QED
  BY <1>1, <1>2, <1>8, <1>10 DEF IInv, Types, Tables

(* Segments begin at a multiple of either page size.                       *)
LEMMA VpnAligned ==
    ASSUME NEW space, NEW p \in Nat, NEW o, NEW s \in Pages
    PROVE  VpnOf(space, p, o) \in Nat /\ VpnOf(space, p, o) % Units(s) = p % Units(s)
<1> DEFINE d == Units(s)
<1>1. d \in Nat \ {0} /\ (d = 1 \/ d = LARGE)
  BY SizeFacts DEF Units
<1>2. SEG \in Nat /\ TERA \in Nat /\ AIL_VSID \in Nat /\ HV_VSID \in Nat /\ GRM_VSID \in Nat
  BY HtabAssumption, VsidAssumption
<1>3. SEG % d = 0 /\ TERA % d = 0
  BY <1>1, <1>2, HtabAssumption
<1> HIDE DEF d
<1>4. /\ (AIL_VSID * SEG) % d = 0 /\ AIL_VSID * SEG \in Nat
      /\ (HV_VSID * TERA) % d = 0 /\ HV_VSID * TERA \in Nat
      /\ (GRM_VSID * TERA) % d = 0 /\ GRM_VSID * TERA \in Nat
  BY <1>1, <1>2, <1>3, MultipleProduct
<1> DEFINE a == AIL_VSID * SEG
           h == HV_VSID * TERA
           g == GRM_VSID * TERA
<1>5. VpnOf(space, p, o) \in {a + p, h + p, g + p, p}
  BY DEF VpnOf
<1>6. a \in Nat /\ h \in Nat /\ g \in Nat /\ a % d = 0 /\ h % d = 0 /\ g % d = 0
  BY <1>4
<1> HIDE DEF a, h, g
<1>7. (a + p) % d = p % d /\ (h + p) % d = p % d /\ (g + p) % d = p % d
  BY <1>1, <1>6, MultipleSum
<1>8. ASSUME NEW x, x \in {a + p, h + p, g + p, p} PROVE x \in Nat /\ x % d = p % d
  BY <1>6, <1>7, <1>8
<1> QED
  BY <1>5, <1>8 DEF d

(* mmu_unmap of a page that the hardware finds is for the whole of it.     *)
LEMMA UnmapInv ==
    ASSUME IInv, NEW u \in Unmaps, mmu_unmap(Ea(u[1], u[2]))
    PROVE  IInv'
<1>1. htab \in Tables /\ TableOK(htab, wanted, call, tlb) /\ ScriptOK(script, off, wanted)
      /\ IsFiniteSet(tlb) /\ Cardinality(tlb) <= TLB_SIZE /\ off \in BOOLEAN /\ halt = "no"
  BY DEF IInv, Types, Tables
<1> DEFINE ea == Ea(u[1], u[2])
<1>2. ea.page \in Nat /\ ea.space = u[1] /\ ea.page = u[2]
  BY CallerAssumption DEF Ea, VmPages
<1> HIDE DEF ea
<1>3. /\ call.op = "none" /\ htab' = htab /\ tlb' = tlb /\ off' = off /\ script' = script /\ wanted' = wanted /\ halt' = halt
      /\ \E m \in WalkEa(ea) : /\ ~CallBug(Call("unmap", ea, m.ra, m.actual), ea)
                               /\ call' = Call("unmap", ea, m.ra, m.actual)
  BY DEF mmu_unmap, ea
<1>4. PICK m \in WalkEa(ea) : /\ ~CallBug(Call("unmap", ea, m.ra, m.actual), ea)
                              /\ call' = Call("unmap", ea, m.ra, m.actual)
  BY <1>3
<1> DEFINE b == ea_2_seg_size(ea)
           vpn == ea_2_vpn(ea)
<1>5. /\ b \in {"256M", "1T"} /\ vpn \in Nat /\ WalkEa(ea) = Walk(vpn, b, BaseOf(b))
      /\ b = SizeOf(ea.space, off) /\ vpn = VpnOf(ea.space, ea.page, off)
  BY <1>2, EaFacts DEF WalkEa
<1> HIDE DEF b, vpn
<1>6. m \in wanted /\ Covers(m, vpn, b, BaseOf(b))
  BY <1>1, <1>5, WalkSound DEF TableOK, Tables
<1>7. Sound(m)
  BY <1>1, <1>6 DEF TableOK, WantedOK
<1>8. m.actual \in Pages /\ m = [b |-> m.b, base |-> m.base, vpn |-> m.vpn, actual |-> m.actual, ra |-> m.ra]
  BY <1>7, SoundFacts
<1>9. ea.page % Units(m.actual) = 0
  BY <1>4 DEF CallBug, Call
<1>10. vpn % Units(m.actual) = 0
  BY <1>2, <1>5, <1>8, <1>9, VpnAligned
<1>11. m.vpn = vpn /\ m.b = b /\ m.base = BaseOf(b)
  BY <1>5, <1>6, <1>10 DEF Covers
<1>12. MappingOf(ea, m.ra, m.actual, off) = m
  BY <1>5, <1>8, <1>11 DEF MappingOf
<1>13. call' = NewCall("unmap", m)
  BY <1>2, <1>4, <1>12, CallIs
<1>14. call = NoCall
  BY <1>1, <1>3, NoCallOp DEF TableOK
<1>15. TableOK(htab, wanted, call', tlb)
  BY <1>1, <1>6, <1>13, <1>14, StartUnmap
<1> QED
  BY <1>1, <1>3, <1>15 DEF IInv, Types, Tables

-----------------------------------------------------------------------------
(***************************************************************************)
(* The mappings that the callers ask for.                                  *)
(***************************************************************************)
(* Down to, and up to, a large page.                                       *)
LEMMA LargeFacts ==
    ASSUME NEW p \in Nat
    PROVE  /\ LargeDown(p) \in Nat /\ LargeDown(p) % LARGE = 0 /\ LargeDown(p) <= p /\ p < LargeDown(p) + LARGE
           /\ LargeUp(p) \in Nat /\ LargeUp(p) % LARGE = 0 /\ p <= LargeUp(p) /\ LargeUp(p) < p + LARGE
<1>1. LARGE \in Nat \ {0}
  BY SizeFacts
<1>2. ASSUME NEW a \in Nat
      PROVE  LargeDown(a) \in Nat /\ LargeDown(a) % LARGE = 0 /\ LargeDown(a) <= a /\ a < LargeDown(a) + LARGE
  <2> DEFINE q == a \div LARGE
             r == a % LARGE
             z == LARGE * q
  <2>1. q \in Nat /\ r \in 0 .. LARGE - 1 /\ a = LARGE * q + r
    BY <1>1, DivMod
  <2>2. LargeDown(a) = a - r
    BY DEF LargeDown
  <2> HIDE DEF q, r
  <2>3. z \in Nat /\ a = z + r
    BY <1>1, <2>1
  <2>4. (LARGE * q + 0) % LARGE = 0
    BY <1>1, <2>1, DivUnique
  <2>5. z % LARGE = 0
    BY <1>1, <2>1, <2>4
  <2> HIDE DEF z
  <2>6. LargeDown(a) = z
    BY <2>1, <2>2, <2>3
  <2> QED
    BY <1>1, <2>1, <2>3, <2>5, <2>6
<1> DEFINE up == p + LARGE - 1
<1>3. up \in Nat /\ LargeUp(p) = LargeDown(up)
  BY <1>1 DEF LargeUp
<1>4. LargeDown(up) \in Nat /\ LargeDown(up) % LARGE = 0 /\ LargeDown(up) <= up /\ up < LargeDown(up) + LARGE
  BY <1>2, <1>3
<1>5. p <= LargeDown(up) /\ LargeDown(up) < p + LARGE
  <2> DEFINE z == LargeDown(up)
  <2>1. z \in Nat /\ z <= p + LARGE - 1 /\ p + LARGE - 1 < z + LARGE
    BY <1>4
  <2> HIDE DEF z
  <2>2. p <= z /\ z < p + LARGE
    BY <1>1, <2>1
  <2> QED
    BY <2>2 DEF z
<1> QED
  BY <1>2, <1>3, <1>4, <1>5

(* Pages inside a segment in use.                                          *)
LEMMA SoundIf ==
    ASSUME NEW b \in {"256M", "1T"}, NEW v \in Vsids(b), NEW vpn \in Nat, NEW actual \in Pages, NEW ra \in Nat,
           b = "1T" => actual = "16M", vpn % Units(actual) = 0,
           v * SegPages(b) <= vpn, vpn + Units(actual) <= SegEnd(b, v)
    PROVE  Sound([b |-> b, base |-> BaseOf(b), vpn |-> vpn, actual |-> actual, ra |-> ra])
<1> DEFINE m == [b |-> b, base |-> BaseOf(b), vpn |-> vpn, actual |-> actual, ra |-> ra]
<1>1. m.b = b /\ m.base = BaseOf(b) /\ m.vpn = vpn /\ m.actual = actual /\ m.ra = ra
  OBVIOUS
<1>2. m \in Mappings
  BY DEF Mappings, BaseOf, Pages
<1>3. b = "1T" <=> BaseOf(b) = "16M"
  BY DEF BaseOf
<1> HIDE DEF m
<1>4. In(m, v)
  BY <1>1 DEF In
<1>5. Sound(m)
  BY <1>1, <1>2, <1>3, <1>4 DEF Sound
<1> QED
  BY <1>5 DEF m

(* A page of the hypervisor.                                               *)
LEMMA HvSound ==
    ASSUME NEW q \in Nat, NEW ra \in Nat, NEW o, q % LARGE = 0, q < HvEnd
    PROVE  Sound(MappingOf(Ea("hv", q), ra, "16M", o))
<1> DEFINE z == HV_VSID * TERA
           vpn == VpnOf("hv", q, o)
<1>1. LARGE \in Nat \ {0} /\ HvEnd \in Nat /\ HvEnd % LARGE = 0 /\ HV_VSID \in Nat /\ TERA \in Nat /\ Units("16M") = LARGE
  BY SizeFacts, VsidAssumption DEF Units
<1>2. q + LARGE <= HvEnd
  BY <1>1, MultipleStep
<1>3. "16M" \in Pages
  BY DEF Pages
<1>4. vpn \in Nat /\ vpn % Units("16M") = 0 /\ vpn = z + q
  <2>1. vpn = z + q
    BY DEF VpnOf
  <2> QED
    BY <1>1, <1>3, <2>1, VpnAligned
<1>5. z \in Nat
  BY <1>1
<1>6. HV_VSID \in Vsids("1T") /\ HV_VSID * SegPages("1T") = z /\ SegEnd("1T", HV_VSID) = z + HvEnd
  BY DEF Vsids, SegPages, SegEnd
<1>7. z <= vpn /\ vpn + Units("16M") <= z + HvEnd
  <2> HIDE DEF z, vpn
  <2> QED
    BY <1>1, <1>2, <1>4, <1>5
<1> HIDE DEF z, vpn
<1>8. Sound([b |-> "1T", base |-> BaseOf("1T"), vpn |-> vpn, actual |-> "16M", ra |-> ra])
  BY <1>3, <1>4, <1>6, <1>7, SoundIf
<1> QED
  BY <1>8 DEF MappingOf, Ea, SizeOf, vpn

(* A page of the guest while its translation is off.                       *)
LEMMA OffSound ==
    ASSUME NEW q \in Nat, NEW ra \in Nat, q % LARGE = 0, q < TERA
    PROVE  Sound(MappingOf(Ea("vm", q), ra, "16M", TRUE))
<1> DEFINE z == GRM_VSID * TERA
           vpn == VpnOf("vm", q, TRUE)
<1>1. LARGE \in Nat \ {0} /\ TERA % LARGE = 0 /\ GRM_VSID \in Nat /\ TERA \in Nat /\ Units("16M") = LARGE
  BY SizeFacts, VsidAssumption, HtabAssumption DEF Units
<1>2. q + LARGE <= TERA
  BY <1>1, MultipleStep
<1>3. "16M" \in Pages
  BY DEF Pages
<1>4. vpn \in Nat /\ vpn % Units("16M") = 0 /\ vpn = z + q
  <2>1. vpn = z + q
    BY DEF VpnOf
  <2>2. VpnOf("vm", q, TRUE) \in Nat /\ VpnOf("vm", q, TRUE) % Units("16M") = q % Units("16M")
    BY <1>3, VpnAligned, Zenon
  <2> QED
    BY <1>1, <2>1, <2>2
<1>5. z \in Nat /\ (GRM_VSID + 1) * TERA = z + TERA
  BY <1>1
<1>6. GRM_VSID \in Vsids("1T") /\ GRM_VSID * SegPages("1T") = z /\ SegEnd("1T", GRM_VSID) = z + TERA
  BY <1>5, VsidAssumption DEF Vsids, SegPages, SegEnd
<1>7. z <= vpn /\ vpn + Units("16M") <= z + TERA
  <2> HIDE DEF z, vpn
  <2> QED
    BY <1>1, <1>2, <1>4, <1>5
<1> HIDE DEF z, vpn
<1>8. Sound([b |-> "1T", base |-> BaseOf("1T"), vpn |-> vpn, actual |-> "16M", ra |-> ra])
  BY <1>3, <1>4, <1>6, <1>7, SoundIf
<1> QED
  BY <1>8 DEF MappingOf, Ea, SizeOf, vpn

(* ... and while it is on.                                                 *)
LEMMA OnSound ==
    ASSUME NEW q \in Nat, NEW ra \in Nat, NEW actual \in Pages, q % Units(actual) = 0, q < SEGMENTS * SEG
    PROVE  Sound(MappingOf(Ea("vm", q), ra, actual, FALSE))
<1> DEFINE d == Units(actual)
           v == q \div SEG
           lo == v * SEG
           hi == (v + 1) * SEG
<1>1. SEG \in Nat \ {0} /\ SEG % LARGE = 0 /\ SEGMENTS \in Nat \ {0}
  BY SizeFacts, HtabAssumption, GroupAssumption
<1>2. d \in Nat \ {0} /\ SEG % d = 0
  BY <1>1, SizeFacts DEF Units
<1>3. v \in Nat /\ lo <= q /\ q < hi /\ lo \in Nat /\ hi \in Nat
  <2>1. v \in Nat /\ q % SEG \in 0 .. SEG - 1 /\ q = SEG * v + (q % SEG)
    BY <1>1, DivMod
  <2> DEFINE r == q % SEG
  <2> HIDE DEF v, r
  <2>2. SEG * v = lo /\ hi = lo + SEG /\ lo \in Nat
    BY <1>1, <2>1
  <2>3. r \in 0 .. SEG - 1 /\ q = lo + r
    BY <2>1, <2>2 DEF r
  <2> HIDE DEF lo, hi
  <2> QED
    BY <1>1, <2>1, <2>2, <2>3
<1>4. v < SEGMENTS
  <2> HIDE DEF v
  <2>1. ASSUME SEGMENTS <= v PROVE SEGMENTS * SEG <= v * SEG
    BY <1>1, <1>3, <2>1
  <2>2. SEGMENTS * SEG \in Nat
    BY <1>1
  <2> QED
    BY <1>1, <1>3, <2>1, <2>2
<1> HIDE DEF v
<1>5. hi % d = 0
  <2>1. v + 1 \in Nat
    BY <1>3
  <2> QED
    BY <1>1, <1>2, <2>1, MultipleProduct
<1>6. q + d <= hi
  <2> HIDE DEF hi
  <2> QED
    BY <1>2, <1>3, <1>5, MultipleStep DEF d
<1>7. v \in Vsids("256M") /\ v * SegPages("256M") = lo /\ SegEnd("256M", v) = hi
  BY <1>1, <1>3, <1>4 DEF Vsids, SegPages, SegEnd
<1>8. Sound([b |-> "256M", base |-> BaseOf("256M"), vpn |-> q, actual |-> actual, ra |-> ra])
  <2> HIDE DEF lo, hi
  <2> QED
    BY <1>3, <1>6, <1>7, SoundIf DEF d
<1> QED
  BY <1>8 DEF MappingOf, Ea, SizeOf, VpnOf

(* A page of the interrupt vectors.                                        *)
LEMMA AilSound ==
    ASSUME NEW q \in Nat, NEW ra \in Nat, NEW o, q < SEG
    PROVE  Sound(MappingOf(Ea("ail", q), ra, "4K", o))
<1> DEFINE z == AIL_VSID * SEG
           vpn == VpnOf("ail", q, o)
<1>1. AIL_VSID \in Nat /\ SEG \in Nat /\ Units("4K") = 1
  BY SizeFacts, VsidAssumption DEF Units
<1>2. "4K" \in Pages
  BY DEF Pages
<1>3. vpn = z + q
  BY DEF VpnOf
<1>4. z \in Nat /\ (AIL_VSID + 1) * SEG = z + SEG
  BY <1>1
<1>5. AIL_VSID \in Vsids("256M") /\ AIL_VSID * SegPages("256M") = z /\ SegEnd("256M", AIL_VSID) = z + SEG
  BY <1>4 DEF Vsids, SegPages, SegEnd
<1> HIDE DEF z, vpn
<1>6. vpn \in Nat /\ z <= vpn /\ vpn + Units("4K") <= z + SEG /\ vpn % Units("4K") = 0
  BY <1>1, <1>3, <1>4
<1>7. Sound([b |-> "256M", base |-> BaseOf("256M"), vpn |-> vpn, actual |-> "4K", ra |-> ra])
  BY <1>2, <1>5, <1>6, SoundIf
<1> QED
  BY <1>7 DEF MappingOf, Ea, SizeOf, vpn

(* Mappings that overlap share a page.                                     *)
LEMMA Overlap ==
    ASSUME NEW m, NEW n, Sound(m), Sound(n), ~Clear(m, n)
    PROVE  \E x \in n.vpn .. n.vpn + Units(n.actual) - 1 : x \in Nat /\ Covers(m, x, n.b, BaseOf(n.b))
<1>1. /\ m.b \in {"256M", "1T"} /\ m.base = BaseOf(m.b) /\ m.actual \in Pages /\ m.vpn \in Nat
      /\ m.vpn % Units(m.actual) = 0 /\ Units(m.actual) \in Nat \ {0}
      /\ n.vpn \in Nat /\ Units(n.actual) \in Nat \ {0}
  BY SoundFacts
<1>2. m.b = n.b /\ n.vpn < m.vpn + Units(m.actual) /\ m.vpn < n.vpn + Units(n.actual)
  BY <1>1 DEF Clear
<1> DEFINE x == IF m.vpn <= n.vpn THEN n.vpn ELSE m.vpn
<1>3. x \in Nat /\ n.vpn <= x /\ x < n.vpn + Units(n.actual) /\ m.vpn <= x /\ x < m.vpn + Units(m.actual)
  BY <1>1, <1>2
<1> HIDE DEF x
<1>4. Down(m.actual, x) = m.vpn
  BY <1>1, <1>3, DownFacts
<1>5. Covers(m, x, n.b, BaseOf(n.b))
  BY <1>1, <1>2, <1>4 DEF Covers, Down
<1>6. x \in n.vpn .. n.vpn + Units(n.actual) - 1
  BY <1>1, <1>3
<1> QED
  BY <1>3, <1>5, <1>6

(* What a walk of every page finds nothing for overlaps no mapping.        *)
LEMMA Unmapped ==
    ASSUME htab \in Tables, TableOK(htab, wanted, call, tlb), call.op = "none", NEW n, Sound(n),
           \A x \in n.vpn .. n.vpn + Units(n.actual) - 1 : Walk(x, n.b, BaseOf(n.b)) = {}
    PROVE  \A m \in wanted : Clear(m, n)
<1> SUFFICES ASSUME NEW m \in wanted, ~Clear(m, n) PROVE FALSE
  OBVIOUS
<1>1. Sound(m) /\ WantedOK(wanted) /\ AllWanted(htab, wanted, call)
  BY DEF TableOK, WantedOK
<1>2. PICK x \in n.vpn .. n.vpn + Units(n.actual) - 1 : x \in Nat /\ Covers(m, x, n.b, BaseOf(n.b))
  BY <1>1, Overlap
<1>3. n.b \in {"256M", "1T"}
  BY SoundFacts
<1>4. m \in Walk(x, n.b, BaseOf(n.b))
  BY <1>1, <1>2, <1>3, WalkComplete DEF Tables
<1> QED
  BY <1>2, <1>4

(* A script that has come to its end.                                      *)
LEMMA EmptyScript ==
    ASSUME NEW o, NEW w
    PROVE  ScriptOK(<<>>, o, w)
<1>1. Len(<<>>) = 0 /\ 1 .. Len(<<>>) = {} /\ <<>> \in Seq(Range(<<>>))
  OBVIOUS
<1> QED
  BY <1>1 DEF ScriptOK

(* A fault of the hypervisor maps a page that was not mapped.              *)
LEMMA HvFaultInv ==
    ASSUME IInv, NEW p \in 0 .. HvEnd - 1, HvFault(p)
    PROVE  IInv'
<1>1. htab \in Tables /\ TableOK(htab, wanted, call, tlb) /\ ScriptOK(script, off, wanted)
      /\ IsFiniteSet(tlb) /\ Cardinality(tlb) <= TLB_SIZE /\ off \in BOOLEAN /\ halt = "no"
  BY DEF IInv, Types, Tables
<1> DEFINE q == LargeDown(p)
           ea == Ea("hv", q)
           n == MappingOf(ea, q, "16M", off)
<1>2. /\ script = <<>> /\ call.op = "none" /\ WalkEa(Ea("hv", p)) = {} /\ mmu_map(ea, q, "16M")
      /\ htab' = htab /\ tlb' = tlb /\ off' = off /\ script' = script
  BY DEF HvFault, Idle
<1>3. p \in Nat /\ p < HvEnd /\ HvEnd \in Nat /\ LARGE \in Nat \ {0}
  BY VsidAssumption, SizeFacts
<1>4. q \in Nat /\ q % LARGE = 0 /\ q <= p /\ p < q + LARGE
  BY <1>3, LargeFacts
<1> HIDE DEF q
<1>5. ea.page = q /\ ea.space = "hv"
  BY DEF Ea
<1>6. Sound(n)
  BY <1>3, <1>4, HvSound
<1>7. /\ n.b = "1T" /\ n.actual = "16M" /\ n.vpn = VpnOf("hv", q, off) /\ BaseOf(n.b) = "16M"
      /\ Units(n.actual) = LARGE /\ "16M" \in Pages
  BY <1>5 DEF MappingOf, SizeOf, BaseOf, Units, Pages
<1>8. n.vpn \in Nat /\ n.vpn % Units("16M") = 0
  BY <1>6, <1>7, SoundFacts
<1> HIDE DEF ea
<1> DEFINE y == VpnOf("hv", p, off)
<1>9. y \in Nat /\ n.vpn <= y /\ y < n.vpn + Units("16M")
  <2> DEFINE z == HV_VSID * TERA
  <2>1. z \in Nat
    BY VsidAssumption, SizeFacts
  <2>2. y = z + p /\ n.vpn = z + q
    BY <1>7 DEF VpnOf
  <2> HIDE DEF z, y
  <2> QED
    BY <1>3, <1>4, <1>7, <2>1, <2>2
<1>10. Walk(y, "1T", "16M") = {}
  <2>1. Ea("hv", p).page = p /\ Ea("hv", p).space = "hv"
    BY DEF Ea
  <2>2. ea_2_seg_size(Ea("hv", p)) = "1T" /\ ea_2_base_size(Ea("hv", p)) = "16M" /\ ea_2_vpn(Ea("hv", p)) = y
    BY <1>3, <2>1, EaFacts DEF SizeOf, BaseOf
  <2> QED
    BY <1>2, <2>2 DEF WalkEa
<1> HIDE DEF y, n
<1>11. ASSUME NEW x \in n.vpn .. n.vpn + Units(n.actual) - 1 PROVE Walk(x, n.b, BaseOf(n.b)) = {}
  <2> SUFFICES ASSUME NEW e \in Walk(x, "1T", BaseOf("1T")) PROVE FALSE
    BY <1>7
  <2>1. x \in Nat /\ n.vpn <= x /\ x < n.vpn + Units("16M")
    BY <1>3, <1>7, <1>8
  <2>2. e \in wanted /\ Covers(e, x, "1T", BaseOf("1T"))
    BY <1>1, <2>1, WalkSound DEF TableOK, Tables
  <2>3. e.base = "16M" /\ e.actual = "16M"
    <3>1. Sound(e)
      BY <1>1, <2>2 DEF TableOK, WantedOK
    <3>2. e.base = "16M"
      BY <1>7, <2>2 DEF Covers
    <3> QED
      BY <3>1, <3>2, SoundFacts
  <2>4. Down("16M", x) = n.vpn /\ Down("16M", y) = n.vpn
    BY <1>7, <1>8, <1>9, <2>1, DownFacts
  <2>5. Covers(e, y, "1T", BaseOf("1T"))
    BY <2>2, <2>3, <2>4 DEF Covers, Down
  <2>6. e \in Walk(y, "1T", BaseOf("1T"))
    BY <1>1, <1>2, <1>9, <2>2, <2>5, WalkComplete DEF TableOK, Tables
  <2> QED
    BY <1>7, <1>10, <2>6
<1>12. \A m \in wanted : Clear(m, n)
  BY <1>1, <1>2, <1>6, <1>11, Unmapped
<1>13. ea.page % Units("16M") = 0 /\ q % Units("16M") = 0 /\ ea.page \in Nat
  BY <1>4, <1>5, <1>7
<1>14. TableOK(htab, wanted', call', tlb) /\ halt' = halt
  BY <1>1, <1>2, <1>6, <1>12, <1>13, MapStarts DEF n
<1>15. ScriptOK(script', off', wanted')
  BY <1>2, EmptyScript
<1> QED
  BY <1>1, <1>2, <1>14, <1>15 DEF IInv, Types, Tables

(* A large page in a segment of small ones.                                *)
LEMMA MapMixedInv ==
    ASSUME IInv, NEW x \in MixedMaps, MapMixed(x[1], x[2])
    PROVE  IInv'
<1>1. htab \in Tables /\ TableOK(htab, wanted, call, tlb) /\ ScriptOK(script, off, wanted)
      /\ IsFiniteSet(tlb) /\ Cardinality(tlb) <= TLB_SIZE /\ off \in BOOLEAN /\ halt = "no"
  BY DEF IInv, Types, Tables
<1> DEFINE v == x[1]
           ra == RamStart + x[2]
           ea == Ea("vm", v)
           n == MappingOf(ea, ra, "16M", off)
<1>2. /\ script = <<>> /\ call.op = "none" /\ ~off
      /\ (\A p \in v .. v + LARGE - 1 : WalkEa(Ea("vm", p)) = {})
      /\ mmu_map(ea, ra, "16M")
      /\ htab' = htab /\ tlb' = tlb /\ off' = off /\ script' = script
  BY DEF MapMixed, Idle
<1>3. off = FALSE
  BY <1>1, <1>2
<1>4. LARGE \in Nat \ {0} /\ Units("16M") = LARGE /\ "16M" \in Pages
  BY SizeFacts DEF Units, Pages
<1>5. v \in Nat /\ v < SEGMENTS * SEG /\ v % LARGE = 0 /\ x[2] \in Nat /\ x[2] % LARGE = 0
  <2>1. x \in VmPages \X Nat /\ x[1] % LARGE = 0 /\ x[2] % LARGE = 0
    BY CallerAssumption
  <2>2. SEGMENTS * SEG \in Nat
    BY SizeFacts, GroupAssumption
  <2> QED
    BY <2>1, <2>2 DEF VmPages
<1>6. ra \in Nat /\ ra % LARGE = 0
  <2> DEFINE r == x[2]
  <2>1. r \in Nat /\ r % LARGE = 0 /\ RamStart \in Nat /\ RamStart % LARGE = 0
    BY <1>5, PlaceAssumption
  <2> HIDE DEF r
  <2>2. (RamStart + r) % LARGE = r % LARGE
    BY <1>4, <2>1, MultipleSum
  <2>3. RamStart + r \in Nat /\ (RamStart + r) % LARGE = 0
    BY <2>1, <2>2
  <2> QED
    BY <2>3 DEF r
<1>7. ea.page = v /\ ea.space = "vm"
  BY DEF Ea
<1> HIDE DEF v, ra
<1>8. n = MappingOf(ea, ra, "16M", FALSE)
  BY <1>3
<1>9. Sound(n)
  BY <1>4, <1>5, <1>6, <1>8, OnSound
<1>10. n.b = "256M" /\ n.vpn = v /\ n.actual = "16M"
  BY <1>7, <1>8 DEF MappingOf, SizeOf, VpnOf
<1> HIDE DEF ea, n
<1>11. ASSUME NEW p \in n.vpn .. n.vpn + Units(n.actual) - 1 PROVE Walk(p, n.b, BaseOf(n.b)) = {}
  <2>1. p \in v .. v + LARGE - 1 /\ p \in Nat
    BY <1>4, <1>5, <1>10
  <2> DEFINE a == Ea("vm", p)
  <2>2. a.page = p /\ a.space = "vm" /\ WalkEa(a) = {}
    BY <1>2, <2>1 DEF Ea
  <2> HIDE DEF a
  <2>3. ea_2_seg_size(a) = "256M" /\ ea_2_base_size(a) = "4K" /\ ea_2_vpn(a) = p
    BY <1>3, <2>2 DEF ea_2_seg_size, ea_2_base_size, ea_2_vpn
  <2>4. BaseOf(n.b) = "4K"
    BY <1>10 DEF BaseOf
  <2> QED
    BY <1>10, <2>2, <2>3, <2>4 DEF WalkEa
<1>12. \A m \in wanted : Clear(m, n)
  BY <1>1, <1>2, <1>9, <1>11, Unmapped
<1>13. ea.page % Units("16M") = 0 /\ ra % Units("16M") = 0 /\ ea.page \in Nat
  BY <1>4, <1>5, <1>6, <1>7
<1>14. TableOK(htab, wanted', call', tlb) /\ halt' = halt
  BY <1>1, <1>2, <1>9, <1>12, <1>13, MapStarts DEF n
<1>15. ScriptOK(script', off', wanted')
  BY <1>2, EmptyScript
<1> QED
  BY <1>1, <1>2, <1>14, <1>15 DEF IInv, Types, Tables

(* guest_update_msr touches neither the table nor a mapping.               *)
LEMMA UpdateMsrInv ==
    ASSUME IInv, guest_update_msr
    PROVE  IInv'
<1>1. /\ script = <<>> /\ off' = ~off
      /\ htab' = htab /\ tlb' = tlb /\ script' = script /\ call' = call /\ wanted' = wanted /\ halt' = halt
  BY DEF guest_update_msr, Idle
<1>2. ScriptOK(script', off', wanted')
  BY <1>1, EmptyScript
<1> QED
  BY <1>1, <1>2 DEF IInv, Types

-----------------------------------------------------------------------------
(***************************************************************************)
(* Scripts.                                                                *)
(***************************************************************************)
(* What is left of a script after its first item.                          *)
LEMMA ScriptTail ==
    ASSUME NEW s, NEW o \in BOOLEAN, NEW w, ScriptOK(s, o, w), s # <<>>
    PROVE  /\ s \in Seq(Range(s)) /\ Len(s) \in Nat /\ Len(s) >= 1 /\ Head(s) = s[1]
           /\ Then(s, 1, o) = o
           /\ Tail(s) \in Seq(Range(Tail(s))) /\ Len(Tail(s)) = Len(s) - 1
           /\ \A i \in 1 .. Len(s) - 1 :
                Tail(s)[i] = s[i + 1] /\ Then(s, i + 1, o) = Then(Tail(s), i, o /\ s[1].do # "mmu_on")
<1>1. s \in Seq(Range(s))
  BY DEF ScriptOK
<1> DEFINE S == Range(s)
           t == Tail(s)
<1> HIDE DEF S
<1>2. s \in Seq(S)
  BY <1>1 DEF S
<1>3. /\ Len(s) \in Nat /\ Len(s) >= 1 /\ Head(s) = s[1] /\ t \in Seq(S) /\ Len(t) = Len(s) - 1
      /\ \A i \in 1 .. Len(s) - 1 : t[i] = s[i + 1]
  BY <1>2
<1> HIDE DEF t
<1>4. t \in Seq(Range(t))
  BY <1>3 DEF Range
<1>5. Then(s, 1, o) = o
  BY DEF Then
<1>6. ASSUME NEW i \in 1 .. Len(s) - 1
      PROVE  Then(s, i + 1, o) = Then(t, i, o /\ s[1].do # "mmu_on")
  <2>1. ASSUME Then(s, i + 1, o) PROVE Then(t, i, o /\ s[1].do # "mmu_on")
    <3>1. o /\ \A j \in 1 .. i : s[j].do # "mmu_on"
      BY <2>1, <1>3 DEF Then
    <3>2. s[1].do # "mmu_on"
      BY <1>3, <3>1
    <3>3. ASSUME NEW j \in 1 .. i - 1 PROVE t[j].do # "mmu_on"
      <4>1. j + 1 \in 1 .. i /\ j \in 1 .. Len(s) - 1
        BY <1>3
      <4>2. s[j + 1].do # "mmu_on"
        BY <3>1, <4>1
      <4> QED
        BY <1>3, <4>1, <4>2
    <3> QED
      BY <3>1, <3>2, <3>3 DEF Then
  <2>2. ASSUME Then(t, i, o /\ s[1].do # "mmu_on") PROVE Then(s, i + 1, o)
    <3>1. o /\ s[1].do # "mmu_on" /\ \A j \in 1 .. i - 1 : t[j].do # "mmu_on"
      BY <2>2 DEF Then
    <3>2. ASSUME NEW j \in 1 .. (i + 1) - 1 PROVE s[j].do # "mmu_on"
      <4>1. CASE j = 1
        BY <3>1, <4>1
      <4>2. CASE j # 1
        <5> DEFINE k == j - 1
        <5>1. k \in 1 .. i - 1 /\ k \in 1 .. Len(s) - 1 /\ k + 1 = j
          BY <1>3, <4>2
        <5> HIDE DEF k
        <5>2. t[k].do # "mmu_on" /\ t[k] = s[k + 1]
          BY <1>3, <3>1, <5>1
        <5> QED
          BY <5>1, <5>2
      <4> QED
        BY <4>1, <4>2
    <3> QED
      BY <3>1, <3>2 DEF Then
  <2> QED
    BY <2>1, <2>2 DEF Then
<1> QED
  BY <1>1, <1>3, <1>4, <1>5, <1>6 DEF t

(* The next call of a script asks for pages that nothing maps, and leaves  *)
(* those of the calls after it alone.                                      *)
LEMMA BeginInv ==
    ASSUME IInv, Begin
    PROVE  IInv'
<1>1. htab \in Tables /\ TableOK(htab, wanted, call, tlb) /\ ScriptOK(script, off, wanted)
      /\ IsFiniteSet(tlb) /\ Cardinality(tlb) <= TLB_SIZE /\ off \in BOOLEAN /\ halt = "no"
  BY DEF IInv, Types, Tables
<1> DEFINE x == Head(script)
           t == Tail(script)
           L == Len(script)
<1>2. /\ script # <<>> /\ call.op = "none" /\ script' = t /\ htab' = htab /\ tlb' = tlb
      /\ IF x.do = "mmu_on" THEN off' = FALSE /\ call' = call /\ wanted' = wanted /\ halt' = halt
         ELSE mmu_map(x.ea, x.ra, x.actual) /\ off' = off
  BY DEF Begin
<1>3. /\ L \in Nat /\ L >= 1 /\ x = script[1] /\ Then(script, 1, off) = off
      /\ t \in Seq(Range(t)) /\ Len(t) = L - 1
      /\ \A i \in 1 .. L - 1 :
            t[i] = script[i + 1] /\ Then(script, i + 1, off) = Then(t, i, off /\ x.do # "mmu_on")
  BY <1>1, <1>2, ScriptTail
<1> HIDE DEF x, t
<1>4. \A i \in 1 .. L : script[i].do # "mmu_on" =>
        /\ ItemOK(script[i], Then(script, i, off))
        /\ \A m \in wanted : Clear(m, Target(script[i], Then(script, i, off)))
        /\ \A j \in 1 .. L : i < j /\ script[j].do # "mmu_on" =>
              Clear(Target(script[i], Then(script, i, off)), Target(script[j], Then(script, j, off)))
  BY <1>1 DEF ScriptOK
<1> HIDE DEF L
<1> DEFINE d == off /\ x.do # "mmu_on"
<1>5. ASSUME NEW w, \A i \in 1 .. L - 1 : t[i].do # "mmu_on" => \A m \in w : Clear(m, Target(t[i], Then(t, i, d)))
      PROVE  ScriptOK(t, d, w)
  <2> HIDE DEF d
  <2> SUFFICES ASSUME NEW i \in 1 .. L - 1, t[i].do # "mmu_on"
               PROVE  /\ ItemOK(t[i], Then(t, i, d))
                      /\ \A m \in w : Clear(m, Target(t[i], Then(t, i, d)))
                      /\ \A j \in 1 .. L - 1 : i < j /\ t[j].do # "mmu_on" =>
                            Clear(Target(t[i], Then(t, i, d)), Target(t[j], Then(t, j, d)))
    BY <1>3 DEF ScriptOK
  <2>1. i + 1 \in 1 .. L /\ t[i] = script[i + 1] /\ Then(script, i + 1, off) = Then(t, i, d)
    BY <1>3 DEF d
  <2>2. ItemOK(t[i], Then(t, i, d))
    BY <1>4, <2>1
  <2>3. ASSUME NEW j \in 1 .. L - 1, i < j, t[j].do # "mmu_on"
        PROVE  Clear(Target(t[i], Then(t, i, d)), Target(t[j], Then(t, j, d)))
    <3>1. j + 1 \in 1 .. L /\ i + 1 < j + 1 /\ t[j] = script[j + 1] /\ Then(script, j + 1, off) = Then(t, j, d)
      BY <1>3, <2>3 DEF d
    <3> QED
      BY <1>4, <2>1, <2>3, <3>1
  <2> QED
    BY <1>5, <2>2, <2>3
<1>6. CASE x.do = "mmu_on"
  <2>1. off' = FALSE /\ call' = call /\ wanted' = wanted /\ halt' = halt /\ d = FALSE
    BY <1>2, <1>6
  <2>2. ASSUME NEW i \in 1 .. L - 1, t[i].do # "mmu_on", NEW m \in wanted
        PROVE  Clear(m, Target(t[i], Then(t, i, d)))
    <3>1. i + 1 \in 1 .. L /\ t[i] = script[i + 1] /\ Then(script, i + 1, off) = Then(t, i, d)
      BY <1>3
    <3> HIDE DEF d
    <3> QED
      BY <1>4, <2>2, <3>1
  <2> HIDE DEF d
  <2>3. ScriptOK(t, d, wanted)
    BY <1>5, <2>2
  <2>4. ScriptOK(script', off', wanted')
    BY <1>2, <2>1, <2>3
  <2> QED
    BY <1>1, <1>2, <2>1, <2>4 DEF IInv, Types, Tables
<1>7. CASE x.do # "mmu_on"
  <2>1. mmu_map(x.ea, x.ra, x.actual) /\ off' = off /\ d = off
    BY <1>1, <1>2, <1>7
  <2> DEFINE n == Target(x, off)
  <2>2. 1 \in 1 .. L
    BY <1>3
  <2>3. ItemOK(x, off) /\ \A m \in wanted : Clear(m, n)
    BY <1>3, <1>4, <1>7, <2>2
  <2>4. /\ x.ea.page \in Nat /\ x.ea.page % Units(x.actual) = 0 /\ x.ra % Units(x.actual) = 0 /\ Sound(n)
        /\ n = MappingOf(x.ea, x.ra, x.actual, off)
    BY <2>3 DEF ItemOK, Target
  <2> HIDE DEF n
  <2>5. TableOK(htab, wanted', call', tlb) /\ wanted' = wanted \cup {n} /\ halt' = halt
    BY <1>1, <1>2, <2>1, <2>3, <2>4, MapStarts
  <2>6. ASSUME NEW i \in 1 .. L - 1, t[i].do # "mmu_on", NEW m \in wanted'
        PROVE  Clear(m, Target(t[i], Then(t, i, d)))
    <3>1. i + 1 \in 1 .. L /\ 1 < i + 1 /\ t[i] = script[i + 1] /\ Then(script, i + 1, off) = Then(t, i, d)
      BY <1>3
    <3> HIDE DEF d
    <3>2. CASE m \in wanted
      BY <1>4, <2>6, <3>1, <3>2
    <3>3. CASE m = n
      BY <1>3, <1>4, <1>7, <2>2, <2>6, <3>1, <3>3 DEF n
    <3> QED
      BY <2>5, <2>6, <3>2, <3>3
  <2> HIDE DEF d
  <2>7. ScriptOK(t, d, wanted')
    BY <1>5, <2>6
  <2>8. ScriptOK(script', off', wanted')
    BY <1>2, <2>1, <2>7
  <2> QED
    BY <1>1, <1>2, <2>1, <2>5, <2>8 DEF IInv, Types, Tables
<1> QED
  BY <1>6, <1>7

(* A stretch of one segment size, and the mappings inside one of several.  *)
Stretch(b, lo, hi) == [b |-> b, lo |-> lo, hi |-> hi]
Inside(m, R) == \E r \in R : r.b = m.b /\ r.lo <= m.vpn /\ m.vpn + Units(m.actual) <= r.hi
Stretches(R) == \A r \in R : r.lo \in Nat /\ r.hi \in Nat
Separate(R, Q) == \A r \in R, q \in Q : r.b = q.b => r.hi <= q.lo \/ q.hi <= r.lo

(* The calls of s are good, do not overlap, and stay inside R.             *)
Fits(s, o, R) ==
    /\ s \in Seq(Range(s)) /\ Stretches(R)
    /\ \A i \in 1 .. Len(s) : s[i].do # "mmu_on" =>
        /\ ItemOK(s[i], Then(s, i, o)) /\ Inside(Target(s[i], Then(s, i, o)), R)
        /\ \A j \in 1 .. Len(s) : i < j /\ s[j].do # "mmu_on" =>
              Clear(Target(s[i], Then(s, i, o)), Target(s[j], Then(s, j, o)))

(* guest_is_mmu_off() after s.                                             *)
After(s, o) == Then(s, Len(s) + 1, o)

(* Mappings in stretches that are apart.                                   *)
LEMMA SeparateClear ==
    ASSUME NEW m, NEW n, NEW R, NEW Q, Sound(m), Sound(n), Inside(m, R), Inside(n, Q), Separate(R, Q),
           Stretches(R), Stretches(Q)
    PROVE  Clear(m, n)
<1>1. PICK r \in R : r.b = m.b /\ r.lo <= m.vpn /\ m.vpn + Units(m.actual) <= r.hi
  BY DEF Inside
<1>2. PICK q \in Q : q.b = n.b /\ q.lo <= n.vpn /\ n.vpn + Units(n.actual) <= q.hi
  BY DEF Inside
<1>3. r.b = q.b => r.hi <= q.lo \/ q.hi <= r.lo
  BY DEF Separate
<1>4. r.lo \in Nat /\ r.hi \in Nat /\ q.lo \in Nat /\ q.hi \in Nat
  BY DEF Stretches
<1>5. m.vpn \in Nat /\ n.vpn \in Nat /\ Units(m.actual) \in Nat /\ Units(n.actual) \in Nat
  BY SoundFacts
<1> QED
  BY <1>1, <1>2, <1>3, <1>4, <1>5 DEF Clear

(* A sequence is one of its own elements.                                  *)
LEMMA SeqRange ==
    ASSUME NEW S, NEW z \in Seq(S)
    PROVE  z \in Seq(Range(z))
BY DEF Range

(* One script after the other.                                             *)
LEMMA FitsConcat ==
    ASSUME NEW s, NEW t, NEW o \in BOOLEAN, NEW R, NEW Q,
           Fits(s, o, R), Fits(t, After(s, o), Q), Separate(R, Q)
    PROVE  Fits(s \o t, o, R \cup Q) /\ After(s \o t, o) = After(t, After(s, o))
<1> DEFINE S == Range(s) \cup Range(t)
           z == s \o t
           a == Len(s)
           c == Len(t)
           p == After(s, o)
<1>1. s \in Seq(S) /\ t \in Seq(S)
  <2>1. s \in Seq(Range(s)) /\ t \in Seq(Range(t))
    BY DEF Fits
  <2> QED
    BY <2>1
<1> HIDE DEF S
<1>2. /\ a \in Nat /\ c \in Nat /\ z \in Seq(S) /\ Len(z) = a + c
      /\ \A j \in 1 .. a + c : z[j] = IF j <= a THEN s[j] ELSE t[j - a]
  BY <1>1, ConcatFacts
<1>3. z \in Seq(Range(z))
  <2> HIDE DEF z
  <2> QED
    BY <1>2, SeqRange
<1> HIDE DEF z, a, c
<1>4. ASSUME NEW i \in 1 .. a + 1 PROVE Then(z, i, o) = Then(s, i, o)
  <2>1. \A j \in 1 .. i - 1 : z[j] = s[j]
    BY <1>2
  <2> QED
    BY <2>1 DEF Then
<1>5. p = (o /\ \A j \in 1 .. a : s[j].do # "mmu_on")
  BY <1>2 DEF After, Then, a
<1> HIDE DEF p
<1>6. ASSUME NEW i \in 1 .. c + 1 PROVE Then(z, a + i, o) = Then(t, i, p)
  <2>1. ASSUME Then(z, a + i, o) PROVE Then(t, i, p)
    <3>1. o /\ \A j \in 1 .. a + i - 1 : z[j].do # "mmu_on"
      BY <1>2, <2>1 DEF Then
    <3>2. ASSUME NEW j \in 1 .. a PROVE s[j].do # "mmu_on"
      <4>1. j \in 1 .. a + i - 1 /\ z[j] = s[j]
        BY <1>2
      <4> QED
        BY <3>1, <4>1
    <3>3. ASSUME NEW j \in 1 .. i - 1 PROVE t[j].do # "mmu_on"
      <4> DEFINE k == a + j
      <4>1. k \in 1 .. a + i - 1 /\ k \in 1 .. a + c /\ ~(k <= a) /\ k - a = j
        BY <1>2
      <4> HIDE DEF k
      <4>2. z[k] = t[j]
        BY <1>2, <4>1
      <4> QED
        BY <3>1, <4>1, <4>2
    <3> QED
      BY <1>5, <3>1, <3>2, <3>3 DEF Then
  <2>2. ASSUME Then(t, i, p) PROVE Then(z, a + i, o)
    <3>1. p /\ o /\ (\A j \in 1 .. a : s[j].do # "mmu_on") /\ (\A j \in 1 .. i - 1 : t[j].do # "mmu_on")
      BY <1>5, <2>2 DEF Then
    <3>2. ASSUME NEW j \in 1 .. (a + i) - 1 PROVE z[j].do # "mmu_on"
      <4>1. CASE j <= a
        <5>1. j \in 1 .. a /\ z[j] = s[j]
          BY <1>2, <4>1
        <5> QED
          BY <3>1, <5>1
      <4>2. CASE ~(j <= a)
        <5>1. j - a \in 1 .. i - 1 /\ z[j] = t[j - a]
          BY <1>2, <4>2
        <5> QED
          BY <3>1, <5>1
      <4> QED
        BY <4>1, <4>2
    <3> QED
      BY <1>2, <3>1, <3>2 DEF Then
  <2> QED
    BY <2>1, <2>2 DEF Then
<1>7. After(z, o) = After(t, p)
  <2>1. c + 1 \in 1 .. c + 1 /\ a + (c + 1) = (a + c) + 1
    BY <1>2
  <2> QED
    BY <1>2, <1>6, <2>1 DEF After, c
<1> DEFINE T(i) == Target(z[i], Then(z, i, o))
<1>8. ASSUME NEW i \in 1 .. a, z[i].do # "mmu_on"
      PROVE  /\ z[i] = s[i] /\ Then(z, i, o) = Then(s, i, o)
             /\ ItemOK(z[i], Then(z, i, o)) /\ Inside(T(i), R) /\ Sound(T(i))
             /\ \A j \in 1 .. a : i < j /\ z[j].do # "mmu_on" => Clear(T(i), T(j))
  <2>1. \A j \in 1 .. a : z[j] = s[j] /\ Then(z, j, o) = Then(s, j, o)
    BY <1>2, <1>4
  <2>2. s[i].do # "mmu_on"
    BY <1>8, <2>1
  <2>3. /\ ItemOK(s[i], Then(s, i, o)) /\ Inside(Target(s[i], Then(s, i, o)), R)
        /\ \A j \in 1 .. a : i < j /\ s[j].do # "mmu_on" =>
              Clear(Target(s[i], Then(s, i, o)), Target(s[j], Then(s, j, o)))
    BY <2>2 DEF Fits, a
  <2>4. Sound(Target(s[i], Then(s, i, o)))
    BY <2>3 DEF ItemOK
  <2> QED
    BY <2>1, <2>3, <2>4
<1>9. ASSUME NEW i \in 1 .. c, z[a + i].do # "mmu_on"
      PROVE  /\ ItemOK(z[a + i], Then(z, a + i, o)) /\ Inside(T(a + i), Q) /\ Sound(T(a + i))
             /\ \A j \in 1 .. c : i < j /\ z[a + j].do # "mmu_on" => Clear(T(a + i), T(a + j))
  <2>1. ASSUME NEW j \in 1 .. c PROVE z[a + j] = t[j] /\ Then(z, a + j, o) = Then(t, j, p)
    <3> DEFINE k == a + j
    <3>1. k \in 1 .. a + c /\ ~(k <= a) /\ k - a = j /\ j \in 1 .. c + 1
      BY <1>2
    <3> HIDE DEF k
    <3>2. z[k] = t[j]
      BY <1>2, <3>1
    <3> QED
      BY <1>6, <3>1, <3>2 DEF k
  <2>2. t[i].do # "mmu_on"
    BY <1>9, <2>1
  <2>3. /\ ItemOK(t[i], Then(t, i, p)) /\ Inside(Target(t[i], Then(t, i, p)), Q)
        /\ \A j \in 1 .. c : i < j /\ t[j].do # "mmu_on" =>
              Clear(Target(t[i], Then(t, i, p)), Target(t[j], Then(t, j, p)))
    BY <2>2 DEF Fits, c, p
  <2>4. Sound(Target(t[i], Then(t, i, p)))
    BY <2>3 DEF ItemOK
  <2>5. ASSUME NEW j \in 1 .. c, i < j, z[a + j].do # "mmu_on" PROVE Clear(T(a + i), T(a + j))
    BY <2>1, <2>3, <2>5
  <2> QED
    BY <2>1, <2>3, <2>4, <2>5
<1>10. Stretches(R) /\ Stretches(Q) /\ Stretches(R \cup Q)
  BY DEF Fits, Stretches
<1>11. \A m : Inside(m, R) \/ Inside(m, Q) => Inside(m, R \cup Q)
  BY DEF Inside
<1> SUFFICES ASSUME NEW i \in 1 .. Len(z), z[i].do # "mmu_on"
             PROVE  /\ ItemOK(z[i], Then(z, i, o)) /\ Inside(T(i), R \cup Q)
                    /\ \A j \in 1 .. Len(z) : i < j /\ z[j].do # "mmu_on" => Clear(T(i), T(j))
  BY <1>3, <1>7, <1>10 DEF Fits, z, p
<1>12. CASE i <= a
  <2>1. i \in 1 .. a
    BY <1>2, <1>12
  <2>2. /\ ItemOK(z[i], Then(z, i, o)) /\ Inside(T(i), R) /\ Sound(T(i))
        /\ \A j \in 1 .. a : i < j /\ z[j].do # "mmu_on" => Clear(T(i), T(j))
    BY <1>8, <2>1
  <2> HIDE DEF T
  <2>3. ASSUME NEW j \in 1 .. Len(z), i < j, z[j].do # "mmu_on" PROVE Clear(T(i), T(j))
    <3>1. CASE j <= a
      <4>1. j \in 1 .. a
        BY <1>2, <3>1
      <4> QED
        BY <2>2, <2>3, <4>1
    <3>2. CASE ~(j <= a)
      <4> DEFINE k == j - a
      <4>1. k \in 1 .. c /\ a + k = j
        BY <1>2, <3>2
      <4> HIDE DEF k
      <4>2. Inside(T(j), Q) /\ Sound(T(j))
        BY <1>9, <2>3, <4>1
      <4> QED
        BY <1>10, <2>2, <4>2, SeparateClear
    <3> QED
      BY <3>1, <3>2
  <2> QED
    BY <1>11, <2>2, <2>3
<1>13. CASE ~(i <= a)
  <2> DEFINE k == i - a
  <2>1. k \in 1 .. c /\ a + k = i
    BY <1>2, <1>13
  <2> HIDE DEF k
  <2>2. /\ ItemOK(z[i], Then(z, i, o)) /\ Inside(T(i), Q)
        /\ \A j \in 1 .. c : k < j /\ z[a + j].do # "mmu_on" => Clear(T(i), T(a + j))
    BY <1>9, <2>1
  <2> HIDE DEF T
  <2>3. ASSUME NEW j \in 1 .. Len(z), i < j, z[j].do # "mmu_on" PROVE Clear(T(i), T(j))
    <3> DEFINE h == j - a
    <3>1. h \in 1 .. c /\ a + h = j /\ k < h
      BY <1>2, <1>13, <2>1, <2>3
    <3> HIDE DEF h
    <3> QED
      BY <2>2, <2>3, <3>1
  <2> QED
    BY <1>11, <2>2, <2>3
<1> QED
  BY <1>12, <1>13

(* Where a space begins.                                                   *)
LEMMA VpnSum ==
    ASSUME NEW space, NEW o \in BOOLEAN, NEW q \in Nat
    PROVE  VpnOf(space, 0, o) \in Nat /\ VpnOf(space, q, o) = VpnOf(space, 0, o) + q
<1> DEFINE k == VpnOf(space, 0, o)
<1>1. AIL_VSID * SEG \in Nat /\ HV_VSID * TERA \in Nat /\ GRM_VSID * TERA \in Nat
  BY VsidAssumption, SizeFacts
<1>2. k \in Nat
  BY <1>1 DEF VpnOf
<1>3. VpnOf(space, q, o) = k + q
  BY <1>1 DEF VpnOf
<1> QED
  BY <1>2, <1>3

(* Multiples of d below N * d.                                             *)
LEMMA RangeSteps ==
    ASSUME NEW d \in Nat \ {0}, NEW N \in Nat, NEW i \in 1 .. N
    PROVE  /\ (i - 1) * d \in Nat /\ ((i - 1) * d) % d = 0 /\ (i - 1) * d + d <= N * d
           /\ \A j \in 1 .. N : i < j => (i - 1) * d + d <= (j - 1) * d
<1>1. ASSUME NEW a \in Nat, NEW b \in Nat, a <= b PROVE a * d <= b * d /\ a * d \in Nat /\ b * d \in Nat
  BY <1>1
<1>2. (i - 1) * d + d = i * d /\ (i - 1) * d \in Nat
  OBVIOUS
<1>3. i * d <= N * d
  BY <1>1
<1>4. \A j \in 1 .. N : i < j => i * d <= (j - 1) * d
  <2> SUFFICES ASSUME NEW j \in 1 .. N, i < j PROVE i * d <= (j - 1) * d
    OBVIOUS
  <2>1. i <= j - 1 /\ j - 1 \in Nat /\ i \in Nat
    OBVIOUS
  <2> QED
    BY <1>1, <2>1
<1>5. ((i - 1) * d) % d = 0
  <2> DEFINE k == i - 1
  <2>1. k \in Nat /\ d % d = 0
    OBVIOUS
  <2> HIDE DEF k
  <2>2. (k * d) % d = 0
    BY <2>1, MultipleProduct
  <2> QED
    BY <2>2 DEF k
<1> QED
  BY <1>2, <1>3, <1>4, <1>5

(* mmu_map_range makes one call for each page from start to end.           *)
LEMMA RangeFits ==
    ASSUME NEW space \in {"vm", "hv", "ail"}, NEW start \in Nat, NEW end \in Nat, NEW ra \in Nat,
           NEW actual \in Pages, NEW o \in BOOLEAN, NEW s, s = mmu_map_range(space, start, end, ra, actual),
           start <= end, start % Units(actual) = 0, ra % Units(actual) = 0,
           \A q, r \in Nat : start <= q /\ q < end /\ q % Units(actual) = 0 =>
             Sound(MappingOf(Ea(space, q), r, actual, o))
    PROVE  /\ Fits(s, o, {Stretch(SizeOf(space, o), VpnOf(space, start, o), VpnOf(space, end, o))})
           /\ After(s, o) = o
<1> DEFINE d == Units(actual)
           N == (end - start) \div d
           k(i) == (i - 1) * d
           x(i) == [do |-> "map", ea |-> Ea(space, start + k(i)), ra |-> ra + k(i), actual |-> actual]
           R == {Stretch(SizeOf(space, o), VpnOf(space, start, o), VpnOf(space, end, o))}
<1>1. d \in Nat \ {0}
  BY SizeFacts DEF Units
<1>2. s = [i \in 1 .. N |-> x(i)]
  BY DEF mmu_map_range
<1>3. N \in Nat /\ N * d <= end - start /\ N * d \in Nat
  <2> DEFINE e == end - start
  <2>1. e \in Nat
    OBVIOUS
  <2> HIDE DEF e, d
  <2>2. e \div d \in Nat /\ e % d \in 0 .. d - 1 /\ e = d * (e \div d) + (e % d)
    BY <1>1, <2>1, DivMod
  <2> DEFINE y == e \div d
             r == e % d
  <2>3. y \in Nat /\ r \in Nat /\ e = d * y + r
    BY <2>2
  <2> HIDE DEF y, r
  <2>4. y * d <= e /\ y * d \in Nat
    BY <1>1, <2>1, <2>3
  <2> QED
    BY <2>3, <2>4 DEF y, e
<1> HIDE DEF N, d
<1>4. ASSUME NEW i \in 1 .. N
      PROVE  /\ k(i) \in Nat /\ k(i) % d = 0 /\ k(i) + d <= N * d
             /\ \A j \in 1 .. N : i < j => k(i) + d <= k(j)
  BY <1>1, <1>3, RangeSteps
<1> HIDE DEF k
<1>5. ASSUME NEW i \in 1 .. N
      PROVE  /\ start + k(i) \in Nat /\ start + k(i) + d <= end /\ start + k(i) < end
             /\ (start + k(i)) % d = 0 /\ ra + k(i) \in Nat /\ (ra + k(i)) % d = 0
  <2> DEFINE h == k(i)
             top == N * d
  <2>1. h \in Nat /\ h % d = 0 /\ h + d <= top /\ top \in Nat /\ top <= end - start
    BY <1>3, <1>4
  <2> HIDE DEF h, top
  <2>2. start + h \in Nat /\ start + h + d <= end /\ start + h < end /\ ra + h \in Nat
    BY <1>1, <2>1
  <2>3. (start + h) % d = h % d /\ (ra + h) % d = h % d
    BY <1>1, <2>1, MultipleSum DEF d
  <2> QED
    BY <2>1, <2>2, <2>3 DEF h
<1>6. s \in Seq(Range(s)) /\ Len(s) = N
  <2>1. s \in Seq({x(i) : i \in 1 .. N}) /\ Len(s) = N
    <3> HIDE DEF x
    <3> QED
      BY <1>2, <1>3
  <2> QED
    BY <2>1, SeqRange
<1>7. ASSUME NEW i \in 1 .. N
      PROVE  /\ s[i] = x(i) /\ s[i].do = "map" /\ s[i].ea = Ea(space, start + k(i)) /\ s[i].ra = ra + k(i)
             /\ s[i].actual = actual
  BY <1>2
<1> HIDE DEF x
<1>8. ASSUME NEW i \in 1 .. N + 1 PROVE Then(s, i, o) = o
  <2>1. ASSUME NEW j \in 1 .. i - 1 PROVE s[j].do # "mmu_on"
    <3>1. j \in 1 .. N
      BY <1>3
    <3>2. s[j].do = "map"
      BY <1>7, <3>1
    <3> QED
      BY <3>2
  <2> QED
    BY <2>1 DEF Then
<1>9. After(s, o) = o
  BY <1>3, <1>6, <1>8 DEF After
<1> DEFINE z == VpnOf(space, 0, o)
<1>10. z \in Nat /\ \A q \in Nat : VpnOf(space, q, o) = z + q
  BY VpnSum
<1> HIDE DEF z
<1> DEFINE T(i) == Target(s[i], Then(s, i, o))
<1>11. ASSUME NEW i \in 1 .. N
       PROVE  /\ T(i).b = SizeOf(space, o) /\ T(i).vpn = z + start + k(i) /\ T(i).actual = actual /\ Sound(T(i))
              /\ ItemOK(s[i], Then(s, i, o))
  <2> DEFINE h == start + k(i)
             r == ra + k(i)
  <2>1. h \in Nat /\ start <= h /\ h < end /\ h % Units(actual) = 0 /\ r \in Nat /\ r % Units(actual) = 0
    <3>1. k(i) \in Nat
      BY <1>4
    <3> QED
      BY <1>5, <3>1 DEF d
  <2>2. i \in 1 .. N + 1
    BY <1>3
  <2>3. Then(s, i, o) = o
    BY <1>8, <2>2
  <2>4. s[i].do = "map" /\ s[i].ea = Ea(space, h) /\ s[i].ra = r /\ s[i].actual = actual
    BY <1>7
  <2>5. z + start + k(i) = z + h /\ VpnOf(space, h, o) = z + h
    BY <1>4, <1>10, <2>1
  <2> HIDE DEF h, r
  <2>6. T(i) = MappingOf(Ea(space, h), r, actual, o)
    BY <2>3, <2>4 DEF Target
  <2>7. Ea(space, h).page = h /\ Ea(space, h).space = space
    BY DEF Ea
  <2>8. Sound(T(i))
    BY <2>1, <2>6
  <2>9. T(i).b = SizeOf(space, o) /\ T(i).vpn = VpnOf(space, h, o) /\ T(i).actual = actual
    BY <2>6, <2>7 DEF MappingOf
  <2>10. ItemOK(s[i], Then(s, i, o))
    BY <2>1, <2>4, <2>7, <2>8 DEF ItemOK
  <2> QED
    BY <2>5, <2>8, <2>9, <2>10
<1> HIDE DEF T
<1>12. Stretches(R)
  BY <1>10 DEF Stretches, Stretch
<1>13. ASSUME NEW i \in 1 .. N PROVE Inside(T(i), R)
  <2> DEFINE w == Stretch(SizeOf(space, o), VpnOf(space, start, o), VpnOf(space, end, o))
  <2>1. w.b = SizeOf(space, o) /\ w.lo = z + start /\ w.hi = z + end /\ w \in R
    BY <1>10 DEF Stretch
  <2> HIDE DEF w, R
  <2>2. T(i).b = SizeOf(space, o) /\ T(i).vpn = z + start + k(i) /\ T(i).actual = actual
    BY <1>11
  <2>3. k(i) \in Nat /\ start + k(i) + d <= end
    BY <1>4, <1>5
  <2>4. w.lo <= T(i).vpn /\ T(i).vpn + Units(actual) <= w.hi
    BY <1>1, <1>10, <2>1, <2>2, <2>3 DEF d
  <2> QED
    BY <2>1, <2>2, <2>4 DEF Inside
<1>14. ASSUME NEW i \in 1 .. N, NEW j \in 1 .. N, i < j PROVE Clear(T(i), T(j))
  <2>1. /\ T(i).vpn = z + start + k(i) /\ T(i).actual = actual
        /\ T(j).vpn = z + start + k(j) /\ T(j).actual = actual
    BY <1>11
  <2>2. k(i) \in Nat /\ k(j) \in Nat /\ k(i) + d <= k(j)
    BY <1>4, <1>14
  <2>3. T(i).vpn + Units(actual) <= T(j).vpn
    BY <1>1, <1>10, <2>1, <2>2 DEF d
  <2> QED
    BY <2>1, <2>3 DEF Clear
<1> HIDE DEF R
<1>15. Fits(s, o, R)
  BY <1>6, <1>11, <1>12, <1>13, <1>14 DEF Fits, T
<1> QED
  BY <1>9, <1>15 DEF R

(* Stretches that are apart.                                               *)
LEMMA SeparateOne ==
    ASSUME NEW b, NEW lo, NEW hi, NEW c, NEW l, NEW h, b = c => hi <= l \/ h <= lo
    PROVE  Separate({Stretch(b, lo, hi)}, {Stretch(c, l, h)})
BY DEF Separate, Stretch

(* ... one by one.                                                         *)
LEMMA SeparateUnion ==
    ASSUME NEW R, NEW P, NEW Q
    PROVE  /\ Separate(R, P) /\ Separate(R, Q) => Separate(R, P \cup Q)
           /\ Separate(P, R) /\ Separate(Q, R) => Separate(P \cup Q, R)
           /\ Separate(R, {})
BY DEF Separate

(* The item that turns the guest's translation on.                         *)
LEMMA OnFits ==
    ASSUME NEW o \in BOOLEAN, NEW s, s = <<[do |-> "mmu_on"]>>
    PROVE  Fits(s, o, {}) /\ After(s, o) = FALSE
<1> DEFINE x == [do |-> "mmu_on"]
<1>1. x.do = "mmu_on"
  OBVIOUS
<1> HIDE DEF x
<1>2. s = <<x>>
  BY DEF x
<1>3. s \in Seq({x}) /\ Len(s) = 1 /\ s[1] = x
  BY <1>2
<1>4. s \in Seq(Range(s))
  BY <1>3, SeqRange
<1>5. Fits(s, o, {})
  <2>1. \A i \in 1 .. Len(s) : s[i].do = "mmu_on"
    BY <1>1, <1>3
  <2> QED
    BY <1>4, <2>1 DEF Fits, Stretches
<1>6. 1 \in 1 .. (Len(s) + 1) - 1 /\ s[1].do = "mmu_on"
  BY <1>1, <1>3
<1>7. ~After(s, o)
  BY <1>6 DEF After, Then
<1> QED
  BY <1>5, <1>7 DEF After, Then

(* The ranges of hypervisor pages that mmu_init maps.                      *)
LEMMA HvRange ==
    ASSUME NEW first \in Nat, NEW last \in Nat, first < last, last <= HvEnd, NEW o \in BOOLEAN,
           NEW s, s = mmu_map_range("hv", LargeDown(first), LargeUp(last), LargeDown(first), "16M")
    PROVE  /\ Fits(s, o, {Stretch("1T", HV_VSID * TERA + LargeDown(first), HV_VSID * TERA + LargeUp(last))})
           /\ After(s, o) = o /\ LargeUp(last) \in Nat /\ LargeUp(last) <= HvEnd /\ LargeDown(first) \in Nat
<1> DEFINE a == LargeDown(first)
           z == LargeUp(last)
<1>1. a \in Nat /\ a % LARGE = 0 /\ a <= first /\ z \in Nat /\ z % LARGE = 0 /\ last <= z /\ z < last + LARGE
  BY LargeFacts
<1> HIDE DEF a, z
<1>2. LARGE \in Nat \ {0} /\ HvEnd \in Nat /\ HvEnd % LARGE = 0 /\ Units("16M") = LARGE /\ "16M" \in Pages
  BY SizeFacts, VsidAssumption DEF Units, Pages
<1>3. z <= HvEnd
  <2>1. ASSUME HvEnd < z PROVE FALSE
    <3>1. HvEnd + LARGE <= z
      BY <1>1, <1>2, <2>1, MultipleStep
    <3> QED
      BY <1>1, <1>2, <3>1
  <2> QED
    BY <1>1, <1>2, <2>1
<1>4. ASSUME NEW q \in Nat, NEW r \in Nat, q < z, q % LARGE = 0 PROVE Sound(MappingOf(Ea("hv", q), r, "16M", o))
  <2>1. q < HvEnd
    BY <1>1, <1>2, <1>3, <1>4
  <2> QED
    BY <1>4, <2>1, HvSound
<1>5. a <= z
  BY <1>1
<1>6. SizeOf("hv", o) = "1T" /\ VpnOf("hv", a, o) = HV_VSID * TERA + a /\ VpnOf("hv", z, o) = HV_VSID * TERA + z
  BY DEF SizeOf, VpnOf
<1>7. s = mmu_map_range("hv", a, z, a, "16M")
  BY DEF a, z
<1>8. /\ Fits(s, o, {Stretch(SizeOf("hv", o), VpnOf("hv", a, o), VpnOf("hv", z, o))})
      /\ After(s, o) = o
  BY <1>1, <1>2, <1>4, <1>5, <1>7, RangeFits
<1> QED
  BY <1>1, <1>3, <1>6, <1>8 DEF a, z

(* The interrupt vectors.                                                  *)
LEMMA AilRange ==
    ASSUME NEW o \in BOOLEAN, NEW s, s = mmu_map_range("ail", AilPages[1], AilPages[2], 0, "4K")
    PROVE  /\ Fits(s, o, {Stretch("256M", AIL_VSID * SEG + AilPages[1], AIL_VSID * SEG + AilPages[2])})
           /\ After(s, o) = o
<1> DEFINE a == AilPages[1]
           z == AilPages[2]
<1>1. a \in Nat /\ z \in Nat /\ a <= z /\ z <= SEG /\ SEG \in Nat
  BY PlaceAssumption, SizeFacts
<1>2. s = mmu_map_range("ail", a, z, 0, "4K")
  OBVIOUS
<1> HIDE DEF a, z
<1>3. "4K" \in Pages /\ Units("4K") = 1
  BY DEF Pages, Units
<1>4. a % Units("4K") = 0 /\ 0 % Units("4K") = 0
  BY <1>1, <1>3
<1>5. ASSUME NEW q \in Nat, NEW r \in Nat, q < z PROVE Sound(MappingOf(Ea("ail", q), r, "4K", o))
  <2>1. q < SEG
    BY <1>1, <1>5
  <2> QED
    BY <2>1, AilSound
<1>6. SizeOf("ail", o) = "256M" /\ VpnOf("ail", a, o) = AIL_VSID * SEG + a /\ VpnOf("ail", z, o) = AIL_VSID * SEG + z
  BY DEF SizeOf, VpnOf
<1>7. 0 \in Nat
  OBVIOUS
<1>8. \A q, r \in Nat : a <= q /\ q < z /\ q % Units("4K") = 0 => Sound(MappingOf(Ea("ail", q), r, "4K", o))
  BY <1>5
<1>9. /\ Fits(s, o, {Stretch(SizeOf("ail", o), VpnOf("ail", a, o), VpnOf("ail", z, o))})
      /\ After(s, o) = o
  BY <1>1, <1>2, <1>3, <1>4, <1>7, <1>8, RangeFits
<1> QED
  BY <1>6, <1>9 DEF a, z

(* The guest's memory while its translation is off ...                     *)
LEMMA OffRange ==
    ASSUME NEW o \in BOOLEAN, o, NEW s, s = mmu_map_range("vm", 0, RamSize, RamStart, "16M")
    PROVE  /\ Fits(s, o, {Stretch("1T", GRM_VSID * TERA, GRM_VSID * TERA + RamSize)})
           /\ After(s, o) = o
<1>1. /\ LARGE \in Nat \ {0} /\ Units("16M") = LARGE /\ "16M" \in Pages
      /\ RamSize \in Nat /\ RamSize <= TERA /\ RamStart \in Nat /\ RamStart % LARGE = 0 /\ TERA \in Nat
  BY SizeFacts, PlaceAssumption DEF Units, Pages
<1>2. 0 \in Nat /\ 0 <= RamSize /\ 0 % LARGE = 0
  BY <1>1
<1>3. o = TRUE
  OBVIOUS
<1>4. ASSUME NEW q \in Nat, NEW r \in Nat, q < RamSize, q % LARGE = 0 PROVE Sound(MappingOf(Ea("vm", q), r, "16M", o))
  <2>1. q < TERA
    BY <1>1, <1>4
  <2>2. Sound(MappingOf(Ea("vm", q), r, "16M", TRUE))
    BY <1>4, <2>1, OffSound
  <2> QED
    BY <1>3, <2>2
<1>5. GRM_VSID * TERA \in Nat
  BY <1>1, VsidAssumption
<1>6. SizeOf("vm", o) = "1T" /\ VpnOf("vm", 0, o) = GRM_VSID * TERA + 0 /\ VpnOf("vm", RamSize, o) = GRM_VSID * TERA + RamSize
  BY DEF SizeOf, VpnOf
<1>7. GRM_VSID * TERA + 0 = GRM_VSID * TERA
  BY <1>5
<1>8. /\ Fits(s, o, {Stretch(SizeOf("vm", o), VpnOf("vm", 0, o), VpnOf("vm", RamSize, o))})
      /\ After(s, o) = o
  BY <1>1, <1>2, <1>4, RangeFits
<1> QED
  BY <1>6, <1>7, <1>8

(* ... and pages of it while it is on.                                     *)
LEMMA OnRange ==
    ASSUME NEW o \in BOOLEAN, ~o, NEW start \in Nat, NEW end \in Nat, NEW ra \in Nat,
           start <= end, end <= SEGMENTS * SEG,
           NEW s, s = mmu_map_range("vm", start, end, ra, "4K")
    PROVE  Fits(s, o, {Stretch("256M", start, end)}) /\ After(s, o) = o
<1>1. "4K" \in Pages /\ Units("4K") = 1
  BY DEF Pages, Units
<1>2. start % Units("4K") = 0 /\ ra % Units("4K") = 0 /\ SEGMENTS * SEG \in Nat
  BY <1>1, SizeFacts, GroupAssumption
<1>3. o = FALSE
  OBVIOUS
<1>4. ASSUME NEW q \in Nat, NEW r \in Nat, q < end PROVE Sound(MappingOf(Ea("vm", q), r, "4K", o))
  <2>1. q < SEGMENTS * SEG /\ q % Units("4K") = 0
    <3> DEFINE z == SEGMENTS * SEG
    <3>1. z \in Nat /\ end <= z
      BY <1>2
    <3> HIDE DEF z
    <3>2. q < z
      BY <1>4, <3>1
    <3> QED
      BY <1>1, <3>2 DEF z
  <2>2. Sound(MappingOf(Ea("vm", q), r, "4K", FALSE))
    BY <1>1, <2>1, OnSound
  <2> QED
    BY <1>3, <2>2
<1>5. SizeOf("vm", o) = "256M" /\ VpnOf("vm", start, o) = start /\ VpnOf("vm", end, o) = end
  BY DEF SizeOf, VpnOf
<1>6. \A q, r \in Nat : start <= q /\ q < end /\ q % Units("4K") = 0 => Sound(MappingOf(Ea("vm", q), r, "4K", o))
  BY <1>4
<1>7. /\ Fits(s, o, {Stretch(SizeOf("vm", o), VpnOf("vm", start, o), VpnOf("vm", end, o))})
      /\ After(s, o) = o
  BY <1>1, <1>2, <1>6, RangeFits
<1> QED
  BY <1>5, <1>7

(* A script that fits, beside mappings that leave its stretches free.      *)
LEMMA FitsScript ==
    ASSUME NEW s, NEW o, NEW R, NEW w, Fits(s, o, R),
           \A m \in w : \A n : Sound(n) /\ Inside(n, R) => Clear(m, n)
    PROVE  ScriptOK(s, o, w)
<1> SUFFICES ASSUME NEW i \in 1 .. Len(s), s[i].do # "mmu_on"
             PROVE  \A m \in w : Clear(m, Target(s[i], Then(s, i, o)))
  BY DEF ScriptOK, Fits
<1>1. ItemOK(s[i], Then(s, i, o)) /\ Inside(Target(s[i], Then(s, i, o)), R)
  BY DEF Fits
<1>2. Sound(Target(s[i], Then(s, i, o)))
  BY <1>1 DEF ItemOK
<1> QED
  BY <1>1, <1>2

(* Boot maps no page twice.                                                *)
LEMMA BootScript ==
    ASSUME NEW w, w = {}
    PROVE  ScriptOK(mmu_init \o guest_init, TRUE, w)
<1> DEFINE o == TRUE
           f == FALSE
           A == mmu_map_range("hv", LargeDown(HtabPages[1]), LargeUp(HtabPages[2]), LargeDown(HtabPages[1]), "16M")
           B == mmu_map_range("hv", LargeDown(ImagePages[1]), LargeUp(ImagePages[2]), LargeDown(ImagePages[1]), "16M")
           C == mmu_map_range("ail", AilPages[1], AilPages[2], 0, "4K")
           D == mmu_map_range("vm", 0, RamSize, RamStart, "16M")
           on == <<[do |-> "mmu_on"]>>
           E == mmu_map_range("vm", 0, RamSize, RamStart, "4K")
           z == HV_VSID * TERA
           a == AIL_VSID * SEG
           g == GRM_VSID * TERA
           RA == {Stretch("1T", z + LargeDown(HtabPages[1]), z + LargeUp(HtabPages[2]))}
           RB == {Stretch("1T", z + LargeDown(ImagePages[1]), z + LargeUp(ImagePages[2]))}
           RC == {Stretch("256M", a + AilPages[1], a + AilPages[2])}
           RD == {Stretch("1T", g, g + RamSize)}
           RE == {Stretch("256M", 0, RamSize)}
<1>1. mmu_init \o guest_init = ((A \o B) \o C) \o ((D \o on) \o E)
  BY DEF mmu_init, guest_init
<1>2. o \in BOOLEAN /\ o /\ f \in BOOLEAN /\ ~f /\ f = FALSE
  OBVIOUS
<1>3. /\ HtabPages[1] \in Nat /\ HtabPages[2] \in Nat /\ HtabPages[1] < HtabPages[2] /\ HtabPages[2] <= HvEnd
      /\ ImagePages[1] \in Nat /\ ImagePages[2] \in Nat /\ ImagePages[1] < ImagePages[2] /\ ImagePages[2] <= HvEnd
      /\ \/ LargeUp(HtabPages[2]) <= LargeDown(ImagePages[1])
         \/ LargeUp(ImagePages[2]) <= LargeDown(HtabPages[1])
      /\ AilPages[1] \in Nat /\ AilPages[2] \in Nat
      /\ RamStart \in Nat /\ RamSize \in Nat /\ RamSize <= SEGMENTS * SEG /\ RamSize <= TERA
  BY PlaceAssumption
<1> HIDE DEF o, f
<1>4. /\ Fits(A, o, RA) /\ After(A, o) = o
      /\ LargeUp(HtabPages[2]) \in Nat /\ LargeUp(HtabPages[2]) <= HvEnd /\ LargeDown(HtabPages[1]) \in Nat
  BY <1>2, <1>3, HvRange
<1>5. /\ Fits(B, o, RB) /\ After(B, o) = o
      /\ LargeUp(ImagePages[2]) \in Nat /\ LargeUp(ImagePages[2]) <= HvEnd /\ LargeDown(ImagePages[1]) \in Nat
  BY <1>2, <1>3, HvRange
<1>6. Fits(C, o, RC) /\ After(C, o) = o
  BY <1>2, AilRange
<1>7. Fits(D, o, RD) /\ After(D, o) = o
  BY <1>2, OffRange
<1>8. Fits(on, o, {}) /\ After(on, o) = f
  BY <1>2, OnFits
<1>9. Fits(E, f, RE)
  <2>1. 0 \in Nat /\ 0 <= RamSize
    BY <1>3
  <2> QED
    BY <1>2, <1>3, <2>1, OnRange
<1>10. z \in Nat /\ g \in Nat /\ a \in Nat /\ TERA \in Nat /\ HvEnd \in Nat /\ HvEnd <= TERA
  BY VsidAssumption, SizeFacts
<1>11. z + TERA <= g \/ g + TERA <= z
  <2>1. HV_VSID \in Nat /\ GRM_VSID \in Nat /\ HV_VSID # GRM_VSID /\ TERA \in Nat
    BY VsidAssumption, SizeFacts
  <2>2. ASSUME NEW x \in Nat, NEW y \in Nat, x < y PROVE x * TERA + TERA <= y * TERA
    <3>1. (x + 1) * TERA <= y * TERA
      BY <2>1, <2>2
    <3>2. (x + 1) * TERA = x * TERA + TERA
      BY <2>1
    <3> QED
      BY <3>1, <3>2
  <2>3. HV_VSID < GRM_VSID \/ GRM_VSID < HV_VSID
    BY <2>1
  <2> QED
    BY <2>1, <2>2, <2>3
<1>12. RamSize <= a
  <2>1. SEGMENTS \in Nat /\ AIL_VSID \in Nat /\ SEGMENTS <= AIL_VSID /\ SEG \in Nat
    BY VsidAssumption, GroupAssumption, SizeFacts
  <2>2. SEGMENTS * SEG <= AIL_VSID * SEG /\ SEGMENTS * SEG \in Nat
    BY <2>1
  <2> QED
    BY <1>3, <1>10, <2>2
<1> DEFINE h1 == LargeDown(HtabPages[1])
           h2 == LargeUp(HtabPages[2])
           i1 == LargeDown(ImagePages[1])
           i2 == LargeUp(ImagePages[2])
<1>13. /\ h1 \in Nat /\ h2 \in Nat /\ h2 <= HvEnd /\ i1 \in Nat /\ i2 \in Nat /\ i2 <= HvEnd
       /\ h2 <= i1 \/ i2 <= h1
  BY <1>3, <1>4, <1>5
<1> HIDE DEF z, a, g, A, B, C, D, E, on
<1>14. Separate(RA, RB) /\ Separate(RA, RD) /\ Separate(RB, RD) /\ Separate(RC, RE)
  <2> HIDE DEF h1, h2, i1, i2
  <2>1. z + h2 <= z + i1 \/ z + i2 <= z + h1
    BY <1>10, <1>13
  <2>2. (z + h2 <= g \/ g + RamSize <= z + h1) /\ (z + i2 <= g \/ g + RamSize <= z + i1)
    BY <1>3, <1>10, <1>11, <1>13
  <2>3. a + AilPages[2] <= 0 \/ RamSize <= a + AilPages[1]
    BY <1>3, <1>10, <1>12
  <2>4. Separate({Stretch("1T", z + h1, z + h2)}, {Stretch("1T", z + i1, z + i2)})
    BY <2>1, SeparateOne
  <2>5. Separate({Stretch("1T", z + h1, z + h2)}, RD) /\ Separate({Stretch("1T", z + i1, z + i2)}, RD)
    BY <2>2, SeparateOne
  <2>6. Separate(RC, RE)
    BY <2>3, SeparateOne
  <2> QED
    BY <2>4, <2>5, <2>6 DEF h1, h2, i1, i2
<1>15. Separate(RA, RC) /\ Separate(RB, RC) /\ Separate(RA, RE) /\ Separate(RB, RE) /\ Separate(RC, RD) /\ Separate(RD, RE)
  BY SeparateOne
<1> HIDE DEF RA, RB, RC, RD, RE
<1> DEFINE RP == RA \cup RB
           P == A \o B
           RI == RP \cup RC
           I == P \o C
           K == D \o on
<1>16. Fits(P, o, RP) /\ After(P, o) = o
  BY <1>2, <1>4, <1>5, <1>14, FitsConcat
<1>17. Separate(RP, RC)
  BY <1>15, SeparateUnion
<1> HIDE DEF P, RP
<1>18. Fits(I, o, RI) /\ After(I, o) = o
  <2>1. Fits(C, After(P, o), RC)
    BY <1>6, <1>16
  <2>2. Fits(I, o, RI) /\ After(I, o) = After(C, After(P, o))
    BY <1>2, <1>16, <1>17, <2>1, FitsConcat
  <2> QED
    BY <1>6, <1>16, <2>2
<1>19. Fits(K, o, RD \cup {}) /\ After(K, o) = f
  <2>1. Separate(RD, {})
    BY SeparateUnion
  <2> QED
    BY <1>2, <1>7, <1>8, <2>1, FitsConcat
<1>20. RD \cup {} = RD
  OBVIOUS
<1> HIDE DEF K
<1>21. Fits(K \o E, o, RD \cup RE)
  <2>1. Fits(K, o, RD) /\ Fits(E, After(K, o), RE)
    BY <1>9, <1>19, <1>20
  <2> QED
    BY <1>2, <1>15, <2>1, FitsConcat
<1>22. Separate(RI, RD \cup RE)
  <2>1. Separate(RP, RD) /\ Separate(RP, RE)
    BY <1>14, <1>15, SeparateUnion DEF RP
  <2>2. Separate(RI, RD) /\ Separate(RI, RE)
    BY <1>14, <1>15, <2>1, SeparateUnion
  <2> QED
    BY <2>2, SeparateUnion
<1> HIDE DEF RI, I
<1>23. Fits(I \o (K \o E), o, RI \cup (RD \cup RE))
  <2>1. Fits(K \o E, After(I, o), RD \cup RE)
    BY <1>18, <1>21
  <2> QED
    BY <1>2, <1>18, <1>22, <2>1, FitsConcat
<1>24. ScriptOK(I \o (K \o E), o, w)
  BY <1>23, FitsScript
<1> QED
  BY <1>1, <1>24 DEF I, P, K, o

(* A function on no indices is the empty sequence.                         *)
LEMMA EmptyFcn ==
    ASSUME NEW f \in [1 .. 0 -> {0}]
    PROVE  f = <<>>
<1>1. f \in Seq({0}) /\ Len(f) = 0
  OBVIOUS
<1> QED
  BY <1>1

(* The calls of a range of 4K pages, in order.                             *)
LEMMA SmallRange ==
    ASSUME NEW start \in Nat, NEW end \in Nat, NEW ra \in Nat, NEW s, s = mmu_map_range("vm", start, end, ra, "4K")
    PROVE  /\ end <= start => s = <<>>
           /\ start < end => DOMAIN s = 1 .. end - start /\ \A q \in start .. end - 1 : s[q - start + 1].ea = Ea("vm", q)
<1> DEFINE item(i) == [do |-> "map", ea |-> Ea("vm", start + (i - 1) * 1), ra |-> ra + (i - 1) * 1, actual |-> "4K"]
           N == (end - start) \div 1
<1>1. s = [i \in 1 .. N |-> item(i)]
  BY DEF mmu_map_range, Units
<1>2. N = end - start
  OBVIOUS
<1>3. ASSUME end <= start PROVE s = <<>>
  <2>1. 1 .. N = {}
    BY <1>2, <1>3
  <2> HIDE DEF N, item
  <2>2. s \in [1 .. N -> {0}]
    BY <1>1, <2>1
  <2>3. 1 .. N = 1 .. 0
    BY <2>1
  <2>4. s \in [1 .. 0 -> {0}]
    BY <2>2, <2>3, Zenon
  <2> QED
    BY <2>4, EmptyFcn
<1>4. ASSUME start < end, NEW q \in start .. end - 1 PROVE s[q - start + 1].ea = Ea("vm", q)
  <2> DEFINE k == q - start + 1
  <2>1. k \in 1 .. N /\ start + (k - 1) * 1 = q
    BY <1>2, <1>4
  <2> HIDE DEF k, N
  <2>2. s[k] = item(k)
    BY <1>1, <2>1
  <2>3. item(k).ea = Ea("vm", start + (k - 1) * 1)
    OBVIOUS
  <2> QED
    BY <2>1, <2>2, <2>3 DEF k
<1>5. DOMAIN s = 1 .. end - start
  <2> HIDE DEF item, N
  <2> QED
    BY <1>1, <1>2
<1> QED
  BY <1>3, <1>4, <1>5

(* "map" asks for pages that are not mapped, or the guest has misused it.  *)
LEMMA RomMapInv ==
    ASSUME IInv, NEW x \in ClientMaps, rom_call_map(x.virt, x.phys, x.size, x.cut), ~misused'
    PROVE  IInv'
<1>1. htab \in Tables /\ TableOK(htab, wanted, call, tlb) /\ ScriptOK(script, off, wanted)
      /\ IsFiniteSet(tlb) /\ Cardinality(tlb) <= TLB_SIZE /\ off \in BOOLEAN /\ halt = "no"
  BY DEF IInv, Types, Tables
<1> DEFINE v == x.virt
           ra == RamStart + x.phys
           Z == SEGMENTS * SEG
           e == (v + x.size) % Z
           s == mmu_map_range("vm", v, e, ra, "4K")
           R == {Stretch("256M", v, e)}
           same == v = x.phys /\ x.cut # {"virt"} /\ x.cut # {"phys"}
           bug == ~same /\ ("virt" \in x.cut \/ ("phys" \in x.cut /\ s # <<>>))
           again == \E i \in DOMAIN s : off \/ WalkEa(s[i].ea) # {}
<1>2. /\ call.op = "none"
      /\ script' = IF same \/ bug THEN <<>> ELSE s
      /\ halt' = IF bug THEN "args" ELSE halt
      /\ misused' = (misused \/ bug \/ (~same /\ again))
      /\ htab' = htab /\ tlb' = tlb /\ off' = off /\ call' = call /\ wanted' = wanted
  BY DEF rom_call_map, Idle
<1>3. Z \in Nat \ {0} /\ v \in Nat /\ ra \in Nat /\ x.size \in Nat
  <2>1. x.virt \in VmPages /\ x.phys \in Nat /\ x.size \in Nat
    BY CallerAssumption
  <2>2. SEGMENTS \in Nat \ {0} /\ SEG \in Nat \ {0}
    BY SizeFacts, GroupAssumption
  <2>3. Z \in Nat \ {0}
    BY <2>2
  <2> HIDE DEF Z
  <2> QED
    BY <2>1, <2>3, PlaceAssumption DEF VmPages
<1>4. e \in Nat /\ e <= Z
  <2> DEFINE y == v + x.size
  <2>1. y \in Nat
    BY <1>3
  <2> HIDE DEF y, Z
  <2>2. y % Z \in 0 .. Z - 1
    BY <1>3, <2>1, DivMod
  <2> QED
    BY <1>3, <2>2 DEF y
<1> HIDE DEF e, s, v, ra
<1>5. ~bug /\ (same \/ ~again) /\ halt' = halt
  BY <1>2
<1>6. ScriptOK(script', off, wanted)
  <2>1. CASE same \/ e <= v
    <3>1. e <= v => s = <<>>
      BY <1>3, <1>4, SmallRange DEF s
    <3>2. script' = <<>>
      BY <1>2, <1>5, <2>1, <3>1
    <3> QED
      BY <3>2, EmptyScript
  <2>2. CASE ~same /\ v < e
    <3>1. script' = s /\ ~again
      BY <1>2, <1>5, <2>2
    <3>2. DOMAIN s = 1 .. e - v /\ \A q \in v .. e - 1 : s[q - v + 1].ea = Ea("vm", q)
      BY <1>3, <1>4, <2>2, SmallRange DEF s
    <3>3. 1 \in DOMAIN s
      BY <1>3, <1>4, <2>2, <3>2
    <3>4. ~off
      BY <3>1, <3>3
    <3>5. ASSUME NEW q \in v .. e - 1 PROVE Walk(q, "256M", "4K") = {}
      <4> DEFINE ea == Ea("vm", q)
      <4>1. ea.page = q /\ ea.space = "vm"
        BY DEF Ea
      <4>2. q - v + 1 \in DOMAIN s
        BY <1>3, <1>4, <3>2
      <4>3. WalkEa(s[q - v + 1].ea) = {} /\ s[q - v + 1].ea = ea
        BY <3>1, <3>2, <4>2
      <4> HIDE DEF ea
      <4>4. ea_2_seg_size(ea) = "256M" /\ ea_2_base_size(ea) = "4K" /\ ea_2_vpn(ea) = q
        BY <3>4, <4>1 DEF ea_2_seg_size, ea_2_base_size, ea_2_vpn
      <4> QED
        BY <4>3, <4>4 DEF WalkEa
    <3>6. Fits(s, off, R)
      BY <1>1, <1>3, <1>4, <2>2, <3>4, OnRange DEF s
    <3>7. ASSUME NEW n, Sound(n), Inside(n, R) PROVE \A m \in wanted : Clear(m, n)
      <4>1. n.b = "256M" /\ v <= n.vpn /\ n.vpn + Units(n.actual) <= e
        BY <3>7 DEF Inside, Stretch
      <4>2. n.vpn \in Nat /\ Units(n.actual) \in Nat \ {0}
        BY <3>7, SoundFacts
      <4>3. BaseOf(n.b) = "4K"
        BY <4>1 DEF BaseOf
      <4>4. ASSUME NEW y \in n.vpn .. n.vpn + Units(n.actual) - 1 PROVE Walk(y, n.b, BaseOf(n.b)) = {}
        <5>1. y \in v .. e - 1
          BY <1>3, <1>4, <4>1, <4>2
        <5> QED
          BY <3>5, <4>1, <4>3, <5>1
      <4> QED
        BY <1>1, <1>2, <3>7, <4>4, Unmapped
    <3> HIDE DEF R
    <3>8. ScriptOK(s, off, wanted)
      BY <3>6, <3>7, FitsScript
    <3> QED
      BY <3>1, <3>8
  <2> QED
    BY <1>3, <1>4, <2>1, <2>2
<1> QED
  BY <1>1, <1>2, <1>5, <1>6 DEF IInv, Types, Tables

-----------------------------------------------------------------------------
(***************************************************************************)
(* The specification.                                                      *)
(***************************************************************************)
(* The table is empty at first, and boot has all of its calls to make.     *)
LEMMA InitInv == Init => IInv
<1> SUFFICES ASSUME Init PROVE IInv
  OBVIOUS
<1>1. /\ htab = [g \in Groups |-> [i \in Slots |-> NoPte]]
      /\ tlb = {} /\ off = TRUE /\ script = mmu_init \o guest_init
      /\ call = NoCall /\ wanted = {} /\ halt = "no"
  BY DEF Init, Groups, Slots
<1>2. NoPte \in Ptes /\ ~NoPte.v
  BY DEF NoPte, Ptes, Pages
<1>3. htab \in [Groups -> [Slots -> Ptes]] /\ \A g \in Groups, i \in Slots : ~htab[g][i].v
  <2> HIDE DEF NoPte
  <2> QED
    BY <1>1, <1>2
<1>4. IsFiniteSet(tlb) /\ Cardinality(tlb) <= TLB_SIZE
  <2>1. IsFiniteSet(tlb) /\ Cardinality(tlb) = 0
    BY <1>1, FS_EmptySet
  <2> QED
    BY <2>1, HtabAssumption
<1>5. Types
  BY <1>1, <1>3, <1>4 DEF Types
<1>9. halt = "no"
  BY <1>1
<1>6. TableOK(htab, wanted, call, tlb)
  <2>1. WantedOK(wanted) /\ AllWanted(htab, wanted, call)
    BY <1>1 DEF WantedOK, AllWanted
  <2>2. CallOK(call, htab, wanted)
    BY <1>1 DEF CallOK
  <2>3. OnlyWanted(htab, wanted, call) /\ Spread(htab)
    BY <1>3 DEF OnlyWanted, Spread
  <2>4. TlbOK(tlb, wanted, call)
    BY <1>1 DEF TlbOK, NoCall
  <2> QED
    BY <2>1, <2>2, <2>3, <2>4 DEF TableOK
<1>7. ScriptOK(mmu_init \o guest_init, TRUE, wanted)
  BY <1>1, BootScript
<1>8. ScriptOK(script, off, wanted)
  BY <1>1, <1>7
<1> QED
  BY <1>5, <1>6, <1>8, <1>9 DEF IInv

(* As long as the guest does nothing wrong, every step keeps IInv or is a  *)
(* spill.                                                                  *)
LEMMA GoodStep ==
    ASSUME IInv, [Next]_vars, ~misused'
    PROVE  IInv' \/ Spilled'
<1>1. CASE Begin
  BY <1>1, BeginInv
<1>2. CASE MapR
  BY <1>2, MapRInv
<1>3. CASE MapV
  BY <1>3, MapVInv
<1>4. CASE UnmapV
  BY <1>4, UnmapVInv
<1>5. CASE Tlbie
  BY <1>5, TlbieInv
<1>6. CASE Return
  BY <1>6, ReturnInv
<1>7. CASE \E ea \in EAs : TlbFill(ea)
  BY <1>7, TlbFillInv
<1>8. CASE \E u \in Unmaps : mmu_unmap(Ea(u[1], u[2]))
  BY <1>8, UnmapInv
<1>9. CASE \E m \in MixedMaps : MapMixed(m[1], m[2])
  BY <1>9, MapMixedInv
<1>10. CASE \E p \in 0 .. HvEnd - 1 : HvFault(p)
  BY <1>10, HvFaultInv
<1>11. CASE \E m \in ClientMaps : rom_call_map(m.virt, m.phys, m.size, m.cut)
  BY <1>11, RomMapInv
<1>12. CASE guest_update_msr
  BY <1>12, UpdateMsrInv
<1>13. CASE UNCHANGED vars
  BY <1>13 DEF vars, IInv, Types
<1>14. CASE Hung
  BY <1>14 DEF Hung, IInv
<1> QED
  BY <1>1, <1>2, <1>3, <1>4, <1>5, <1>6, <1>7, <1>8, <1>9, <1>10, <1>11, <1>12, <1>13, <1>14 DEF Next, Edit

(* Only "map" sets misused, and nothing clears it.                         *)
LEMMA MisusedStep ==
    ASSUME misused \in BOOLEAN, [Next]_vars
    PROVE  misused' \in BOOLEAN /\ (misused => misused')
<1>1. CASE Edit
  BY <1>1 DEF Edit, Begin, MapR, MapV, UnmapV, Tlbie, Return
<1>2. CASE \E ea \in EAs : TlbFill(ea)
  BY <1>2 DEF TlbFill
<1>3. CASE \E u \in Unmaps : mmu_unmap(Ea(u[1], u[2]))
  BY <1>3 DEF mmu_unmap
<1>4. CASE \E m \in MixedMaps : MapMixed(m[1], m[2])
  BY <1>4 DEF MapMixed
<1>5. CASE \E p \in 0 .. HvEnd - 1 : HvFault(p)
  BY <1>5 DEF HvFault
<1>6. CASE \E m \in ClientMaps : rom_call_map(m.virt, m.phys, m.size, m.cut)
  <2>1. PICK m \in ClientMaps : rom_call_map(m.virt, m.phys, m.size, m.cut)
    BY <1>6
  <2>2. \E z \in BOOLEAN : misused' = (misused \/ z)
    BY <2>1 DEF rom_call_map
  <2> QED
    BY <2>2
<1>7. CASE guest_update_msr
  BY <1>7 DEF guest_update_msr
<1>8. CASE Hung \/ UNCHANGED vars
  BY <1>8 DEF Hung, vars
<1> QED
  BY <1>1, <1>2, <1>3, <1>4, <1>5, <1>6, <1>7, <1>8 DEF Next

(* A machine that has stopped does nothing more.                           *)
LEMMA StoppedStep ==
    ASSUME halt # "no", [Next]_vars
    PROVE  UNCHANGED vars
<1>1. ~Edit
  BY DEF Edit, Begin, MapR, MapV, UnmapV, Tlbie, Return
<1>2. ~(\E ea \in EAs : TlbFill(ea)) /\ ~(\E u \in Unmaps : mmu_unmap(Ea(u[1], u[2])))
  BY DEF TlbFill, mmu_unmap
<1>3. ~Idle
  BY DEF Idle
<1>4. ~(\E m \in MixedMaps : MapMixed(m[1], m[2])) /\ ~(\E p \in 0 .. HvEnd - 1 : HvFault(p)) /\ ~guest_update_msr
  BY <1>3 DEF MapMixed, HvFault, guest_update_msr
<1>5. ~(\E m \in ClientMaps : rom_call_map(m.virt, m.phys, m.size, m.cut))
  BY <1>3 DEF rom_call_map
<1> QED
  BY <1>1, <1>2, <1>4, <1>5 DEF Next, Hung

(* Every step keeps the invariant.                                         *)
LEMMA NextInv == Inv /\ [Next]_vars => Inv'
<1> SUFFICES ASSUME Inv, [Next]_vars PROVE Inv'
  OBVIOUS
<1>1. misused \in BOOLEAN /\ misused' \in BOOLEAN /\ (misused => misused')
  BY MisusedStep DEF Inv
<1>2. CASE misused'
  BY <1>1, <1>2 DEF Inv
<1>3. CASE ~misused' /\ IInv
  BY <1>1, <1>3, GoodStep DEF Inv
<1>4. CASE ~misused' /\ Spilled
  <2>1. UNCHANGED vars
    BY <1>4, StoppedStep DEF Spilled
  <2>2. Spilled'
    BY <1>4, <2>1 DEF vars, Spilled, Types, SegmentsUsed
  <2> QED
    BY <1>1, <1>4, <2>2 DEF Inv
<1> QED
  BY <1>1, <1>2, <1>3, <1>4 DEF Inv

(* As long as the guest maps new pages only, in every state the table, the *)
(* TLB, the call in progress and the calls of mmu_map_range still to come  *)
(* agree with what mmu_map and mmu_unmap were asked for, at every instant  *)
(* of an update.                                                           *)
THEOREM Invariant == Spec => []Inv
<1>1. Init => Inv
  BY InitInv DEF Inv, Init
<1>2. Inv /\ [Next]_vars => Inv'
  BY NextInv
<1> QED
  BY <1>1, <1>2, PTL DEF Spec

(* Between calls of mmu_map and mmu_unmap the hardware's walk of the table *)
(* finds for every page exactly the mapping that was asked for, whatever   *)
(* the sizes, the segment numbers and the addresses are.                   *)
THEOREM TranslationCorrectAlways == Spec => []TranslationCorrect
<1>1. ASSUME Inv PROVE TranslationCorrect
  <2> SUFFICES ASSUME call.op = "none", ~misused, NEW ea \in EAs
               PROVE  WalkEa(ea) = {m \in wanted : Covers(m, ea_2_vpn(ea), ea_2_seg_size(ea), ea_2_base_size(ea))}
    BY DEF TranslationCorrect
  <2>1. htab \in [Groups -> [Slots -> Ptes]] /\ WantedOK(wanted) /\ OnlyWanted(htab, wanted, call) /\ AllWanted(htab, wanted, call)
    BY <1>1 DEF Inv, IInv, Spilled, Types, TableOK
  <2>2. ea.page \in Nat
    <3>1. AilPages[1] \in Nat
      BY PlaceAssumption
    <3> QED
      BY <3>1 DEF EAs, Ea, VmPages
  <2> DEFINE b == ea_2_seg_size(ea)
             vpn == ea_2_vpn(ea)
  <2>3. b \in {"256M", "1T"} /\ vpn \in Nat /\ ea_2_base_size(ea) = BaseOf(b) /\ WalkEa(ea) = Walk(vpn, b, BaseOf(b))
    BY <2>2, EaFacts DEF WalkEa
  <2> HIDE DEF b, vpn
  <2>4. ASSUME NEW e \in Walk(vpn, b, BaseOf(b)) PROVE e \in wanted /\ Covers(e, vpn, b, BaseOf(b))
    BY <2>1, <2>3, WalkSound
  <2>5. ASSUME NEW m \in wanted, Covers(m, vpn, b, BaseOf(b)) PROVE m \in Walk(vpn, b, BaseOf(b))
    BY <2>1, <2>3, <2>5, WalkComplete
  <2>6. Walk(vpn, b, BaseOf(b)) = {m \in wanted : Covers(m, vpn, b, BaseOf(b))}
    BY <2>4, <2>5
  <2> QED
    BY <2>3, <2>6 DEF b, vpn
<1> QED
  BY <1>1, Invariant, PTL

(* What the TLB holds is at every instant a mapping that was asked for and *)
(* not taken back: mmu_unmap_vpn clears the entry before tlbie, and the    *)
(* invalidation is for the page that the entry belonged to.                *)
THEOREM TlbCoherentAlways == Spec => []TlbCoherent
<1>1. ASSUME Inv PROVE TlbCoherent
  BY <1>1 DEF Inv, IInv, Spilled, TableOK, TlbOK, TlbCoherent
<1> QED
  BY <1>1, Invariant, PTL

(* No two valid entries of a group belong to pages of one segment, so that *)
(* vpn_hash spreads the pages of a segment over the groups.                *)
THEOREM OnePerSegmentAlways == Spec => []OnePerSegment
<1>1. ASSUME Inv PROVE OnePerSegment
  <2> SUFFICES ASSUME ~misused PROVE OnePerSegment
    BY DEF OnePerSegment
  <2>1. htab \in [Groups -> [Slots -> Ptes]] /\ Spread(htab)
    BY <1>1 DEF Inv, IInv, Spilled, Types, TableOK
  <2>2. DOMAIN htab = Groups
    BY <2>1
  <2> SUFFICES ASSUME NEW g \in Groups, NEW i \in Slots, NEW j \in Slots,
                      i # j, htab[g][i].v, htab[g][j].v, htab[g][i].b = htab[g][j].b
               PROVE  (htab[g][i].avpn * DROP) \div SegPages(htab[g][i].b) #
                        (htab[g][j].avpn * DROP) \div SegPages(htab[g][j].b)
    BY <2>2 DEF OnePerSegment, Slots
  <2>3. SegmentOf(htab[g][i].avpn, htab[g][i].b) # SegmentOf(htab[g][j].avpn, htab[g][j].b)
    BY <2>1 DEF Spread
  <2> QED
    BY <2>3 DEF SegmentOf
<1> QED
  BY <1>1, Invariant, PTL

(* However many segments the guest has: as long as it maps no page twice,  *)
(* none with the MMU off and none that is not aligned, mmu_map and         *)
(* mmu_unmap stop at none of their BUGs but "PTEG spill", and at that only *)
(* when more segments have mappings than a group has entries.              *)
THEOREM NoBugAlways == Spec => []NoBug
<1>1. ASSUME Inv PROVE NoBug
  <2> SUFFICES ASSUME ~misused PROVE NoBug
    BY DEF NoBug
  <2>1. /\ htab \in [Groups -> [Slots -> Ptes]] /\ Cardinality(tlb) <= TLB_SIZE /\ off \in BOOLEAN
        /\ WantedOK(wanted) /\ CallOK(call, htab, wanted) /\ TlbOK(tlb, wanted, call)
        /\ misused \in BOOLEAN
        /\ halt = "no" \/ (halt = "spill" /\ Cardinality(SegmentsUsed) > PTES_PER_GROUP)
    BY <1>1 DEF Inv, IInv, Spilled, Types, TableOK
  <2>2. ASSUME NEW g \in DOMAIN htab, NEW i \in DOMAIN htab[g]
        PROVE  htab[g][i].v \in BOOLEAN /\ htab[g][i].lp \in Pages /\ htab[g][i].avpn \in Nat
    <3>1. htab[g][i] \in Ptes
      BY <2>1
    <3> QED
      BY <3>1 DEF Ptes
  <2>3. tlb \subseteq Mappings /\ wanted \subseteq Mappings
    BY <2>1 DEF WantedOK, Sound, TlbOK
  <2>4. ASSUME call.op # "none" PROVE call.left \in 0 .. LARGE /\ call.slot \in 0 .. PTES_PER_GROUP
    <3>1. call # NoCall
      BY <2>4 DEF NoCall
    <3> QED
      BY <2>1, <3>1 DEF CallOK, Calls
  <2> QED
    BY <2>1, <2>2, <2>3, <2>4 DEF NoBug, TypeOK
<1> QED
  BY <1>1, Invariant, PTL
=============================================================================
