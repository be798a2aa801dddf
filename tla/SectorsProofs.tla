---------------------------- MODULE SectorsProofs ----------------------------
(* Proofs about Sectors, for a galaxy and a quadrant of any size, any chart to *)
(* start from and any room to draw in: the line a move follows, cell by cell;  *)
(* that a quadrant entered shows what the chart has; and that no order, no     *)
(* event and no enemy's turn sets the map, the hit points and the chart at     *)
(* odds.                                                                       *)
EXTENDS Sectors, FiniteSetTheorems, SequenceTheorems, WellFoundedInduction, TLAPS

-----------------------------------------------------------------------------
(* Arithmetic and the accumulators *)

\* A quotient and its remainder, by the two bounds that settle them.
LEMMA DivDef ==
    ASSUME NEW v \in Nat, NEW m \in Nat \ {0}
    PROVE  /\ v \div m \in Nat /\ v % m \in Nat /\ v % m < m
           /\ v = m * (v \div m) + (v % m)
  OBVIOUS

\* A product grows with its factor.
LEMMA MulMono ==
    ASSUME NEW a \in Int, NEW b \in Int, NEW m \in Nat, a <= b
    PROVE  m * a <= m * b
  OBVIOUS

\* The only quotient and remainder there are.
LEMMA DivIs ==
    ASSUME NEW v \in Nat, NEW m \in Nat \ {0}, NEW q \in Nat, NEW r \in Nat, r < m, v = m * q + r
    PROVE  v \div m = q /\ v % m = r
<1> DEFINE d == v \div m
           e == v % m
<1>1. d \in Nat /\ e \in Nat /\ e < m /\ v = m * d + e
  BY DivDef
<1> HIDE DEF d, e
<1>2. CASE d < q
  <2>1. m * (d + 1) <= m * q /\ m * (d + 1) = m * d + m
    BY <1>1, <1>2, MulMono
  <2> QED BY <2>1, <1>1
<1>3. CASE q < d
  <2>1. m * (q + 1) <= m * d /\ m * (q + 1) = m * q + m
    BY <1>1, <1>3, MulMono
  <2> QED BY <2>1, <1>1
<1>4. CASE q = d
  BY <1>1, <1>4
<1>5. d = q /\ e = r
  BY <1>1, <1>2, <1>3, <1>4
<1> QED BY <1>5 DEF d, e

\* One more gain carries at most once, as the gain is at most the modulus.
LEMMA Carry ==
    ASSUME NEW v \in Nat, NEW m \in Nat \ {0}, NEW g \in Nat, g <= m
    PROVE  LET acc == (v % m) + g IN
           /\ acc >= m => (v + g) % m = acc - m /\ (v + g) \div m = (v \div m) + 1
           /\ acc < m  => (v + g) % m = acc /\ (v + g) \div m = v \div m
<1> DEFINE d == v \div m
           e == v % m
<1>1. d \in Nat /\ e \in Nat /\ e < m /\ v = m * d + e
  BY DivDef
<1> HIDE DEF d, e
<1>2. ASSUME e + g >= m PROVE (v + g) % m = e + g - m /\ (v + g) \div m = d + 1
  <2>1. m * (d + 1) = m * d + m
    BY <1>1
  <2>2. v + g = m * (d + 1) + (e + g - m) /\ e + g - m \in Nat /\ e + g - m < m
    BY <1>1, <1>2, <2>1
  <2>3. v + g \in Nat /\ d + 1 \in Nat
    BY <1>1
  <2> QED BY <2>2, <2>3, DivIs
<1>3. ASSUME e + g < m PROVE (v + g) % m = e + g /\ (v + g) \div m = d
  <2>1. v + g = m * d + (e + g) /\ e + g \in Nat /\ v + g \in Nat
    BY <1>1
  <2> QED BY <2>1, <1>1, <1>3, DivIs
<1> QED BY <1>2, <1>3 DEF d, e

\* A set of numbers that is not empty has a least member.
LEMMA LeastOf ==
    ASSUME NEW S, S \subseteq Nat, S # {}
    PROVE  \E x \in S : \A y \in S : x <= y
<1> DEFINE R == {ss \in Nat \X Nat : ss[1] < ss[2]}
<1>1. IsWellFoundedOn(R, Nat)
  BY NatLessThanWellFounded DEF OpToRel
<1> HIDE DEF R
<1>2. PICK x \in S : \A y \in S : ~(<<y, x>> \in R)
  BY <1>1, WFMin
<1>3. ASSUME NEW y \in S PROVE x <= y
  <2>1. x \in Nat /\ y \in Nat
    OBVIOUS
  <2>2. ~(y < x)
    BY <1>2, <2>1 DEF R
  <2> QED BY <2>1, <2>2
<1> QED BY <1>3

\* The walk's accumulator without the walk: the position after i steps, and what is
\* left over, are a quotient and its remainder.
LEMMA OffsetsIs ==
    ASSUME NEW n \in Nat, NEW seed \in Nat, NEW gain \in Nat, NEW modulus \in Nat \ {0},
           seed < modulus, gain <= modulus
    PROVE  \A i \in 0 .. n :
             /\ Offsets(n, seed, gain, modulus)[i].acc = (seed + gain * i) % modulus
             /\ Offsets(n, seed, gain, modulus)[i].off = (seed + gain * i) \div modulus
<1> DEFINE step(f, i) ==
             IF i = 0 THEN [acc |-> seed, off |-> 0]
             ELSE LET acc == f[i - 1].acc + gain
                  IN  IF acc >= modulus THEN [acc |-> acc - modulus, off |-> f[i - 1].off + 1]
                                        ELSE [acc |-> acc, off |-> f[i - 1].off]
           closed == [i \in 0 .. n |-> [acc |-> (seed + gain * i) % modulus,
                                        off |-> (seed + gain * i) \div modulus]]
           t == Offsets(n, seed, gain, modulus)
<1>1. t = CHOOSE f : f = [i \in 0 .. n |-> step(f, i)]
  BY DEF Offsets
<1>2. \A i \in 0 .. n : closed[i] = step(closed, i)
  <2> SUFFICES ASSUME NEW i \in 0 .. n PROVE closed[i] = step(closed, i)
    OBVIOUS
  <2>1. CASE i = 0
    <3>1. seed + gain * 0 = seed
      OBVIOUS
    <3>2. seed % modulus = seed /\ seed \div modulus = 0
      <4>1. seed = modulus * 0 + seed
        OBVIOUS
      <4> QED BY <4>1, DivIs
    <3> QED BY <2>1, <3>1, <3>2
  <2>2. CASE i # 0
    <3> DEFINE v == seed + gain * (i - 1)
    <3>1. i - 1 \in 0 .. n /\ v \in Nat /\ v + gain = seed + gain * i
      <4>1. i - 1 \in Nat /\ gain * (i - 1) \in Nat /\ gain * i = gain * (i - 1) + gain
        BY <2>2
      <4> QED BY <2>2, <4>1
    <3>2. /\ closed[i - 1] = [acc |-> v % modulus, off |-> v \div modulus]
          /\ closed[i] = [acc |-> (v + gain) % modulus, off |-> (v + gain) \div modulus]
      BY <3>1
    <3> HIDE DEF v, closed
    <3>3. LET acc == (v % modulus) + gain IN
          /\ acc >= modulus => (v + gain) % modulus = acc - modulus /\ (v + gain) \div modulus = (v \div modulus) + 1
          /\ acc < modulus  => (v + gain) % modulus = acc /\ (v + gain) \div modulus = v \div modulus
      BY <3>1, Carry
    <3>4. (v % modulus) + gain \in Nat
      BY <3>1, DivDef
    <3> QED BY <2>2, <3>2, <3>3, <3>4
  <2> QED BY <2>1, <2>2
<1>3. closed = [i \in 0 .. n |-> step(closed, i)]
  <2>1. closed = [i \in 0 .. n |-> closed[i]]
    OBVIOUS
  <2> HIDE DEF closed, step
  <2> QED BY <2>1, <1>2
<1>4. t = [i \in 0 .. n |-> step(t, i)]
  <2> HIDE DEF closed, t, step
  <2> QED BY <1>1, <1>3
<1>5. \A i \in 0 .. n : t[i] = step(t, i)
  <2> HIDE DEF t, step
  <2> QED BY <1>4
<1>6. \A i \in 0 .. n : t[i] = closed[i]
  <2> DEFINE Bad == {i \in 0 .. n : t[i] # closed[i]}
  <2> SUFFICES ASSUME Bad # {} PROVE FALSE
    OBVIOUS
  <2> HIDE DEF t, closed, step
  <2>0. Bad \subseteq Nat
    OBVIOUS
  <2>1. PICK i \in Bad : \A j \in Bad : i <= j
    <3> HIDE DEF Bad
    <3> QED BY <2>0, LeastOf
  <2>2. i \in 0 .. n /\ t[i] # closed[i]
    OBVIOUS
  <2>3. i # 0 => t[i - 1] = closed[i - 1]
    <3> SUFFICES ASSUME i # 0, t[i - 1] # closed[i - 1] PROVE FALSE
      OBVIOUS
    <3>1. i - 1 \in Bad
      BY <2>2
    <3> QED BY <3>1, <2>1, <2>2
  <2>4. step(t, i) = step(closed, i)
    BY <2>2, <2>3 DEF step
  <2> QED BY <2>2, <2>4, <1>2, <1>5
<1>7. \A i \in 0 .. n : closed[i] = [acc |-> (seed + gain * i) % modulus,
                                    off |-> (seed + gain * i) \div modulus]
  OBVIOUS
<1> HIDE DEF closed
<1> HIDE DEF t
<1>8. \A i \in 0 .. n : /\ t[i].acc = (seed + gain * i) % modulus
                       /\ t[i].off = (seed + gain * i) \div modulus
  <2> SUFFICES ASSUME NEW i \in 0 .. n
               PROVE  /\ t[i].acc = (seed + gain * i) % modulus
                      /\ t[i].off = (seed + gain * i) \div modulus
    OBVIOUS
  <2> DEFINE a == (seed + gain * i) % modulus
             o == (seed + gain * i) \div modulus
  <2>1. closed[i] = [acc |-> a, off |-> o]
    BY <1>7
  <2> HIDE DEF a, o
  <2>2. t[i].acc = a /\ t[i].off = o
    BY <2>1, <1>6
  <2> QED BY <2>2 DEF a, o
<1> QED BY <1>8 DEF t

-----------------------------------------------------------------------------
(* The line *)

\* Rounding an accumulator that starts half full.
LEMMA RoundedIs ==
    ASSUME NEW n \in Nat \ {0}, NEW a \in 0 .. n, NEW i \in 0 .. n
    PROVE  Rounded(n, a)[i].off = RoundedAt(i, a, n)
<1>1. n \in Nat /\ 2 * a \in Nat /\ 2 * n \in Nat \ {0} /\ n < 2 * n /\ 2 * a <= 2 * n
  OBVIOUS
<1>2. Offsets(n, n, 2 * a, 2 * n)[i].off = (n + (2 * a) * i) \div (2 * n)
  <2> DEFINE g == 2 * a
             m == 2 * n
  <2>1. g \in Nat /\ m \in Nat \ {0} /\ n < m /\ g <= m
    BY <1>1
  <2> HIDE DEF g, m
  <2>2. Offsets(n, n, g, m)[i].off = (n + g * i) \div m
    BY <1>1, <2>1, OffsetsIs
  <2> QED BY <2>2 DEF g, m
<1>3. n + (2 * a) * i = (2 * a * i) + n
  OBVIOUS
<1> QED BY <1>2, <1>3 DEF Rounded, RoundedAt

\* An empty one; what it holds when it is read is what rounding up costs.
LEMMA FlooredIs ==
    ASSUME NEW n \in Nat \ {0}, NEW a \in 0 .. n, NEW i \in 0 .. n, NEW up \in BOOLEAN
    PROVE  Truncated(n, a)[i].off + (IF ~up /\ Truncated(n, a)[i].acc # 0 THEN 1 ELSE 0)
             = FlooredAt(i, up, a, n)
<1> DEFINE v == a * i
           d == v \div n
           e == v % n
<1>1. v \in Nat
  OBVIOUS
<1>2. Truncated(n, a)[i].off = d /\ Truncated(n, a)[i].acc = e
  <2>1. /\ Offsets(n, 0, a, n)[i].off = (0 + a * i) \div n
        /\ Offsets(n, 0, a, n)[i].acc = (0 + a * i) % n
    <3> DEFINE z == 0
    <3>1. z \in Nat /\ a \in Nat /\ n \in Nat \ {0} /\ z < n /\ a <= n
      OBVIOUS
    <3> HIDE DEF z
    <3>2. /\ Offsets(n, z, a, n)[i].off = (z + a * i) \div n
          /\ Offsets(n, z, a, n)[i].acc = (z + a * i) % n
      BY <3>1, OffsetsIs
    <3> QED BY <3>2 DEF z
  <2>2. 0 + a * i = v
    OBVIOUS
  <2> HIDE DEF v
  <2> QED BY <2>1, <2>2 DEF Truncated
<1>3. d \in Nat /\ e \in Nat /\ e < n /\ v = n * d + e
  BY <1>1, DivDef
<1>4. FlooredAt(i, up, a, n) = (v + (IF up THEN 0 ELSE n - 1)) \div n
  BY DEF FlooredAt
<1> HIDE DEF v, d, e
<1>5. CASE up
  <2>1. FlooredAt(i, up, a, n) = d
    BY <1>1, <1>4, <1>5 DEF d
  <2>2. d + 0 = d
    BY <1>3
  <2> QED BY <1>2, <1>5, <2>1, <2>2
<1>6. CASE ~up /\ e = 0
  <2>1. v + (n - 1) = n * d + (n - 1) /\ n - 1 \in Nat /\ n - 1 < n /\ v + (n - 1) \in Nat
    BY <1>1, <1>3, <1>6
  <2>2. (v + (n - 1)) \div n = d
    BY <2>1, <1>3, DivIs
  <2> QED BY <1>2, <1>3, <1>4, <1>6, <2>2
<1>7. CASE ~up /\ e # 0
  <2>1. n * (d + 1) = n * d + n
    BY <1>3
  <2>2. v + (n - 1) = n * (d + 1) + (e - 1) /\ e - 1 \in Nat /\ e - 1 < n /\ v + (n - 1) \in Nat
    BY <1>1, <1>3, <1>7, <2>1
  <2>3. (v + (n - 1)) \div n = d + 1
    BY <2>2, <1>3, DivIs
  <2> QED BY <1>2, <1>3, <1>4, <1>7, <2>3
<1> QED BY <1>5, <1>6, <1>7

\* The line begins where the ship is, ends where it was sent, and stays between.
LEMMA RoundedEnds ==
    ASSUME NEW n \in Nat \ {0}, NEW a \in 0 .. n
    PROVE  /\ RoundedAt(0, a, n) = 0 /\ RoundedAt(n, a, n) = a
           /\ \A i \in 0 .. n : RoundedAt(i, a, n) \in 0 .. a
<1> DEFINE m == 2 * n
<1>0. m \in Nat \ {0} /\ n < m
  OBVIOUS
<1>1. RoundedAt(0, a, n) = 0
  <2>1. 2 * a * 0 + n = m * 0 + n
    OBVIOUS
  <2>2. (2 * a * 0 + n) \div m = 0
    BY <2>1, <1>0, DivIs
  <2> QED BY <2>2 DEF RoundedAt
<1>2. RoundedAt(n, a, n) = a
  <2>1. 2 * a * n + n = m * a + n /\ 2 * a * n + n \in Nat
    OBVIOUS
  <2>2. (2 * a * n + n) \div m = a
    BY <2>1, <1>0, DivIs
  <2> QED BY <2>2 DEF RoundedAt
<1>3. ASSUME NEW i \in 0 .. n PROVE RoundedAt(i, a, n) \in 0 .. a
  <2> DEFINE v == 2 * a * i + n
             d == v \div m
             e == v % m
  <2>1. v \in Nat /\ v <= m * a + n
    <3>1. a * i \in Nat /\ a * i <= a * n
      BY MulMono
    <3>2. v = 2 * (a * i) + n /\ m * a = 2 * (a * n)
      OBVIOUS
    <3> QED BY <3>1, <3>2
  <2>2. d \in Nat /\ e \in Nat /\ v = m * d + e
    BY <2>1, <1>0, DivDef
  <2>3. RoundedAt(i, a, n) = d
    BY DEF RoundedAt
  <2> HIDE DEF m, v, d, e
  <2>4. d <= a
    <3> SUFFICES ASSUME a + 1 <= d PROVE FALSE
      BY <2>2
    <3>1. m * (a + 1) <= m * d /\ m * (a + 1) = m * a + m
      BY <1>0, <2>2, MulMono
    <3> QED BY <3>1, <2>1, <2>2, <1>0
  <2> QED BY <2>2, <2>3, <2>4
<1> QED BY <1>1, <1>2, <1>3

\* No step short of the last is billed more than the whole; along the longer leg
\* every step is billed one cell.
LEMMA FlooredBounds ==
    ASSUME NEW n \in Nat \ {0}, NEW a \in 0 .. n, NEW i \in 0 .. n - 1, NEW up \in BOOLEAN
    PROVE  FlooredAt(i, up, a, n) \in 0 .. a /\ FlooredAt(i, up, n, n) = i
<1> DEFINE r == IF up THEN 0 ELSE n - 1
<1>1. r \in 0 .. n - 1
  OBVIOUS
<1> HIDE DEF r
<1>2. FlooredAt(i, up, n, n) = i
  <2>1. n * i + r \in Nat
    BY <1>1
  <2>2. (n * i + r) \div n = i
    BY <2>1, <1>1, DivIs
  <2> QED BY <2>2 DEF FlooredAt, r
<1>3. FlooredAt(i, up, a, n) \in 0 .. a
  <2> DEFINE v == a * i + r
             d == v \div n
             e == v % n
  <2>1. v \in Nat /\ v <= a * (n - 1) + (n - 1)
    <3>1. a * i \in Nat /\ a * i <= a * (n - 1)
      BY MulMono
    <3>2. a * (n - 1) \in Nat
      OBVIOUS
    <3> QED BY <3>1, <3>2, <1>1
  <2>2. d \in Nat /\ e \in Nat /\ v = n * d + e
    BY <2>1, DivDef
  <2>3. FlooredAt(i, up, a, n) = d
    BY DEF FlooredAt, r
  <2> HIDE DEF v, d, e
  <2>4. d <= a
    <3> SUFFICES ASSUME a + 1 <= d PROVE FALSE
      BY <2>2
    <3>1. n * (a + 1) <= n * d
      BY <2>2, MulMono
    <3>2. n * (a + 1) = a * (n - 1) + (n - 1) + a + 1
      OBVIOUS
    <3>3. n * d \in Int /\ n * (a + 1) \in Int /\ a * (n - 1) \in Int
      BY <2>2
    <3> QED BY <3>1, <3>2, <3>3, <2>1, <2>2
  <2> QED BY <2>2, <2>3, <2>4
<1> QED BY <1>2, <1>3

-----------------------------------------------------------------------------
(* The walk *)

\* A cell of the galaxy and its quadrant, and back.
LEMMA CoordsAre ==
    /\ \A q \in Quads : q[1] \in 0 .. GAL_DIM - 1 /\ q[2] \in 0 .. GAL_DIM - 1 /\ q = <<q[1], q[2]>>
    /\ \A c \in Cells : c[1] \in 0 .. QUAD_DIM - 1 /\ c[2] \in 0 .. QUAD_DIM - 1 /\ c = <<c[1], c[2]>>
    /\ \A i, j \in 0 .. QUAD_DIM - 1 : <<i, j>> \in Cells
    /\ \A i, j \in 0 .. GAL_DIM - 1 : <<i, j>> \in Quads
BY DEF Quads, Cells, Coords

\* A cell's quadrant and its place there are read back from its number.
LEMMA AbsoluteIs ==
    ASSUME NEW q \in Quads, NEW c \in Cells
    PROVE  /\ Absolute(q, c) \in [1 .. 2 -> Nat]
           /\ \A k \in 1 .. 2 : /\ Absolute(q, c)[k] \div QUAD_DIM = q[k]
                                /\ Absolute(q, c)[k] % QUAD_DIM = c[k]
           /\ Local(Absolute(q, c)) = c
<1>0. QUAD_DIM \in Nat \ {0} /\ GAL_DIM \in Nat \ {0}
  BY SectorsAssumption DEF SectorsAssumption
<1>1. ASSUME NEW k \in 1 .. 2
      PROVE  /\ Absolute(q, c)[k] = QUAD_DIM * q[k] + c[k]
             /\ Absolute(q, c)[k] \in Nat
             /\ Absolute(q, c)[k] \div QUAD_DIM = q[k] /\ Absolute(q, c)[k] % QUAD_DIM = c[k]
  <2>1. q[k] \in Nat /\ c[k] \in Nat /\ c[k] < QUAD_DIM
    BY <1>0, <1>1, CoordsAre
  <2> DEFINE x == q[k]
             y == c[k]
  <2>2. Absolute(q, c)[k] = QUAD_DIM * x + y
    BY DEF Absolute
  <2> HIDE DEF x, y
  <2>3. x \in Nat /\ y \in Nat /\ y < QUAD_DIM
    BY <2>1 DEF x, y
  <2>4. QUAD_DIM * x + y \in Nat
    BY <2>3, <1>0
  <2>5. (QUAD_DIM * x + y) \div QUAD_DIM = x /\ (QUAD_DIM * x + y) % QUAD_DIM = y
    BY <2>3, <2>4, <1>0, DivIs
  <2> QED BY <2>2, <2>4, <2>5 DEF x, y
<1>2. Absolute(q, c) = [k \in 1 .. 2 |-> Absolute(q, c)[k]]
  BY DEF Absolute
<1>3. Absolute(q, c) \in [1 .. 2 -> Nat]
  BY <1>1, <1>2
<1>4. Local(Absolute(q, c)) = c
  <2>1. Absolute(q, c)[1] % QUAD_DIM = c[1] /\ Absolute(q, c)[2] % QUAD_DIM = c[2]
    BY <1>1
  <2>2. c = <<c[1], c[2]>>
    BY CoordsAre
  <2> QED BY <2>1, <2>2, Zenon DEF Local
<1> QED BY <1>1, <1>3, <1>4

\* Whatever number, its place is a cell.
LEMMA LocalIs ==
    ASSUME NEW a \in [1 .. 2 -> Nat]
    PROVE  Local(a) \in Cells
<1>1. QUAD_DIM \in Nat \ {0}
  BY SectorsAssumption DEF SectorsAssumption
<1>2. a[1] \in Nat /\ a[2] \in Nat
  OBVIOUS
<1>3. a[1] % QUAD_DIM \in 0 .. QUAD_DIM - 1 /\ a[2] % QUAD_DIM \in 0 .. QUAD_DIM - 1
  BY <1>1, <1>2, DivDef
<1> QED BY <1>3, CoordsAre DEF Local

\* The legs of a trip, and their longer one.
LEMMA LegIs ==
    ASSUME NEW from \in [1 .. 2 -> Nat], NEW to \in [1 .. 2 -> Nat], to # from
    PROVE  LET leg == Leg(from, to)
               n   == Steps(leg)
           IN  /\ leg \in [1 .. 2 -> Nat] /\ n \in Nat \ {0}
               /\ \A k \in 1 .. 2 :
                    /\ leg[k] \in 0 .. n
                    /\ to[k] = IF to[k] >= from[k] THEN from[k] + leg[k] ELSE from[k] - leg[k]
               /\ \E k \in 1 .. 2 : leg[k] = n
<1> DEFINE leg == Leg(from, to)
           n   == Steps(leg)
<1>1. /\ leg[1] = Away(from[1], to[1]) /\ leg[2] = Away(from[2], to[2])
      /\ leg = [k \in 1 .. 2 |-> Away(from[k], to[k])]
  BY DEF Leg
<1>2. /\ from[1] \in Nat /\ from[2] \in Nat /\ to[1] \in Nat /\ to[2] \in Nat
      /\ from = [k \in 1 .. 2 |-> from[k]] /\ to = [k \in 1 .. 2 |-> to[k]]
  OBVIOUS
<1>3. ASSUME NEW k \in 1 .. 2
      PROVE  /\ Away(from[k], to[k]) \in Nat /\ leg[k] = Away(from[k], to[k])
             /\ to[k] = IF to[k] >= from[k] THEN from[k] + leg[k] ELSE from[k] - leg[k]
             /\ (to[k] # from[k] => leg[k] # 0)
  BY <1>1, <1>2 DEF Away
<1>4. leg \in [1 .. 2 -> Nat]
  <2> HIDE DEF leg
  <2> QED BY <1>1, <1>3
<1>5. leg[1] # 0 \/ leg[2] # 0
  <2>1. \E k \in 1 .. 2 : to[k] # from[k]
    BY <1>2
  <2>2. \A k \in 1 .. 2 : k = 1 \/ k = 2
    OBVIOUS
  <2> QED BY <2>1, <2>2, <1>3
<1>6. leg[1] \in Nat /\ leg[2] \in Nat
  BY <1>3
<1>7. n = IF leg[1] > leg[2] THEN leg[1] ELSE leg[2]
  BY DEF Steps
<1> HIDE DEF leg, n
<1>8. n \in Nat \ {0} /\ (n = leg[1] \/ n = leg[2]) /\ leg[1] \in 0 .. n /\ leg[2] \in 0 .. n
  BY <1>5, <1>6, <1>7
<1>9. \A k \in 1 .. 2 : leg[k] \in 0 .. n
  BY <1>8
<1>10. \E k \in 1 .. 2 : leg[k] = n
  BY <1>8
<1> QED BY <1>3, <1>4, <1>8, <1>9, <1>10 DEF leg, n

\* Where the i-th step is: on the map's numbers, at the origin first, at the end last.
LEMMA OnIs ==
    ASSUME quad \in Quads, cell \in Cells, NEW to \in Absolutes, to # Origin
    PROVE  /\ to \in [1 .. 2 -> Nat] /\ Origin \in [1 .. 2 -> Nat] /\ LegTo(to) \in [1 .. 2 -> Nat]
           /\ StepsTo(to) \in Nat \ {0}
           /\ \A k \in 1 .. 2 : LegTo(to)[k] \in 0 .. StepsTo(to)
           /\ \E k \in 1 .. 2 : LegTo(to)[k] = StepsTo(to)
           /\ \A i \in 0 .. StepsTo(to) : On(to, i) \in [1 .. 2 -> Nat]
           /\ On(to, 0) = Origin /\ On(to, StepsTo(to)) = to
<1> DEFINE leg == LegTo(to)
           n == StepsTo(to)
<1>1. Origin \in [1 .. 2 -> Nat]
  BY AbsoluteIs DEF Origin
<1>2. to \in [1 .. 2 -> Nat]
  BY AbsoluteIs DEF Absolutes
<1>3. /\ leg \in [1 .. 2 -> Nat] /\ n \in Nat \ {0}
      /\ \A k \in 1 .. 2 :
           /\ leg[k] \in 0 .. n
           /\ to[k] = IF to[k] >= Origin[k] THEN Origin[k] + leg[k] ELSE Origin[k] - leg[k]
      /\ \E k \in 1 .. 2 : leg[k] = n
  BY <1>1, <1>2, LegIs DEF LegTo, StepsTo
<1>4. \A i : On(to, i) = [k \in 1 .. 2 |-> IF to[k] >= Origin[k]
                                           THEN Origin[k] + RoundedAt(i, leg[k], n)
                                           ELSE Origin[k] - RoundedAt(i, leg[k], n)]
  BY DEF On, LegTo, StepsTo
<1> HIDE DEF leg, n
<1>5. ASSUME NEW k \in 1 .. 2
      PROVE  /\ RoundedAt(0, leg[k], n) = 0 /\ RoundedAt(n, leg[k], n) = leg[k]
             /\ \A i \in 0 .. n : RoundedAt(i, leg[k], n) \in 0 .. leg[k]
  BY <1>3, RoundedEnds
<1>6. ASSUME NEW i \in 0 .. n PROVE On(to, i) \in [1 .. 2 -> Nat]
  <2>1. ASSUME NEW k \in 1 .. 2
        PROVE (IF to[k] >= Origin[k] THEN Origin[k] + RoundedAt(i, leg[k], n)
               ELSE Origin[k] - RoundedAt(i, leg[k], n)) \in Nat
    <3> DEFINE x == RoundedAt(i, leg[k], n)
    <3>1. x \in 0 .. leg[k] /\ Origin[k] \in Nat /\ to[k] \in Nat /\ leg[k] \in Nat
      BY <1>1, <1>2, <1>3, <1>5
    <3>2. to[k] = IF to[k] >= Origin[k] THEN Origin[k] + leg[k] ELSE Origin[k] - leg[k]
      BY <1>3
    <3> HIDE DEF x
    <3>3. (IF to[k] >= Origin[k] THEN Origin[k] + x ELSE Origin[k] - x) \in Nat
      BY <3>1, <3>2
    <3> QED BY <3>3 DEF x
  <2> QED BY <1>4, <2>1
<1>7. On(to, 0) = Origin
  <2>1. ASSUME NEW k \in 1 .. 2
        PROVE (IF to[k] >= Origin[k] THEN Origin[k] + RoundedAt(0, leg[k], n)
               ELSE Origin[k] - RoundedAt(0, leg[k], n)) = Origin[k]
    <3>1. RoundedAt(0, leg[k], n) = 0 /\ Origin[k] \in Nat
      BY <1>1, <1>5
    <3> QED BY <3>1
  <2>2. Origin = [k \in 1 .. 2 |-> Origin[k]]
    BY <1>1
  <2>3. On(to, 0) = [k \in 1 .. 2 |-> Origin[k]]
    BY <1>4, <2>1
  <2> QED BY <2>2, <2>3
<1>8. On(to, n) = to
  <2>1. ASSUME NEW k \in 1 .. 2
        PROVE (IF to[k] >= Origin[k] THEN Origin[k] + RoundedAt(n, leg[k], n)
               ELSE Origin[k] - RoundedAt(n, leg[k], n)) = to[k]
    <3>1. RoundedAt(n, leg[k], n) = leg[k]
      BY <1>5
    <3>2. to[k] = IF to[k] >= Origin[k] THEN Origin[k] + leg[k] ELSE Origin[k] - leg[k]
      BY <1>3
    <3> QED BY <3>1, <3>2
  <2>2. to = [k \in 1 .. 2 |-> to[k]]
    BY <1>2
  <2>3. On(to, n) = [k \in 1 .. 2 |-> to[k]]
    BY <1>4, <2>1
  <2> QED BY <2>2, <2>3
<1> QED BY <1>1, <1>2, <1>3, <1>6, <1>7, <1>8 DEF leg, n

\* What the walk comes to: the whole way, or the first cell that is not free.
Came(to, w) ==
    LET n == StepsTo(to) IN
    \/ /\ \A j \in 1 .. n : FreeAt(to, j)
       /\ w = [how |-> "clear", at |-> to, billed |-> LegTo(to)]
    \/ \E i \in 1 .. n :
        /\ \A j \in 1 .. i - 1 : FreeAt(to, j)
        /\ \/ ~Here(On(to, i)) /\ w = [how |-> "clear", at |-> On(to, i - 1), billed |-> LegTo(to)]
           \/ /\ Here(On(to, i)) /\ sector[Local(On(to, i))] = "hole"
              /\ w = [how |-> "hole", at |-> On(to, i), billed |-> Cost(to, i - 1)]
           \/ /\ Here(On(to, i)) /\ sector[Local(On(to, i))] \notin {"empty", "hole"}
              /\ w = [how |-> "blocked", at |-> On(to, i - 1), billed |-> Cost(to, i - 1)]

\* The walk of the code comes to just that.
LEMMA WalkIs ==
    ASSUME quad \in Quads, cell \in Cells, NEW to \in Absolutes, to # Origin
    PROVE  Came(to, Walk(to))
<1> DEFINE from == Absolute(quad, cell)
           leg  == Leg(from, to)
           n    == Steps(leg)
           r    == [k \in 1 .. 2 |-> Rounded(n, leg[k])]
           t    == [k \in 1 .. 2 |-> Truncated(n, leg[k])]
           At(i) == [k \in 1 .. 2 |-> IF to[k] >= from[k] THEN from[k] + r[k][i].off
                                                         ELSE from[k] - r[k][i].off]
           Billed(i) == [k \in 1 .. 2 |->
                            t[k][i].off + IF to[k] < from[k] /\ t[k][i].acc # 0 THEN 1 ELSE 0]
           ends == {i \in 1 .. n : ~Here(At(i)) \/ sector[Local(At(i))] # "empty"}
           end  == CHOOSE i \in ends : \A j \in ends : i <= j
           w == Walk(to)
<1>1. w = IF ends = {} THEN [how |-> "clear", at |-> to, billed |-> leg]
          ELSE IF ~Here(At(end)) THEN [how |-> "clear", at |-> At(end - 1), billed |-> leg]
          ELSE IF sector[Local(At(end))] = "hole"
          THEN [how |-> "hole", at |-> At(end), billed |-> Billed(end - 1)]
          ELSE [how |-> "blocked", at |-> At(end - 1), billed |-> Billed(end - 1)]
  BY DEF Walk
<1>2. from = Origin /\ leg = LegTo(to) /\ n = StepsTo(to)
  BY DEF Origin, LegTo, StepsTo
<1>3. /\ to \in [1 .. 2 -> Nat] /\ from \in [1 .. 2 -> Nat] /\ leg \in [1 .. 2 -> Nat]
      /\ n \in Nat \ {0} /\ \A k \in 1 .. 2 : leg[k] \in 0 .. n
  BY <1>2, OnIs, Zenon
<1> HIDE DEF from, leg, n
<1>4. ASSUME NEW i \in 0 .. n PROVE At(i) = On(to, i)
  <2>1. \A k \in 1 .. 2 : r[k][i].off = RoundedAt(i, leg[k], n)
    BY <1>3, RoundedIs
  <2>2. On(to, i) = [k \in 1 .. 2 |-> IF to[k] >= from[k] THEN from[k] + RoundedAt(i, leg[k], n)
                                                         ELSE from[k] - RoundedAt(i, leg[k], n)]
    BY <1>2 DEF On, LegTo, StepsTo
  <2> HIDE DEF r
  <2> QED BY <2>1, <2>2
<1>5. ASSUME NEW i \in 0 .. n PROVE Billed(i) = Cost(to, i)
  <2>1. ASSUME NEW k \in 1 .. 2
        PROVE t[k][i].off + (IF to[k] < from[k] /\ t[k][i].acc # 0 THEN 1 ELSE 0)
                = FlooredAt(i, to[k] >= from[k], leg[k], n)
    <3> DEFINE up == to[k] >= from[k]
    <3>1. up \in BOOLEAN /\ leg[k] \in 0 .. n /\ t[k] = Truncated(n, leg[k])
      BY <1>3
    <3>2. to[k] < from[k] <=> ~up
      BY <1>3
    <3> HIDE DEF up, t
    <3>3. t[k][i].off + (IF ~up /\ t[k][i].acc # 0 THEN 1 ELSE 0) = FlooredAt(i, up, leg[k], n)
      BY <1>3, <3>1, FlooredIs
    <3>4. t[k][i].off + (IF to[k] < from[k] /\ t[k][i].acc # 0 THEN 1 ELSE 0)
            = FlooredAt(i, up, leg[k], n)
      BY <3>2, <3>3
    <3> QED BY <3>4 DEF up
  <2>2. Cost(to, i) = [k \in 1 .. 2 |-> FlooredAt(i, to[k] >= from[k], leg[k], n)]
    BY <1>2 DEF Cost, LegTo, StepsTo
  <2> HIDE DEF t
  <2> QED BY <2>1, <2>2
<1>6. ends \subseteq Nat /\ \A i \in 1 .. n : i \in ends <=> ~FreeAt(to, i)
  <2>1. ends \subseteq Nat
    BY <1>3
  <2>2. ASSUME NEW i \in 1 .. n PROVE i \in ends <=> ~FreeAt(to, i)
    <3>1. At(i) = On(to, i)
      BY <1>3, <1>4
    <3>2. i \in ends <=> (~Here(At(i)) \/ sector[Local(At(i))] # "empty")
      OBVIOUS
    <3> HIDE DEF ends, At
    <3> QED BY <3>1, <3>2 DEF FreeAt
  <2> QED BY <2>1, <2>2
<1>7. ends \subseteq 1 .. n
  OBVIOUS
<1>8. \A i \in 0 .. n : At(i) = On(to, i) /\ Billed(i) = Cost(to, i)
  BY <1>4, <1>5
<1> HIDE DEF At, Billed, ends, w
<1>9. CASE ends = {}
  <2>1. \A j \in 1 .. n : FreeAt(to, j)
    BY <1>6, <1>9
  <2> QED BY <1>1, <1>2, <1>9, <2>1 DEF Came, w
<1>10. CASE ends # {}
  <2>1. end \in ends /\ \A j \in ends : end <= j
    BY <1>6, <1>10, LeastOf
  <2> HIDE DEF end
  <2>2. end \in 1 .. n /\ end - 1 \in 0 .. n /\ end \in 0 .. n
    BY <1>3, <1>7, <2>1
  <2>3. ASSUME NEW j \in 1 .. end - 1 PROVE FreeAt(to, j)
    <3>1. j \in 1 .. n /\ ~(end <= j)
      BY <1>3, <2>2
    <3> QED BY <1>6, <2>1, <3>1
  <2>4. ~Here(On(to, end)) \/ sector[Local(On(to, end))] # "empty"
    BY <1>6, <2>1, <2>2 DEF FreeAt
  <2>5. At(end) = On(to, end) /\ At(end - 1) = On(to, end - 1) /\ Billed(end - 1) = Cost(to, end - 1)
    BY <1>8, <2>2
  <2>6. \/ ~Here(On(to, end)) /\ w = [how |-> "clear", at |-> On(to, end - 1), billed |-> LegTo(to)]
        \/ /\ Here(On(to, end)) /\ sector[Local(On(to, end))] = "hole"
           /\ w = [how |-> "hole", at |-> On(to, end), billed |-> Cost(to, end - 1)]
        \/ /\ Here(On(to, end)) /\ sector[Local(On(to, end))] \notin {"empty", "hole"}
           /\ w = [how |-> "blocked", at |-> On(to, end - 1), billed |-> Cost(to, end - 1)]
    BY <1>1, <1>2, <1>10, <2>4, <2>5, Zenon
  <2> QED BY <1>2, <2>2, <2>3, <2>6, Zenon DEF Came, w
<1> QED BY <1>9, <1>10

\* What is billed never exceeds what was asked for, and nothing is billed before the
\* first step.
LEMMA CostIs ==
    ASSUME quad \in Quads, cell \in Cells, NEW to \in Absolutes, to # Origin,
           NEW i \in 1 .. StepsTo(to)
    PROVE  /\ \A k \in 1 .. 2 : Cost(to, i - 1)[k] \in 0 .. LegTo(to)[k]
           /\ Cost(to, i - 1) = <<0, 0>> => i = 1
<1> DEFINE leg == LegTo(to)
           n == StepsTo(to)
           up(k) == to[k] >= Origin[k]
           c == Cost(to, i - 1)
<1>1. /\ n \in Nat \ {0} /\ i - 1 \in 0 .. n - 1
      /\ \A k \in 1 .. 2 : leg[k] \in 0 .. n
      /\ \E k \in 1 .. 2 : leg[k] = n
  <2>1. n \in Nat \ {0} /\ (\A k \in 1 .. 2 : leg[k] \in 0 .. n) /\ \E k \in 1 .. 2 : leg[k] = n
    BY OnIs, Zenon
  <2>2. i \in 1 .. n
    OBVIOUS
  <2> HIDE DEF leg, n
  <2> QED BY <2>1, <2>2
<1>2. \A k \in 1 .. 2 : c[k] = FlooredAt(i - 1, up(k), leg[k], n)
  BY DEF Cost, LegTo, StepsTo
<1>3. \A k \in 1 .. 2 : up(k) \in BOOLEAN
  OBVIOUS
<1> HIDE DEF leg, n, up, c
<1>4. ASSUME NEW k \in 1 .. 2
      PROVE  /\ c[k] \in 0 .. leg[k]
             /\ leg[k] = n => c[k] = i - 1
  <2> DEFINE u == up(k)
             l == leg[k]
             m == i - 1
  <2>1. u \in BOOLEAN /\ l \in 0 .. n /\ m \in 0 .. n - 1 /\ n \in Nat \ {0}
    BY <1>1, <1>3
  <2>2. c[k] = FlooredAt(m, u, l, n)
    BY <1>2
  <2> HIDE DEF u, l, m
  <2>3. FlooredAt(m, u, l, n) \in 0 .. l /\ (l = n => FlooredAt(m, u, l, n) = m)
    BY <2>1, FlooredBounds
  <2> QED BY <2>2, <2>3 DEF l, m
<1>5. c = <<0, 0>> => i = 1
  <2>1. PICK k \in 1 .. 2 : leg[k] = n
    BY <1>1
  <2>2. c[k] = i - 1
    BY <1>4, <2>1
  <2>3. c = <<0, 0>> => c[k] = 0
    OBVIOUS
  <2> QED BY <1>1, <2>2, <2>3
<1> QED BY <1>4, <1>5 DEF leg, c

\* The line, cell by cell, as its comment defines it.
LEMMA TheLine == quad \in Quads /\ cell \in Cells => MovesOnTheLine
<1> SUFFICES ASSUME quad \in Quads, cell \in Cells, NEW to \in Absolutes, to # Origin
             PROVE
        LET w == Walk(to)
            n == StepsTo(to)
        IN  /\ \A k \in 1 .. 2 : w.billed[k] <= LegTo(to)[k]
            /\ w.how = "clear" =>
                \E i \in 1 .. n : /\ \A j \in 1 .. i - 1 : FreeAt(to, j)
                                  /\ ~Here(On(to, i)) \/ (i = n /\ FreeAt(to, n) /\ w.at = to)
            /\ w.how # "clear" =>
                \E i \in 1 .. n : /\ \A j \in 1 .. i - 1 : FreeAt(to, j)
                                  /\ Here(On(to, i)) /\ ~FreeAt(to, i)
                                  /\ w.billed = Cost(to, i - 1)
                                  /\ (w.how = "hole") = (sector[Local(On(to, i))] = "hole")
                                  /\ w.at = On(to, IF w.how = "hole" THEN i ELSE i - 1)
  BY DEF MovesOnTheLine
<1> DEFINE w == Walk(to)
           n == StepsTo(to)
<1>3. Came(to, w)
  BY WalkIs
<1>4. n \in Nat \ {0} /\ LegTo(to) \in [1 .. 2 -> Nat]
  BY OnIs
<1> HIDE DEF w, n
<1>5. \A k \in 1 .. 2 : w.billed[k] <= LegTo(to)[k]
  <2>1. CASE w.billed = LegTo(to)
    BY <1>4, <2>1
  <2>2. CASE \E i \in 1 .. n : w.billed = Cost(to, i - 1)
    <3>1. PICK i \in 1 .. n : w.billed = Cost(to, i - 1)
      BY <2>2
    <3>2. \A k \in 1 .. 2 : Cost(to, i - 1)[k] \in 0 .. LegTo(to)[k]
      BY <3>1, CostIs DEF n
    <3> QED BY <1>4, <3>1, <3>2
  <2> QED BY <1>3, <2>1, <2>2 DEF Came, n
<1>6. w.how = "clear" =>
        \E i \in 1 .. n : /\ \A j \in 1 .. i - 1 : FreeAt(to, j)
                          /\ ~Here(On(to, i)) \/ (i = n /\ FreeAt(to, n) /\ w.at = to)
  <2> SUFFICES ASSUME w.how = "clear"
               PROVE  \E i \in 1 .. n : /\ \A j \in 1 .. i - 1 : FreeAt(to, j)
                                        /\ ~Here(On(to, i)) \/ (i = n /\ FreeAt(to, n) /\ w.at = to)
    OBVIOUS
  <2>1. CASE (\A j \in 1 .. n : FreeAt(to, j)) /\ w.at = to
    <3>1. n \in 1 .. n /\ \A j \in 1 .. n - 1 : j \in 1 .. n
      BY <1>4
    <3> QED BY <2>1, <3>1
  <2>2. CASE \E i \in 1 .. n : (\A j \in 1 .. i - 1 : FreeAt(to, j)) /\ ~Here(On(to, i))
    BY <2>2
  <2> QED BY <1>3, <2>1, <2>2 DEF Came, n
<1>7. w.how # "clear" =>
        \E i \in 1 .. n : /\ \A j \in 1 .. i - 1 : FreeAt(to, j)
                          /\ Here(On(to, i)) /\ ~FreeAt(to, i)
                          /\ w.billed = Cost(to, i - 1)
                          /\ (w.how = "hole") = (sector[Local(On(to, i))] = "hole")
                          /\ w.at = On(to, IF w.how = "hole" THEN i ELSE i - 1)
  <2> SUFFICES ASSUME w.how # "clear"
               PROVE  \E i \in 1 .. n : /\ \A j \in 1 .. i - 1 : FreeAt(to, j)
                          /\ Here(On(to, i)) /\ ~FreeAt(to, i)
                          /\ w.billed = Cost(to, i - 1)
                          /\ (w.how = "hole") = (sector[Local(On(to, i))] = "hole")
                          /\ w.at = On(to, IF w.how = "hole" THEN i ELSE i - 1)
    OBVIOUS
  <2>1. PICK i \in 1 .. n :
          /\ \A j \in 1 .. i - 1 : FreeAt(to, j)
          /\ Here(On(to, i)) /\ sector[Local(On(to, i))] # "empty"
          /\ w.billed = Cost(to, i - 1)
          /\ \/ sector[Local(On(to, i))] = "hole" /\ w.how = "hole" /\ w.at = On(to, i)
             \/ sector[Local(On(to, i))] # "hole" /\ w.how = "blocked" /\ w.at = On(to, i - 1)
    BY <1>3 DEF Came, n
  <2>2. /\ (w.how = "hole") = (sector[Local(On(to, i))] = "hole")
        /\ w.at = On(to, IF w.how = "hole" THEN i ELSE i - 1)
    BY <2>1
  <2> QED BY <2>1, <2>2 DEF FreeAt
<1> QED BY <1>5, <1>6, <1>7 DEF w, n

-----------------------------------------------------------------------------
(* Counting what lies in the cells *)

Solid == Contents \ {"empty", "ship"}
CountOf(s, things) == Cardinality({k \in DOMAIN s : s[k] \in things})

\* Two sets one function pairs off have as many elements.
LEMMA PairedOff ==
    ASSUME NEW S, NEW T, NEW f \in [S -> T], IsFiniteSet(S),
           \A x, y \in S : f[x] = f[y] => x = y, \A t \in T : \E x \in S : f[x] = t
    PROVE  IsFiniteSet(T) /\ Cardinality(T) = Cardinality(S)
<1>1. f \in Bijection(S, T)
  BY DEF Bijection, Injection, Surjection, IsInjective
<1>2. ExistsBijection(S, T)
  BY <1>1 DEF ExistsBijection
<1> QED BY <1>2, FS_Bijection

\* A quadrant has finitely many cells.
LEMMA CellsFinite == IsFiniteSet(Cells) /\ \A S \in SUBSET Cells : IsFiniteSet(S) /\ Cardinality(S) \in Nat
<1>1. IsFiniteSet(0 .. QUAD_DIM - 1)
  BY SectorsAssumption, FS_Interval DEF SectorsAssumption
<1>2. IsFiniteSet(Cells)
  BY <1>1, FS_Product DEF Cells, Coords
<1>3. ASSUME NEW S \in SUBSET Cells PROVE IsFiniteSet(S) /\ Cardinality(S) \in Nat
  <2>1. IsFiniteSet(S)
    BY <1>2, FS_Subset
  <2> QED BY <2>1, FS_CardinalityType
<1> QED BY <1>2, <1>3

\* A finite set has a subset of every smaller size.
LEMMA SubsetOfSize ==
    ASSUME NEW S, IsFiniteSet(S), NEW m \in Nat, m <= Cardinality(S)
    PROVE  \E s \in SUBSET S : Cardinality(s) = m
<1> DEFINE n == Cardinality(S)
<1>1. n \in Nat /\ ExistsBijection(1 .. n, S)
  BY FS_CardinalityType
<1>2. PICK f \in [1 .. n -> S] : \A x, y \in 1 .. n : f[x] = f[y] => x = y
  BY <1>1 DEF ExistsBijection, Bijection, Injection, IsInjective
<1> HIDE DEF n
<1> DEFINE s == {f[i] : i \in 1 .. m}
           g == [i \in 1 .. m |-> f[i]]
<1>3. 1 .. m \subseteq 1 .. n
  BY <1>1 DEF n
<1>4. s \in SUBSET S
  BY <1>2, <1>3
<1>5. g \in [1 .. m -> s]
  OBVIOUS
<1>6. \A x, y \in 1 .. m : g[x] = g[y] => x = y
  BY <1>2, <1>3
<1>7. \A t \in s : \E x \in 1 .. m : g[x] = t
  OBVIOUS
<1>8. IsFiniteSet(1 .. m) /\ Cardinality(1 .. m) = m
  BY FS_Interval
<1> HIDE DEF s, g
<1>9. Cardinality(s) = m
  BY <1>5, <1>6, <1>7, <1>8, PairedOff
<1> QED BY <1>4, <1>9

\* The cells the ship leaves free, in the order they were drawn.
LEMMA RoomIs ==
    ASSUME NEW c \in Cells, NEW at \in Room[c]
    PROVE  /\ at \in [1 .. MaxThings -> Cells]
           /\ \A i \in 1 .. MaxThings : at[i] # c
           /\ \A i, j \in 1 .. MaxThings : at[i] = at[j] => i = j
<1> DEFINE s == CHOOSE x \in SUBSET (Spots \ {c}) : Cardinality(x) = MaxThings
<1>1. /\ Spots \subseteq Cells /\ Cardinality(Spots) > MaxThings /\ MaxThings \in Nat
  BY SectorsAssumption DEF SectorsAssumption
<1>2. IsFiniteSet(Spots) /\ Cardinality(Spots) \in Nat
  BY <1>1, CellsFinite
<1>3. IsFiniteSet(Spots \ {c}) /\ MaxThings <= Cardinality(Spots \ {c})
  <2>1. /\ IsFiniteSet(Spots \ {c})
        /\ Cardinality(Spots \ {c}) = IF c \in Spots THEN Cardinality(Spots) - 1 ELSE Cardinality(Spots)
    BY <1>2, FS_RemoveElement
  <2> QED BY <1>1, <1>2, <2>1
<1>4. s \in SUBSET (Spots \ {c}) /\ Cardinality(s) = MaxThings
  BY <1>1, <1>3, SubsetOfSize
<1>5. at \in SetToSeqs(s)
  BY DEF Room
<1> HIDE DEF s
<1>6. at \in [1 .. MaxThings -> s] /\ \A i, j \in 1 .. MaxThings : i # j => at[i] # at[j]
  BY <1>4, <1>5 DEF SetToSeqs
<1> QED BY <1>1, <1>4, <1>6

\* What a sequence counts, part by part.
LEMMA CountConcat ==
    \A s, t \in Seq(Solid) :
        /\ s \o t \in Seq(Solid) /\ Len(s \o t) = Len(s) + Len(t)
        /\ \A things : /\ CountOf(s, things) \in Nat /\ CountOf(t, things) \in Nat
                       /\ CountOf(s \o t, things) = CountOf(s, things) + CountOf(t, things)
<1> SUFFICES ASSUME NEW s \in Seq(Solid), NEW t \in Seq(Solid), NEW things
             PROVE  /\ s \o t \in Seq(Solid) /\ Len(s \o t) = Len(s) + Len(t)
                    /\ CountOf(s, things) \in Nat /\ CountOf(t, things) \in Nat
                    /\ CountOf(s \o t, things) = CountOf(s, things) + CountOf(t, things)
  OBVIOUS
<1> DEFINE m == Len(s)
           n == Len(t)
           A == {k \in DOMAIN s : s[k] \in things}
           B == {k \in DOMAIN t : t[k] \in things}
           C == {k \in DOMAIN (s \o t) : (s \o t)[k] \in things}
           D == {k \in (m + 1) .. (m + n) : t[k - m] \in things}
           g == [k \in B |-> k + m]
<1>1. /\ s \o t \in Seq(Solid) /\ Len(s \o t) = m + n
      /\ \A i \in 1 .. m + n : (s \o t)[i] = IF i <= m THEN s[i] ELSE t[i - m]
  BY ConcatProperties
<1>2. m \in Nat /\ n \in Nat /\ DOMAIN s = 1 .. m /\ DOMAIN t = 1 .. n /\ DOMAIN (s \o t) = 1 .. m + n
  BY <1>1
<1> HIDE DEF m, n
<1>3. C = A \cup D /\ A \cap D = {}
  BY <1>1, <1>2
<1>4. A \subseteq 1 .. m /\ B \subseteq 1 .. n
  BY <1>2
<1>5. IsFiniteSet(A) /\ IsFiniteSet(B)
  <2>1. IsFiniteSet(1 .. m) /\ IsFiniteSet(1 .. n)
    BY <1>2, FS_Interval
  <2> HIDE DEF A, B
  <2> QED BY <1>4, <2>1, FS_Subset
<1>6. g \in [B -> D] /\ (\A x, y \in B : g[x] = g[y] => x = y) /\ \A d \in D : \E x \in B : g[x] = d
  <2>1. ASSUME NEW x \in B PROVE g[x] = x + m /\ x + m \in D
    BY <1>2
  <2>2. ASSUME NEW d \in D PROVE d - m \in B /\ g[d - m] = d
    BY <1>2
  <2>3. ASSUME NEW x \in B, NEW y \in B, g[x] = g[y] PROVE x = y
    BY <1>2, <1>4, <2>1, <2>3
  <2>4. g \in [B -> D]
    BY <2>1
  <2> QED BY <2>2, <2>3, <2>4
<1>7. IsFiniteSet(D) /\ Cardinality(D) = Cardinality(B)
  <2> HIDE DEF g, B, D
  <2> QED BY <1>5, <1>6, PairedOff
<1> HIDE DEF A, B, C, D
<1>8. Cardinality(A) \in Nat /\ Cardinality(B) \in Nat /\ Cardinality({}) = 0
  BY <1>5, FS_CardinalityType, FS_EmptySet
<1>9. Cardinality(C) = Cardinality(A) + Cardinality(D) - Cardinality(A \cap D)
  BY <1>3, <1>5, <1>7, FS_Union
<1>10. Cardinality(C) = Cardinality(A) + Cardinality(B)
  <2>1. Cardinality(A \cap D) = 0
    BY <1>3, <1>8
  <2> QED BY <1>7, <1>8, <1>9, <2>1
<1>11. CountOf(s, things) = Cardinality(A) /\ CountOf(t, things) = Cardinality(B)
       /\ CountOf(s \o t, things) = Cardinality(C)
  BY DEF CountOf, A, B, C
<1>12. Len(s \o t) = Len(s) + Len(t)
  BY <1>1 DEF m, n
<1> QED BY <1>1, <1>8, <1>10, <1>11, <1>12

\* Drawn in distinct free cells, everything stands once and the ship alone is in its own.
LEMMA LaidIs ==
    ASSUME NEW c \in Cells, NEW at \in Room[c], NEW s \in Seq(Solid), Len(s) <= MaxThings
    PROVE  /\ Laid(s, at, c) \in [Cells -> Contents]
           /\ {d \in Cells : Laid(s, at, c)[d] = "ship"} = {c}
           /\ \A things \in SUBSET Solid :
                Cardinality({d \in Cells : Laid(s, at, c)[d] \in things}) = CountOf(s, things)
<1> DEFINE L == Laid(s, at, c)
           ks(d) == {k \in DOMAIN s : at[k] = d}
<1>1. /\ \A i \in DOMAIN s : at[i] \in Cells /\ at[i] # c
      /\ \A i, j \in DOMAIN s : at[i] = at[j] => i = j
      /\ \A k \in DOMAIN s : s[k] \in Solid
  <2>1. MaxThings \in Nat /\ Len(s) \in Nat /\ DOMAIN s = 1 .. Len(s)
    BY SectorsAssumption DEF SectorsAssumption
  <2>2. DOMAIN s \subseteq 1 .. MaxThings
    BY <2>1
  <2>3. \A k \in DOMAIN s : s[k] \in Solid
    BY <2>1
  <2> QED BY <2>2, <2>3, RoomIs
<1>2. L = [d \in Cells |-> IF d = c THEN "ship"
                           ELSE IF ks(d) = {} THEN "empty" ELSE s[CHOOSE k \in ks(d) : TRUE]]
  BY DEF Laid
<1> HIDE DEF L
<1>3. ASSUME NEW k \in DOMAIN s PROVE at[k] \in Cells /\ L[at[k]] = s[k]
  <2>1. ks(at[k]) = {k}
    BY <1>1
  <2>2. (CHOOSE j \in ks(at[k]) : TRUE) = k
    BY <2>1
  <2> HIDE DEF ks
  <2>3. ks(at[k]) # {} /\ at[k] \in Cells /\ at[k] # c
    BY <1>1, <2>1
  <2> QED BY <1>2, <2>2, <2>3
<1>4. ASSUME NEW d \in Cells, d # c, \A k \in DOMAIN s : at[k] # d PROVE L[d] = "empty"
  <2>1. ks(d) = {}
    BY <1>4
  <2> HIDE DEF ks
  <2> QED BY <1>2, <1>4, <2>1
<1>5. L[c] = "ship"
  BY <1>2
<1>6. L \in [Cells -> Contents]
  <2>1. ASSUME NEW d \in Cells PROVE L[d] \in Contents
    BY <1>1, <1>3, <1>4, <1>5 DEF Solid, Contents
  <2>2. L = [d \in Cells |-> L[d]]
    BY <1>2
  <2> HIDE DEF ks
  <2> QED BY <2>1, <2>2
<1>7. {d \in Cells : L[d] = "ship"} = {c}
  BY <1>1, <1>3, <1>4, <1>5 DEF Solid
<1>8. ASSUME NEW things \in SUBSET Solid
      PROVE  Cardinality({d \in Cells : L[d] \in things}) = CountOf(s, things)
  <2> DEFINE S == {k \in DOMAIN s : s[k] \in things}
             T == {d \in Cells : L[d] \in things}
             f == [k \in S |-> at[k]]
  <2>1. f \in [S -> T] /\ \A x, y \in S : f[x] = f[y] => x = y
    BY <1>1, <1>3
  <2>2. \A t \in T : \E x \in S : f[x] = t
    <3> SUFFICES ASSUME NEW t \in T PROVE \E x \in S : f[x] = t
      OBVIOUS
    <3>1. L[t] \in things /\ t \in Cells
      OBVIOUS
    <3>2. t # c /\ L[t] # "empty"
      BY <1>5, <3>1 DEF Solid
    <3>3. PICK k \in DOMAIN s : at[k] = t
      BY <1>4, <3>1, <3>2
    <3>4. s[k] \in things
      BY <1>3, <3>1, <3>3
    <3> QED BY <3>3, <3>4
  <2>3. IsFiniteSet(S)
    <3>1. DOMAIN s = 1 .. Len(s) /\ Len(s) \in Nat
      OBVIOUS
    <3>2. IsFiniteSet(1 .. Len(s))
      BY <3>1, FS_Interval
    <3> QED BY <3>1, <3>2, FS_Subset
  <2> HIDE DEF S, T, f
  <2>4. Cardinality(T) = Cardinality(S)
    BY <2>1, <2>2, <2>3, PairedOff
  <2> QED BY <2>4 DEF CountOf, S, T
<1> QED BY <1>6, <1>7, <1>8 DEF L

-----------------------------------------------------------------------------
(* The layout *)

\* A chart of the game: no more of anything than the galaxy began with, and the stars
\* of a quadrant all there unless it has burnt.
Charted(g) ==
    /\ g \in [stars : [Quads -> Nat], star_gone : [Quads -> Nat], enemies : [Quads -> Nat],
              base : SUBSET Bases, nova : SUBSET Quads]
    /\ \A q \in Quads : g.stars[q] <= Stars[q] /\ g.star_gone[q] <= Stars[q]
                        /\ g.enemies[q] <= Ships[q]
    /\ \A q \in Quads \ g.nova : g.stars[q] = Stars[q]

\* A map as the chart has it, with the ship in one cell; one part of it, and the rest.
Shown(m, things) == {d \in Cells : m[d] \in things}
Faithful(m, g, q) ==
    /\ Cardinality(Shown(m, {"star", "nova"})) = g.stars[q]
    /\ Cardinality(Shown(m, {"nova"})) >= g.star_gone[q]
    /\ q \in g.base => Cardinality(Shown(m, {"base"})) = 1
    /\ q \in Worlds => Cardinality(Shown(m, {"planet"})) = 1
    /\ Cardinality(Shown(m, Hostile)) <= g.enemies[q]

\* What is drawn into a quadrant, thing by thing.
LEMMA SolidIs ==
    Solid = {"commander", "enemy", "star", "nova", "base", "planet", "pod", "hole"}
BY DEF Solid, Contents, Hostile

\* One thing or none.
LEMMA IfCounts ==
    ASSUME NEW thing \in Solid, NEW n, NEW s,
           (n = 1 /\ s = <<thing>>) \/ (n = 0 /\ s = <<>>)
    PROVE  /\ s \in Seq(Solid) /\ n \in Nat /\ Len(s) = n
           /\ \A things : CountOf(s, things) = IF thing \in things THEN n ELSE 0
<1>1. CASE n = 1 /\ s = <<thing>>
  <2>1. DOMAIN s = {1} /\ s[1] = thing /\ s \in Seq(Solid) /\ Len(s) = 1
    BY <1>1
  <2>2. ASSUME NEW things PROVE CountOf(s, things) = IF thing \in things THEN n ELSE 0
    <3>1. {k \in DOMAIN s : s[k] \in things} = IF thing \in things THEN {1} ELSE {}
      BY <2>1
    <3> QED BY <1>1, <3>1, FS_Singleton, FS_EmptySet DEF CountOf
  <2> QED BY <1>1, <2>1, <2>2
<1>2. CASE n = 0 /\ s = <<>>
  <2>1. DOMAIN s = {} /\ s \in Seq(Solid) /\ Len(s) = 0
    BY <1>2
  <2>2. ASSUME NEW things PROVE CountOf(s, things) = IF thing \in things THEN n ELSE 0
    <3>1. {k \in DOMAIN s : s[k] \in things} = {}
      BY <2>1
    <3> QED BY <1>2, <3>1, FS_EmptySet DEF CountOf
  <2> QED BY <1>2, <2>1, <2>2
<1> QED BY <1>1, <1>2

\* A run of things of which the first `some` are one kind and the others another.
Run(s, n, some, a, b) ==
    s \in [1 .. n -> Solid] /\ \A i \in 1 .. n : s[i] = IF i <= some THEN a ELSE b

\* What it counts.
LEMMA RunCounts ==
    \A n, some \in Nat, a, b \in Solid : \A s : Run(s, n, some, a, b) =>
        /\ s \in Seq(Solid) /\ Len(s) = n
        /\ \A things :
             /\ a \in things /\ b \in things => CountOf(s, things) = n
             /\ a \notin things /\ b \notin things => CountOf(s, things) = 0
             /\ a \in things /\ some <= n => CountOf(s, things) >= some
<1> SUFFICES ASSUME NEW n \in Nat, NEW some \in Nat, NEW a \in Solid, NEW b \in Solid,
                    NEW s, Run(s, n, some, a, b)
             PROVE  /\ s \in Seq(Solid) /\ Len(s) = n
                    /\ \A things :
                         /\ a \in things /\ b \in things => CountOf(s, things) = n
                         /\ a \notin things /\ b \notin things => CountOf(s, things) = 0
                         /\ a \in things /\ some <= n => CountOf(s, things) >= some
  OBVIOUS
<1>1. /\ s \in [1 .. n -> Solid] /\ DOMAIN s = 1 .. n
      /\ \A i \in 1 .. n : s[i] = IF i <= some THEN a ELSE b
  BY DEF Run
<1>2. s \in Seq(Solid) /\ Len(s) = n
  BY <1>1
<1>3. ASSUME NEW things, a \in things, b \in things PROVE CountOf(s, things) = n
  <2>1. {k \in DOMAIN s : s[k] \in things} = 1 .. n
    BY <1>1, <1>3
  <2>2. Cardinality(1 .. n) = n
    BY FS_Interval
  <2> QED BY <2>1, <2>2 DEF CountOf
<1>4. ASSUME NEW things, a \notin things, b \notin things PROVE CountOf(s, things) = 0
  <2>1. {k \in DOMAIN s : s[k] \in things} = {}
    BY <1>1, <1>4
  <2> QED BY <2>1, FS_EmptySet DEF CountOf
<1>5. ASSUME NEW things, a \in things, some <= n PROVE CountOf(s, things) >= some
  <2> DEFINE S == {k \in DOMAIN s : s[k] \in things}
  <2>1. 1 .. some \in SUBSET S /\ S \subseteq 1 .. n
    BY <1>1, <1>5
  <2>2. IsFiniteSet(1 .. n) /\ Cardinality(1 .. some) = some
    BY FS_Interval
  <2> HIDE DEF S
  <2>3. IsFiniteSet(S)
    BY <2>1, <2>2, FS_Subset
  <2>4. Cardinality(1 .. some) <= Cardinality(S) /\ Cardinality(S) \in Nat
    BY <2>1, <2>3, FS_Subset, FS_CardinalityType
  <2>5. Cardinality(S) >= some
    BY <2>2, <2>4
  <2> QED BY <2>5 DEF CountOf, S
<1> QED BY <1>2, <1>3, <1>4, <1>5

\* What the chart puts into a quadrant fits into it, and is what the chart has.
LEMMA ThingsAre ==
    ASSUME NEW g, Charted(g), NEW q \in Quads, NEW x \in Extras(g, q)
    PROVE  LET s == Things(g, q) \o x IN
           /\ s \in Seq(Solid) /\ Len(s) <= MaxThings
           /\ CountOf(s, {"star", "nova"}) = g.stars[q]
           /\ g.star_gone[q] <= g.stars[q] => CountOf(s, {"nova"}) >= g.star_gone[q]
           /\ CountOf(s, {"base"}) = IF q \in g.base THEN 1 ELSE 0
           /\ CountOf(s, {"planet"}) = IF q \in Worlds THEN 1 ELSE 0
           /\ CountOf(s, Hostile) = g.enemies[q]
<1> DEFINE sts == g.stars[q]
           gon == g.star_gone[q]
           ens == g.enemies[q]
           led == IF q \in Led THEN 1 ELSE 0
           A == [i \in 1 .. g.stars[q] |-> IF i <= g.star_gone[q] THEN "nova" ELSE "star"]
           B == If("base", q \in g.base)
           C == [i \in 1 .. g.enemies[q] |-> IF i = 1 /\ q \in Led THEN "commander" ELSE "enemy"]
           D == If("planet", q \in Worlds)
           nB == IF q \in g.base THEN 1 ELSE 0
           nD == IF q \in Worlds THEN 1 ELSE 0
           pod == q[2] = GAL_DIM - 1 /\ g.enemies[q] < PodMaxShips
<1>1. PICK E \in {<<>>, If("pod", pod)}, H \in {<<>>, <<"hole">>} : x = E \o H
  BY DEF Extras
<1> DEFINE nE == IF E = <<>> THEN 0 ELSE 1
           nH == IF H = <<>> THEN 0 ELSE 1
<1>2. sts \in Nat /\ gon \in Nat /\ ens \in Nat /\ g.base \subseteq Bases
      /\ sts <= Stars[q] /\ gon <= Stars[q] /\ ens <= Ships[q]
  BY DEF Charted
<1>3. Things(g, q) \o x = (((A \o B) \o C) \o D) \o (E \o H)
  BY <1>1 DEF Things
<1>4. {"nova", "star", "commander", "enemy", "base", "planet", "pod", "hole"} \subseteq Solid
  BY SolidIs
<1>5. /\ Run(A, sts, gon, "nova", "star") /\ Run(C, ens, led, "commander", "enemy")
      /\ led \in Nat
  BY <1>2, <1>4 DEF Run
<1>6. /\ (nB = 1 /\ B = <<"base">>) \/ (nB = 0 /\ B = <<>>)
      /\ (nD = 1 /\ D = <<"planet">>) \/ (nD = 0 /\ D = <<>>)
  BY DEF If
<1>7. (E = <<"pod">> /\ pod) \/ E = <<>>
  <2> HIDE DEF pod
  <2> QED BY <1>1 DEF If
<1>8. H = <<"hole">> \/ H = <<>>
  BY <1>1
<1>9. <<"pod">> # <<>> /\ <<"hole">> # <<>>
  OBVIOUS
<1> HIDE DEF A, B, C, D, nB, nD, pod, sts, gon, ens, led
<1>10. /\ (nE = 1 /\ E = <<"pod">> /\ pod) \/ (nE = 0 /\ E = <<>>)
       /\ (nH = 1 /\ H = <<"hole">>) \/ (nH = 0 /\ H = <<>>)
  BY <1>7, <1>8, <1>9
<1> HIDE DEF nE, nH
<1>11. /\ A \in Seq(Solid) /\ Len(A) = sts
       /\ \A things :
            /\ "nova" \in things /\ "star" \in things => CountOf(A, things) = sts
            /\ "nova" \notin things /\ "star" \notin things => CountOf(A, things) = 0
            /\ "nova" \in things /\ gon <= sts => CountOf(A, things) >= gon
  <2>1. "nova" \in Solid /\ "star" \in Solid
    BY <1>4
  <2> QED BY <1>2, <1>5, <2>1, RunCounts, Zenon
<1>12. /\ C \in Seq(Solid) /\ Len(C) = ens
       /\ \A things :
            /\ "commander" \in things /\ "enemy" \in things => CountOf(C, things) = ens
            /\ "commander" \notin things /\ "enemy" \notin things => CountOf(C, things) = 0
  <2>1. /\ "commander" \in Solid /\ "enemy" \in Solid /\ ens \in Nat /\ led \in Nat
        /\ Run(C, ens, led, "commander", "enemy")
    BY <1>2, <1>4, <1>5
  <2>2. /\ C \in Seq(Solid) /\ Len(C) = ens
        /\ \A things :
             /\ "commander" \in things /\ "enemy" \in things => CountOf(C, things) = ens
             /\ "commander" \notin things /\ "enemy" \notin things => CountOf(C, things) = 0
             /\ "commander" \in things /\ led <= ens => CountOf(C, things) >= led
    BY <2>1, RunCounts, Zenon
  <2> QED BY <2>2, Zenon
<1>13. /\ B \in Seq(Solid) /\ nB \in Nat /\ Len(B) = nB
       /\ \A things : CountOf(B, things) = IF "base" \in things THEN nB ELSE 0
  <2>1. "base" \in Solid
    BY <1>4
  <2> QED BY <1>6, <2>1, IfCounts, Zenon
<1>14. /\ D \in Seq(Solid) /\ nD \in Nat /\ Len(D) = nD
       /\ \A things : CountOf(D, things) = IF "planet" \in things THEN nD ELSE 0
  <2>1. "planet" \in Solid
    BY <1>4
  <2> QED BY <1>6, <2>1, IfCounts, Zenon
<1>15. /\ E \in Seq(Solid) /\ nE \in Nat /\ Len(E) = nE
       /\ \A things : CountOf(E, things) = IF "pod" \in things THEN nE ELSE 0
  <2>1. "pod" \in Solid /\ ((nE = 1 /\ E = <<"pod">>) \/ (nE = 0 /\ E = <<>>))
    BY <1>4, <1>10
  <2> QED BY <2>1, IfCounts, Zenon
<1>16. /\ H \in Seq(Solid) /\ nH \in Nat /\ Len(H) = nH
       /\ \A things : CountOf(H, things) = IF "hole" \in things THEN nH ELSE 0
  <2>1. "hole" \in Solid
    BY <1>4
  <2> QED BY <1>10, <2>1, IfCounts, Zenon
<1> DEFINE s == (((A \o B) \o C) \o D) \o (E \o H)
<1>17. /\ s \in Seq(Solid)
       /\ Len(s) = Len(A) + Len(B) + Len(C) + Len(D) + Len(E) + Len(H)
       /\ \A things : CountOf(s, things) = CountOf(A, things) + CountOf(B, things) + CountOf(C, things)
                        + CountOf(D, things) + CountOf(E, things) + CountOf(H, things)
  <2> DEFINE AB == A \o B
             ABC == AB \o C
             ABCD == ABC \o D
             EH == E \o H
  <2>1. /\ AB \in Seq(Solid) /\ Len(AB) = Len(A) + Len(B)
       /\ \A things : /\ CountOf(A, things) \in Nat /\ CountOf(B, things) \in Nat
                      /\ CountOf(AB, things) = CountOf(A, things) + CountOf(B, things)
    BY <1>11, <1>13, CountConcat, Zenon
  <2> HIDE DEF AB
  <2>3. /\ ABC \in Seq(Solid) /\ Len(ABC) = Len(AB) + Len(C)
       /\ \A things : /\ CountOf(AB, things) \in Nat /\ CountOf(C, things) \in Nat
                      /\ CountOf(ABC, things) = CountOf(AB, things) + CountOf(C, things)
    BY <1>12, <2>1, CountConcat, Zenon
  <2> HIDE DEF ABC
  <2>5. /\ ABCD \in Seq(Solid) /\ Len(ABCD) = Len(ABC) + Len(D)
       /\ \A things : /\ CountOf(ABC, things) \in Nat /\ CountOf(D, things) \in Nat
                      /\ CountOf(ABCD, things) = CountOf(ABC, things) + CountOf(D, things)
    BY <1>14, <2>3, CountConcat, Zenon
  <2> HIDE DEF ABCD
  <2>7. /\ EH \in Seq(Solid) /\ Len(EH) = Len(E) + Len(H)
       /\ \A things : /\ CountOf(E, things) \in Nat /\ CountOf(H, things) \in Nat
                      /\ CountOf(EH, things) = CountOf(E, things) + CountOf(H, things)
    BY <1>15, <1>16, CountConcat, Zenon
  <2> HIDE DEF EH
  <2>9. /\ (ABCD \o EH) \in Seq(Solid) /\ Len(ABCD \o EH) = Len(ABCD) + Len(EH)
       /\ \A things : /\ CountOf(ABCD, things) \in Nat /\ CountOf(EH, things) \in Nat
                      /\ CountOf(ABCD \o EH, things) = CountOf(ABCD, things) + CountOf(EH, things)
    BY <2>5, <2>7, CountConcat, Zenon
  <2>10. s = ABCD \o EH
    BY DEF ABCD, ABC, AB, EH
  <2> HIDE DEF s
  <2>11. ASSUME NEW things
         PROVE CountOf(s, things) = CountOf(A, things) + CountOf(B, things) + CountOf(C, things)
                        + CountOf(D, things) + CountOf(E, things) + CountOf(H, things)
    <3>1. /\ CountOf(A, things) \in Nat /\ CountOf(B, things) \in Nat /\ CountOf(C, things) \in Nat
          /\ CountOf(D, things) \in Nat /\ CountOf(E, things) \in Nat /\ CountOf(H, things) \in Nat
          /\ CountOf(AB, things) = CountOf(A, things) + CountOf(B, things)
          /\ CountOf(ABC, things) = CountOf(AB, things) + CountOf(C, things)
          /\ CountOf(ABCD, things) = CountOf(ABC, things) + CountOf(D, things)
          /\ CountOf(EH, things) = CountOf(E, things) + CountOf(H, things)
          /\ CountOf(s, things) = CountOf(ABCD, things) + CountOf(EH, things)
      BY <2>1, <2>3, <2>5, <2>7, <2>9, <2>10, Zenon
    <3> QED BY <3>1
  <2>12. s \in Seq(Solid) /\ Len(s) = Len(ABCD) + Len(EH)
    BY <2>9, <2>10
  <2>13. Len(A) \in Nat /\ Len(B) \in Nat /\ Len(C) \in Nat /\ Len(D) \in Nat /\ Len(E) \in Nat /\ Len(H) \in Nat
    BY <1>11, <1>12, <1>13, <1>14, <1>15, <1>16
  <2> QED BY <2>1, <2>3, <2>5, <2>7, <2>11, <2>12, <2>13
<1>18. Things(g, q) \o x = s
  BY <1>3
<1> HIDE DEF s
<1>19. Len(s) <= MaxThings
  <2>1. /\ Stars[q] \in Nat /\ Ships[q] \in Nat /\ MaxThings \in Nat /\ PodMaxShips \in Nat
        /\ Stars[q] + Ships[q] + Cardinality({q} \cap Bases) + Cardinality({q} \cap Worlds) + 1
             + (IF q[2] = GAL_DIM - 1 /\ Ships[q] < PodMaxShips THEN 1 ELSE 0) <= MaxThings
    BY SectorsAssumption DEF SectorsAssumption
  <2>2. /\ Cardinality({q} \cap Bases) = IF q \in Bases THEN 1 ELSE 0
        /\ Cardinality({q} \cap Worlds) = IF q \in Worlds THEN 1 ELSE 0
    <3>1. /\ {q} \cap Bases = IF q \in Bases THEN {q} ELSE {}
          /\ {q} \cap Worlds = IF q \in Worlds THEN {q} ELSE {}
      OBVIOUS
    <3> QED BY <3>1, FS_Singleton, FS_EmptySet
  <2>3. Len(B) <= Cardinality({q} \cap Bases) /\ Len(B) \in Nat /\ Cardinality({q} \cap Bases) \in Nat
    BY <1>2, <1>13, <2>2 DEF nB
  <2>4. Len(D) = Cardinality({q} \cap Worlds) /\ Len(D) \in Nat
    BY <1>14, <2>2 DEF nD
  <2>5. Len(H) \in Nat /\ Len(H) <= 1
    BY <1>10, <1>16
  <2> DEFINE berth == IF q[2] = GAL_DIM - 1 /\ Ships[q] < PodMaxShips THEN 1 ELSE 0
  <2>6. Len(E) \in Nat /\ berth \in Nat /\ ens + Len(E) <= Ships[q] + berth
    BY <1>2, <1>10, <1>15, <2>1 DEF ens, pod
  <2>7. Len(A) <= Stars[q] /\ Len(A) \in Nat /\ Len(C) = ens /\ ens \in Nat
    BY <1>2, <1>11, <1>12
  <2>8. Stars[q] + Ships[q] + Cardinality({q} \cap Bases) + Cardinality({q} \cap Worlds) + 1
             + berth <= MaxThings
    BY <2>1
  <2> HIDE DEF berth
  <2>9. Len(s) = Len(A) + Len(B) + Len(C) + Len(D) + Len(E) + Len(H)
    BY <1>17
  <2>10. Stars[q] \in Nat /\ Ships[q] \in Nat /\ MaxThings \in Nat
    BY <2>1
  <2> DEFINE nb == Cardinality({q} \cap Bases)
             nw == Cardinality({q} \cap Worlds)
  <2>12. nb \in Nat /\ nw \in Nat /\ Len(B) <= nb /\ Len(D) = nw /\ Stars[q] + Ships[q] + nb + nw + 1 + berth <= MaxThings
    BY <2>3, <2>4, <2>8
  <2> HIDE DEF nb, nw
  <2>13. /\ Len(A) \in Nat /\ Len(B) \in Nat /\ Len(C) \in Nat /\ Len(D) \in Nat /\ Len(E) \in Nat /\ Len(H) \in Nat
         /\ Len(A) <= Stars[q] /\ Len(H) <= 1 /\ Len(C) + Len(E) <= Ships[q] + berth /\ berth \in Nat
    BY <2>3, <2>4, <2>5, <2>6, <2>7
  <2> DEFINE la == Len(A)
             lb == Len(B)
             lc == Len(C)
             ld == Len(D)
             le == Len(E)
             lh == Len(H)
             ss == Stars[q]
             sh == Ships[q]
  <2>14. /\ la \in Nat /\ lb \in Nat /\ lc \in Nat /\ ld \in Nat /\ le \in Nat /\ lh \in Nat
         /\ ss \in Nat /\ sh \in Nat /\ nb \in Nat /\ nw \in Nat /\ berth \in Nat /\ MaxThings \in Nat
         /\ la <= ss /\ lb <= nb /\ lc + le <= sh + berth /\ ld = nw /\ lh <= 1
         /\ ss + sh + nb + nw + 1 + berth <= MaxThings
    BY <2>10, <2>12, <2>13
  <2>15. Len(s) = la + lb + lc + ld + le + lh
    BY <2>9
  <2> HIDE DEF la, lb, lc, ld, le, lh, ss, sh
  <2>16. la + lb + lc + ld + le + lh <= MaxThings
    BY <2>14
  <2> QED BY <2>15, <2>16
<1>20. CountOf(s, {"star", "nova"}) = sts
  <2> DEFINE t == {"star", "nova"}
  <2>1. /\ "star" \in t /\ "nova" \in t /\ "commander" \notin t /\ "enemy" \notin t
        /\ "base" \notin t /\ "planet" \notin t /\ "pod" \notin t /\ "hole" \notin t
    OBVIOUS
  <2> HIDE DEF t
  <2>2. CountOf(A, t) = sts /\ CountOf(C, t) = 0
    BY <1>11, <1>12, <2>1
  <2>3. CountOf(B, t) = 0 /\ CountOf(D, t) = 0 /\ CountOf(E, t) = 0 /\ CountOf(H, t) = 0
    BY <1>13, <1>14, <1>15, <1>16, <2>1
  <2>4. CountOf(s, t) = sts
    BY <1>2, <1>17, <2>2, <2>3
  <2> QED BY <2>4 DEF t
<1>21. gon <= sts => CountOf(s, {"nova"}) >= gon
  <2> DEFINE t == {"nova"}
  <2>1. /\ "nova" \in t /\ "commander" \notin t /\ "enemy" \notin t
        /\ "base" \notin t /\ "planet" \notin t /\ "pod" \notin t /\ "hole" \notin t
    OBVIOUS
  <2> HIDE DEF t
  <2>2. (gon <= sts => CountOf(A, t) >= gon) /\ CountOf(C, t) = 0
    BY <1>11, <1>12, <2>1
  <2>3. CountOf(B, t) = 0 /\ CountOf(D, t) = 0 /\ CountOf(E, t) = 0 /\ CountOf(H, t) = 0
    BY <1>13, <1>14, <1>15, <1>16, <2>1
  <2>4. CountOf(A, t) \in Nat
    BY <1>11, CountConcat, Zenon
  <2>5. gon <= sts => CountOf(s, t) >= gon
    BY <1>2, <1>17, <2>2, <2>3, <2>4
  <2> QED BY <2>5 DEF t
<1>22. CountOf(s, {"base"}) = IF q \in g.base THEN 1 ELSE 0
  <2> DEFINE t == {"base"}
  <2>1. /\ "star" \notin t /\ "nova" \notin t /\ "commander" \notin t /\ "enemy" \notin t
        /\ "base" \in t /\ "planet" \notin t /\ "pod" \notin t /\ "hole" \notin t
    OBVIOUS
  <2> HIDE DEF t
  <2>2. CountOf(A, t) = 0 /\ CountOf(C, t) = 0
    BY <1>11, <1>12, <2>1
  <2>3. /\ CountOf(B, t) = nB
        /\ CountOf(D, t) = 0 /\ CountOf(E, t) = 0 /\ CountOf(H, t) = 0
    BY <1>13, <1>14, <1>15, <1>16, <2>1
  <2>4. CountOf(s, t) = IF q \in g.base THEN 1 ELSE 0
    BY <1>13, <1>17, <2>2, <2>3 DEF nB
  <2> QED BY <2>4 DEF t
<1>23. CountOf(s, {"planet"}) = IF q \in Worlds THEN 1 ELSE 0
  <2> DEFINE t == {"planet"}
  <2>1. /\ "star" \notin t /\ "nova" \notin t /\ "commander" \notin t /\ "enemy" \notin t
        /\ "base" \notin t /\ "planet" \in t /\ "pod" \notin t /\ "hole" \notin t
    OBVIOUS
  <2> HIDE DEF t
  <2>2. CountOf(A, t) = 0 /\ CountOf(C, t) = 0
    BY <1>11, <1>12, <2>1
  <2>3. /\ CountOf(D, t) = nD
        /\ CountOf(B, t) = 0 /\ CountOf(E, t) = 0 /\ CountOf(H, t) = 0
    BY <1>13, <1>14, <1>15, <1>16, <2>1
  <2>4. CountOf(s, t) = IF q \in Worlds THEN 1 ELSE 0
    BY <1>14, <1>17, <2>2, <2>3 DEF nD
  <2> QED BY <2>4 DEF t
<1>24. CountOf(s, Hostile) = ens
  <2>1. /\ "star" \notin Hostile /\ "nova" \notin Hostile /\ "commander" \in Hostile
        /\ "enemy" \in Hostile /\ "base" \notin Hostile /\ "planet" \notin Hostile
        /\ "pod" \notin Hostile /\ "hole" \notin Hostile
    BY DEF Hostile
  <2>2. CountOf(A, Hostile) = 0 /\ CountOf(C, Hostile) = ens
    BY <1>11, <1>12, <2>1
  <2>3. CountOf(B, Hostile) = 0 /\ CountOf(D, Hostile) = 0 /\ CountOf(E, Hostile) = 0
        /\ CountOf(H, Hostile) = 0
    BY <1>13, <1>14, <1>15, <1>16, <2>1
  <2> QED BY <1>2, <1>17, <2>2, <2>3
<1> QED BY <1>17, <1>18, <1>19, <1>20, <1>21, <1>22, <1>23, <1>24, Zenon DEF sts, gon, ens

\* A quadrant entered: the ship in its cell, and the map as the chart has it.
LEMMA LayoutIs ==
    ASSUME NEW g, Charted(g), NEW q \in Quads, NEW c \in Cells, NEW m \in Layouts(g, q, c)
    PROVE  /\ m \in [Cells -> Contents] /\ Shown(m, {"ship"}) = {c}
           /\ q \notin g.nova => Faithful(m, g, q)
<1>1. PICK x \in Extras(g, q), at \in Room[c] : m = Laid(Things(g, q) \o x, at, c)
  BY DEF Layouts
<1> DEFINE s == Things(g, q) \o x
<1>2. /\ s \in Seq(Solid) /\ Len(s) <= MaxThings
      /\ CountOf(s, {"star", "nova"}) = g.stars[q]
      /\ g.star_gone[q] <= g.stars[q] => CountOf(s, {"nova"}) >= g.star_gone[q]
      /\ CountOf(s, {"base"}) = IF q \in g.base THEN 1 ELSE 0
      /\ CountOf(s, {"planet"}) = IF q \in Worlds THEN 1 ELSE 0
      /\ CountOf(s, Hostile) = g.enemies[q]
  BY ThingsAre
<1>3. m = Laid(s, at, c)
  BY <1>1
<1> HIDE DEF s
<1>4. /\ m \in [Cells -> Contents] /\ {d \in Cells : m[d] = "ship"} = {c}
      /\ \A things \in SUBSET Solid : Cardinality(Shown(m, things)) = CountOf(s, things)
  BY <1>2, <1>3, LaidIs DEF Shown
<1>5. Shown(m, {"ship"}) = {c}
  BY <1>4 DEF Shown
<1>6. q \notin g.nova => Faithful(m, g, q)
  <2> SUFFICES ASSUME q \notin g.nova PROVE Faithful(m, g, q)
    OBVIOUS
  <2>1. g.star_gone[q] <= g.stars[q] /\ g.enemies[q] \in Nat
    BY DEF Charted
  <2>2. {{"star", "nova"}, {"nova"}, {"base"}, {"planet"}, Hostile} \subseteq SUBSET Solid
    BY SolidIs DEF Hostile
  <2>3. /\ Cardinality(Shown(m, {"star", "nova"})) = CountOf(s, {"star", "nova"})
        /\ Cardinality(Shown(m, {"nova"})) = CountOf(s, {"nova"})
        /\ Cardinality(Shown(m, {"base"})) = CountOf(s, {"base"})
        /\ Cardinality(Shown(m, {"planet"})) = CountOf(s, {"planet"})
        /\ Cardinality(Shown(m, Hostile)) = CountOf(s, Hostile)
    BY <1>4, <2>2
  <2> QED BY <1>2, <2>1, <2>3 DEF Faithful
<1> QED BY <1>4, <1>5, <1>6

-----------------------------------------------------------------------------
(* The invariant *)

\* The map, the hit points and the ship's cell say the same.
Mapped(m, hp, c) ==
    /\ m \in [Cells -> Contents] /\ hp \in [Cells -> 0 .. MaxHp]
    /\ Shown(m, {"ship"}) = {c}
    /\ \A d \in Cells : hp[d] > 0 <=> m[d] \in Hostile \cup {"pod"}

Moored == docked /\ ~lost => \E b \in Standing({"base"}) : Adjacent(b, cell)

SectorsInv ==
    /\ pc \in {"command", "lasers", "tubes", "events", "pod", "enemy", "over"}
    /\ fired \in {"no", "yes", "thrown"}
    /\ quad \in Quads /\ cell \in Cells /\ docked \in BOOLEAN /\ lost \in BOOLEAN
    /\ Charted(gal)
    /\ Mapped(sector, enemy_hp, cell)
    /\ Moored
    /\ quad \notin gal.nova => Faithful(sector, gal, quad)

\* What moves about, and what does not.
Loose == Hostile \cup {"empty", "ship", "hole", "pod"}

\* A map whose loose things move stays as the chart has it.
LEMMA FaithfulKept ==
    ASSUME NEW m, m \in [Cells -> Contents], NEW m2, m2 \in [Cells -> Contents], NEW g, NEW g2, NEW q,
           Faithful(m, g, q),
           \A d \in Cells : m2[d] = m[d] \/ (m[d] \in Loose /\ m2[d] \in Loose),
           g2.stars[q] = g.stars[q], g2.star_gone[q] = g.star_gone[q], g2.base \subseteq g.base,
           Cardinality(Shown(m2, Hostile)) <= g2.enemies[q]
    PROVE  Faithful(m2, g2, q)
<1>1. Loose = {"commander", "enemy", "empty", "ship", "hole", "pod"}
  BY DEF Loose, Hostile
<1>2. /\ Shown(m2, {"star", "nova"}) = Shown(m, {"star", "nova"})
      /\ Shown(m2, {"nova"}) = Shown(m, {"nova"})
      /\ Shown(m2, {"base"}) = Shown(m, {"base"})
      /\ Shown(m2, {"planet"}) = Shown(m, {"planet"})
  BY <1>1 DEF Shown
<1> QED BY <1>2 DEF Faithful

\* With no more enemies on the map than before, there are no more than the chart counts.
LEMMA FewerHostile ==
    ASSUME NEW m, NEW m2, \A d \in Cells : m2[d] \in Hostile => m[d] \in Hostile
    PROVE  /\ Cardinality(Shown(m2, Hostile)) <= Cardinality(Shown(m, Hostile))
           /\ Cardinality(Shown(m2, Hostile)) \in Nat /\ Cardinality(Shown(m, Hostile)) \in Nat
<1>1. Shown(m2, Hostile) \in SUBSET Shown(m, Hostile) /\ Shown(m, Hostile) \in SUBSET Cells
      /\ Shown(m2, Hostile) \in SUBSET Cells
  BY DEF Shown
<1>2. IsFiniteSet(Shown(m, Hostile))
  BY <1>1, CellsFinite
<1> QED BY <1>1, <1>2, CellsFinite, FS_Subset

\* The galaxy a game starts with is a chart of it.
LEMMA NewGalaxyIs ==
    /\ Charted(NewGalaxy)
    /\ \A g : Charted(g) => Charted([NewGalaxy EXCEPT !.star_gone = g.star_gone])
<1>1. Stars \in [Quads -> Nat] /\ Ships \in [Quads -> Nat] /\ Bases \subseteq Quads
  BY SectorsAssumption DEF SectorsAssumption
<1>2. NewGalaxy = [stars |-> Stars, star_gone |-> [q \in Quads |-> 0],
                   enemies |-> Ships, base |-> Bases, nova |-> {}]
  BY DEF NewGalaxy
<1>3. Charted(NewGalaxy)
  BY <1>1, <1>2 DEF Charted
<1>4. ASSUME NEW g, Charted(g) PROVE Charted([NewGalaxy EXCEPT !.star_gone = g.star_gone])
  <2>1. g.star_gone \in [Quads -> Nat] /\ \A q \in Quads : g.star_gone[q] <= Stars[q]
    BY <1>4 DEF Charted
  <2>2. [NewGalaxy EXCEPT !.star_gone = g.star_gone]
          = [stars |-> Stars, star_gone |-> g.star_gone, enemies |-> Ships, base |-> Bases, nova |-> {}]
    BY <1>2
  <2> QED BY <1>1, <2>1, <2>2 DEF Charted
<1> QED BY <1>3, <1>4

\* A quadrant entered has every enemy and the pod armed, and nothing else.
LEMMA ArmedIs ==
    ASSUME NEW m, NEW c, m \in [Cells -> Contents], Shown(m, {"ship"}) = {c}
    PROVE  Mapped(m, Armed(m), c)
<1>1. MaxHp \in Nat \ {0}
  BY SectorsAssumption DEF SectorsAssumption
<1>2. ASSUME NEW d \in Cells
      PROVE  Armed(m)[d] \in 0 .. MaxHp /\ (Armed(m)[d] > 0 <=> m[d] \in Hostile \cup {"pod"})
  BY <1>1 DEF Armed
<1>3. Armed(m) = [d \in Cells |-> Armed(m)[d]]
  BY DEF Armed
<1> QED BY <1>2, <1>3 DEF Mapped

\* A game starts with it.
LEMMA InitSectors == Init => SectorsInv
<1> SUFFICES ASSUME Init PROVE SectorsInv
  OBVIOUS
<1>1. quad \in Quads /\ cell \in Cells
  BY SectorsAssumption DEF Init, SectorsAssumption
<1>2. gal = NewGalaxy /\ Charted(gal) /\ sector \in Layouts(gal, quad, cell)
  BY NewGalaxyIs DEF Init
<1>3. /\ sector \in [Cells -> Contents] /\ Shown(sector, {"ship"}) = {cell}
      /\ quad \notin gal.nova => Faithful(sector, gal, quad)
  BY <1>1, <1>2, LayoutIs
<1>4. Mapped(sector, enemy_hp, cell)
  BY <1>3, ArmedIs DEF Init
<1> QED BY <1>1, <1>2, <1>3, <1>4 DEF Init, SectorsInv, Moored

\* The quadrant entered.  The chart may have changed elsewhere.
LEMMA EnterKeeps ==
    ASSUME SectorsInv, NEW q \in Quads, NEW c \in Cells, Enter(q, c), Charted(gal)', pc' \in {"command", "lasers", "tubes", "events", "pod", "enemy", "over"},
           fired' \in {"no", "yes", "thrown"}, lost' \in BOOLEAN,
           q \notin gal'.nova => /\ q \notin gal.nova
                                 /\ gal'.stars[q] = gal.stars[q] /\ gal'.star_gone[q] = gal.star_gone[q]
                                 /\ gal'.enemies[q] = gal.enemies[q] /\ gal'.base \subseteq gal.base
    PROVE  SectorsInv'
<1>1. /\ quad' = q /\ cell' = c /\ sector' \in Layouts(gal, q, c)
      /\ enemy_hp' = Armed(sector') /\ docked' = FALSE
  BY DEF Enter
<1>2. Charted(gal)
  BY DEF SectorsInv
<1>3. /\ sector' \in [Cells -> Contents] /\ Shown(sector', {"ship"}) = {c}
      /\ q \notin gal.nova => Faithful(sector', gal, q)
  BY <1>1, <1>2, LayoutIs
<1>4. Mapped(sector', enemy_hp', cell')
  BY <1>1, <1>3, ArmedIs
<1>5. q \notin gal'.nova => Faithful(sector', gal', q)
  BY <1>3 DEF Faithful
<1> QED BY <1>1, <1>4, <1>5 DEF SectorsInv, Moored

-----------------------------------------------------------------------------
(* The ship moves *)

\* A walk ends in a hole, or in a free cell, or where it began.
LEMMA WalkEnds ==
    ASSUME quad \in Quads, cell \in Cells, NEW to \in Absolutes, to # Origin
    PROVE  LET w == Walk(to)
               d == Local(w.at)
           IN  /\ d \in Cells
               /\ \/ w.how = "hole" /\ sector[d] = "hole"
                  \/ /\ w.how \in {"clear", "blocked"}
                     /\ sector[d] = "empty" \/ d = cell
                     /\ w.billed = <<0, 0>> => d = cell
<1> DEFINE w == Walk(to)
           n == StepsTo(to)
<1>1. Came(to, w)
  BY WalkIs
<1>2. /\ n \in Nat \ {0} /\ LegTo(to) # <<0, 0>>
      /\ \A i \in 0 .. n : On(to, i) \in [1 .. 2 -> Nat]
      /\ On(to, 0) = Origin /\ On(to, n) = to
  BY OnIs
<1>3. Local(Origin) = cell
  BY AbsoluteIs DEF Origin
<1>4. \A i \in 0 .. n : Local(On(to, i)) \in Cells
  BY <1>2, LocalIs
<1>5. ASSUME NEW i \in 1 .. n, \A j \in 1 .. i - 1 : FreeAt(to, j)
      PROVE  /\ Local(On(to, i - 1)) \in Cells
             /\ sector[Local(On(to, i - 1))] = "empty" \/ Local(On(to, i - 1)) = cell
  <2>1. i - 1 \in 0 .. n
    BY <1>2
  <2>2. CASE i = 1
    <3>1. On(to, i - 1) = Origin
      BY <1>2, <2>2
    <3> QED BY <1>3, <1>4, <2>1, <3>1
  <2>3. CASE i # 1
    <3>1. FreeAt(to, i - 1)
      BY <1>2, <1>5, <2>3
    <3> QED BY <1>4, <2>1, <3>1 DEF FreeAt
  <2> QED BY <2>2, <2>3
<1> HIDE DEF w, n
<1>6. CASE (\A j \in 1 .. n : FreeAt(to, j)) /\ w = [how |-> "clear", at |-> to, billed |-> LegTo(to)]
  <2>1. FreeAt(to, n) /\ n \in 0 .. n
    BY <1>2, <1>6
  <2>2. sector[Local(to)] = "empty" /\ Local(to) \in Cells
    BY <1>2, <1>4, <2>1 DEF FreeAt
  <2>3. w.how = "clear" /\ w.at = to /\ w.billed = LegTo(to)
    BY <1>6
  <2> QED BY <1>2, <2>2, <2>3 DEF w
<1>7. ASSUME NEW i \in 1 .. n, \A j \in 1 .. i - 1 : FreeAt(to, j),
             w = [how |-> "clear", at |-> On(to, i - 1), billed |-> LegTo(to)]
      PROVE  LET d == Local(w.at)
           IN  d \in Cells /\ w.how = "clear" /\ (sector[d] = "empty" \/ d = cell) /\ w.billed # <<0, 0>>
  <2>1. w.how = "clear" /\ w.at = On(to, i - 1) /\ w.billed = LegTo(to)
    BY <1>7
  <2> QED BY <1>2, <1>5, <1>7, <2>1
<1>8. ASSUME NEW i \in 1 .. n, sector[Local(On(to, i))] = "hole",
             w = [how |-> "hole", at |-> On(to, i), billed |-> Cost(to, i - 1)]
      PROVE  Local(w.at) \in Cells /\ w.how = "hole" /\ sector[Local(w.at)] = "hole"
  <2>1. w.how = "hole" /\ w.at = On(to, i) /\ i \in 0 .. n
    BY <1>2, <1>8
  <2> QED BY <1>4, <1>8, <2>1
<1>9. ASSUME NEW i \in 1 .. n, \A j \in 1 .. i - 1 : FreeAt(to, j),
             w = [how |-> "blocked", at |-> On(to, i - 1), billed |-> Cost(to, i - 1)]
      PROVE  LET d == Local(w.at)
           IN  /\ d \in Cells /\ w.how = "blocked" /\ (sector[d] = "empty" \/ d = cell)
               /\ w.billed = <<0, 0>> => d = cell
  <2>1. w.how = "blocked" /\ w.at = On(to, i - 1) /\ w.billed = Cost(to, i - 1)
    BY <1>9
  <2>2. w.billed = <<0, 0>> => i = 1
    BY <2>1, CostIs DEF n
  <2>3. i = 1 => Local(w.at) = cell
    BY <1>2, <1>3, <2>1
  <2> QED BY <1>5, <1>9, <2>1, <2>2, <2>3
<1>10. \/ (\A j \in 1 .. n : FreeAt(to, j)) /\ w = [how |-> "clear", at |-> to, billed |-> LegTo(to)]
       \/ \E i \in 1 .. n :
            /\ \A j \in 1 .. i - 1 : FreeAt(to, j)
            /\ \/ w = [how |-> "clear", at |-> On(to, i - 1), billed |-> LegTo(to)]
               \/ /\ sector[Local(On(to, i))] = "hole"
                  /\ w = [how |-> "hole", at |-> On(to, i), billed |-> Cost(to, i - 1)]
               \/ w = [how |-> "blocked", at |-> On(to, i - 1), billed |-> Cost(to, i - 1)]
  BY <1>1 DEF Came, n
<1> QED BY <1>6, <1>7, <1>8, <1>9, <1>10, Zenon DEF w

\* One step's worth of types.
Typed(p, f) ==
    /\ p \in {"command", "lasers", "tubes", "events", "pod", "enemy", "over"}
    /\ f \in {"no", "yes", "thrown"}

\* The ship put down in a free cell, in the hole or back where it was.
LEMMA ShiftedKeeps ==
    ASSUME SectorsInv, NEW d \in Cells, sector[d] \in {"empty", "hole"} \/ d = cell,
           cell' = d, sector' = Shifted(d), UNCHANGED <<quad, enemy_hp, gal>>,
           Typed(pc', fired'), docked' \in BOOLEAN, lost' \in BOOLEAN,
           docked' /\ ~lost' => docked /\ ~lost /\ d = cell
    PROVE  SectorsInv'
<1>1. /\ cell \in Cells /\ sector \in [Cells -> Contents] /\ enemy_hp \in [Cells -> 0 .. MaxHp]
      /\ Shown(sector, {"ship"}) = {cell}
      /\ \A c \in Cells : enemy_hp[c] > 0 <=> sector[c] \in Hostile \cup {"pod"}
  BY DEF SectorsInv, Mapped
<1>2. sector[cell] = "ship" /\ \A c \in Cells : sector[c] = "ship" => c = cell
  BY <1>1 DEF Shown
<1>3. sector' \in [Cells -> Contents]
      /\ \A c \in Cells : sector'[c] = IF c = d THEN "ship" ELSE IF c = cell THEN "empty" ELSE sector[c]
  BY <1>1 DEF Shifted, Contents
<1>4. /\ Shown(sector', {"ship"}) = {d}
      /\ \A c \in Cells : sector'[c] \in Hostile \cup {"pod"} <=> sector[c] \in Hostile \cup {"pod"}
      /\ \A c \in Cells : sector'[c] \in Hostile => sector[c] \in Hostile
      /\ \A c \in Cells : sector'[c] = sector[c] \/ (sector[c] \in Loose /\ sector'[c] \in Loose)
  BY <1>2, <1>3 DEF Shown, Hostile, Loose
<1>5. Mapped(sector', enemy_hp', cell')
  BY <1>1, <1>3, <1>4 DEF Mapped
<1>6. Moored'
  <2> SUFFICES ASSUME docked', ~lost' PROVE \E b \in Standing({"base"})' : Adjacent(b, d)
    BY DEF Moored
  <2>1. PICK b \in Standing({"base"}) : Adjacent(b, cell)
    BY DEF SectorsInv, Moored
  <2>2. b \in Standing({"base"})'
    BY <1>1, <1>2, <1>3 DEF Standing
  <2> QED BY <2>1, <2>2
<1>7. ASSUME quad \notin gal.nova PROVE Faithful(sector', gal, quad)
  <2>1. Faithful(sector, gal, quad)
    BY <1>7 DEF SectorsInv
  <2>2. gal.enemies[quad] \in Nat /\ Cardinality(Shown(sector, Hostile)) <= gal.enemies[quad]
    BY <2>1 DEF SectorsInv, Charted, Faithful
  <2>3. Cardinality(Shown(sector', Hostile)) <= gal.enemies[quad]
    BY <1>4, <2>2, FewerHostile
  <2> QED BY <1>1, <1>3, <1>4, <2>1, <2>3, FaithfulKept
<1> QED BY <1>5, <1>6, <1>7 DEF SectorsInv, Typed

\* A move that stops short of leaving.
LEMMA StoppedKeeps ==
    ASSUME SectorsInv, NEW to \in Absolutes, to # Origin, Stopped(Walk(to)), UNCHANGED gal, Typed(pc', fired')
    PROVE  SectorsInv'
<1> DEFINE w == Walk(to)
           d == Local(w.at)
<1>1. /\ d \in Cells
      /\ \/ w.how = "hole" /\ sector[d] = "hole"
         \/ /\ w.how \in {"clear", "blocked"}
            /\ sector[d] = "empty" \/ d = cell
            /\ w.billed = <<0, 0>> => d = cell
  BY WalkEnds DEF SectorsInv
<1>2. docked \in BOOLEAN /\ lost \in BOOLEAN
  BY DEF SectorsInv
<1> HIDE DEF w, d
<1>3. CASE w.how = "hole"
  <2>1. Swallowed(w)
    BY <1>3 DEF Stopped, w
  <2>2. CASE /\ cell' = d /\ sector' = Shifted(d)
             /\ docked' = CastOff(w) /\ lost' = TRUE /\ UNCHANGED <<quad, enemy_hp>>
    <3>1. docked' \in BOOLEAN
      BY <2>2 DEF CastOff
    <3>2. sector[d] \in {"empty", "hole"}
      BY <1>1, <1>3
    <3>3. ~(docked' /\ ~lost') /\ lost' \in BOOLEAN
      BY <2>2
    <3> QED BY <1>1, <2>2, <3>1, <3>2, <3>3, ShiftedKeeps
  <2>3. CASE (\E q \in Quads, c \in Berths : Enter(q, c)) /\ UNCHANGED lost
    <3>1. PICK q \in Quads, c \in Berths : Enter(q, c)
      BY <2>3
    <3>2. c \in Cells
      BY SectorsAssumption DEF SectorsAssumption
    <3>3. Charted(gal)' /\ lost' \in BOOLEAN
      BY <1>2, <2>3 DEF SectorsInv
    <3> QED BY <3>1, <3>2, <3>3, EnterKeeps DEF Typed
  <2> QED BY <2>1, <2>2, <2>3 DEF Swallowed, d
<1>4. CASE w.how # "hole"
  <2>1. Arrives(w)
    BY <1>4 DEF Stopped, w
  <2>2. cell' = d /\ sector' = Shifted(d) /\ docked' = CastOff(w) /\ UNCHANGED <<quad, lost, enemy_hp>>
    BY <2>1 DEF Arrives, d
  <2>3. /\ docked' \in BOOLEAN /\ lost' \in BOOLEAN
        /\ docked' /\ ~lost' => docked /\ ~lost /\ d = cell
    BY <1>1, <1>2, <1>4, <2>2 DEF CastOff
  <2>4. sector[d] \in {"empty", "hole"} \/ d = cell
    BY <1>1, <1>4
  <2> QED BY <1>1, <2>2, <2>3, <2>4, ShiftedKeeps
<1> QED BY <1>3, <1>4

\* trek_move_impulse.
LEMMA ImpulseKeeps == ASSUME SectorsInv, NEW c \in Cells, Impulse(c) PROVE SectorsInv'
<1> DEFINE to == Absolute(quad, c)
<1>1. quad \in Quads /\ cell \in Cells /\ c # cell
  BY DEF SectorsInv, Impulse
<1>2. to \in Absolutes
  BY <1>1 DEF Absolutes
<1>3. to # Origin
  <2>1. Local(to) = c /\ Local(Origin) = cell
    BY <1>1, AbsoluteIs DEF Origin
  <2> QED BY <1>1, <2>1
<1>4. Stopped(Walk(to)) /\ UNCHANGED gal /\ Typed(pc', fired')
  BY DEF Impulse, Typed
<1> HIDE DEF to
<1> QED BY <1>2, <1>3, <1>4, StoppedKeeps

\* trek_move_warp, with or without the tractor beam.
LEMMA WarpKeeps == ASSUME SectorsInv, NEW q \in Quads, NEW c \in Berths, Warp(q, c) PROVE SectorsInv'
<1> DEFINE to == Absolute(q, c)
<1>1. quad \in Quads /\ cell \in Cells /\ c \in Cells /\ q # quad /\ lost \in BOOLEAN
  BY SectorsAssumption DEF SectorsInv, Warp, SectorsAssumption
<1>2. to \in Absolutes
  BY <1>1 DEF Absolutes
<1>3. to # Origin
  <2>1. /\ to[1] \div QUAD_DIM = q[1] /\ to[2] \div QUAD_DIM = q[2]
        /\ Origin[1] \div QUAD_DIM = quad[1] /\ Origin[2] \div QUAD_DIM = quad[2]
    BY <1>1, AbsoluteIs DEF Origin
  <2>2. q[1] # quad[1] \/ q[2] # quad[2]
    BY <1>1, CoordsAre
  <2> HIDE DEF to
  <2> QED BY <2>1, <2>2
<1>4. UNCHANGED gal /\ Typed(pc', fired')
  BY DEF Warp, Typed
<1>5. \/ (\E dest \in {q} \cup Tractors(q) : Enter(dest, c)) /\ UNCHANGED lost
      \/ Stopped(Walk(to))
  BY DEF Warp
<1> HIDE DEF to
<1>6. CASE (\E dest \in {q} \cup Tractors(q) : Enter(dest, c)) /\ UNCHANGED lost
  <2>1. PICK dest \in {q} \cup Tractors(q) : Enter(dest, c)
    BY <1>6
  <2>2. dest \in Quads
    BY DEF Tractors
  <2>3. Charted(gal)' /\ lost' \in BOOLEAN
    BY <1>1, <1>4, <1>6 DEF SectorsInv
  <2> QED BY <1>1, <1>4, <2>1, <2>2, <2>3, EnterKeeps DEF Typed
<1>7. CASE Stopped(Walk(to))
  BY <1>2, <1>3, <1>4, <1>7, StoppedKeeps
<1> QED BY <1>5, <1>6, <1>7

-----------------------------------------------------------------------------
(* What the chart goes through *)

\* Never below zero, and no less than the difference.
LEMMA LessIs == ASSUME NEW a \in Nat, NEW b \in Nat PROVE Less(a, b) \in Nat /\ Less(a, b) <= a /\ Less(a, b) >= a - b
BY DEF Less

\* A record of the chart, field by field.
LEMMA ChartIs ==
    ASSUME NEW g, Charted(g)
    PROVE  /\ g = [stars |-> g.stars, star_gone |-> g.star_gone, enemies |-> g.enemies,
                   base |-> g.base, nova |-> g.nova]
           /\ g.stars \in [Quads -> Nat] /\ g.star_gone \in [Quads -> Nat] /\ g.enemies \in [Quads -> Nat]
           /\ g.base \subseteq Quads /\ g.base \subseteq Bases /\ g.nova \subseteq Quads
           /\ Stars \in [Quads -> Nat] /\ Ships \in [Quads -> Nat]
           /\ \A q \in Quads : g.stars[q] <= Stars[q] /\ g.star_gone[q] <= Stars[q] /\ g.enemies[q] <= Ships[q]
           /\ \A q \in Quads \ g.nova : g.stars[q] = Stars[q]
BY SectorsAssumption DEF Charted, SectorsAssumption

\* Ships struck off.
LEMMA ShipsStruck ==
    ASSUME NEW g, Charted(g), NEW q \in Quads, NEW k \in Nat
    PROVE  LET g2 == [g EXCEPT !.enemies[q] = Less(@, k)] IN
           /\ Charted(g2) /\ g2.stars = g.stars /\ g2.star_gone = g.star_gone
           /\ g2.base = g.base /\ g2.nova = g.nova /\ g2.enemies[q] = Less(g.enemies[q], k)
<1> DEFINE st == g.stars
           sg == g.star_gone
           en == g.enemies
           ba == g.base
           no == g.nova
<1>1. /\ g = [stars |-> st, star_gone |-> sg, enemies |-> en, base |-> ba, nova |-> no]
      /\ st \in [Quads -> Nat] /\ sg \in [Quads -> Nat] /\ en \in [Quads -> Nat]
      /\ ba \subseteq Quads /\ ba \subseteq Bases /\ no \subseteq Quads
      /\ Stars \in [Quads -> Nat] /\ Ships \in [Quads -> Nat]
      /\ \A r \in Quads : st[r] <= Stars[r] /\ sg[r] <= Stars[r] /\ en[r] <= Ships[r]
      /\ \A r \in Quads \ no : st[r] = Stars[r]
  BY ChartIs
<1> HIDE DEF st, sg, en, ba, no
<1>2. LET g2 == [g EXCEPT !.enemies[q] = Less(@, k)] IN
      /\ Charted(g2) /\ g2.stars = st /\ g2.star_gone = sg
      /\ g2.base = ba /\ g2.nova = no /\ g2.enemies[q] = Less(en[q], k)
  <2> DEFINE e2 == [en EXCEPT ![q] = Less(@, k)]
             g2 == [g EXCEPT !.enemies[q] = Less(@, k)]
  <2>1. g2 = [stars |-> st, star_gone |-> sg, enemies |-> e2, base |-> ba, nova |-> no]
    BY <1>1
  <2>2. /\ e2 \in [Quads -> Nat] /\ e2[q] = Less(en[q], k)
        /\ \A r \in Quads : e2[r] <= Ships[r]
    <3>1. en[q] \in Nat /\ Ships[q] \in Nat /\ en[q] <= Ships[q]
      BY <1>1
    <3>2. Less(en[q], k) \in Nat /\ Less(en[q], k) <= Ships[q]
      <4>1. Less(en[q], k) \in Nat /\ Less(en[q], k) <= en[q]
        BY <3>1, LessIs, Zenon
      <4> QED BY <3>1, <4>1
    <3> QED BY <1>1, <3>2
  <2> HIDE DEF e2, g2
  <2>3. Charted(g2)
    BY <1>1, <2>1, <2>2 DEF Charted
  <2>4. g2.stars = st /\ g2.star_gone = sg /\ g2.base = ba /\ g2.nova = no /\ g2.enemies = e2
    BY <2>1
  <2> QED BY <2>2, <2>3, <2>4 DEF g2
<1> QED BY <1>2 DEF st, sg, en, ba, no

\* A star remembered as gone.
LEMMA StarRemembered ==
    ASSUME NEW g, Charted(g), NEW q \in Quads
    PROVE  LET g2 == [g EXCEPT !.star_gone[q] = IF @ < g.stars[q] THEN @ + 1 ELSE @] IN
           /\ Charted(g2) /\ g2.stars = g.stars /\ g2.enemies = g.enemies
           /\ g2.base = g.base /\ g2.nova = g.nova /\ g2.star_gone[q] <= g.star_gone[q] + 1 /\ g2.star_gone[q] \in Nat
<1> DEFINE st == g.stars
           sg == g.star_gone
           en == g.enemies
           ba == g.base
           no == g.nova
<1>1. /\ g = [stars |-> st, star_gone |-> sg, enemies |-> en, base |-> ba, nova |-> no]
      /\ st \in [Quads -> Nat] /\ sg \in [Quads -> Nat] /\ en \in [Quads -> Nat]
      /\ ba \subseteq Quads /\ ba \subseteq Bases /\ no \subseteq Quads
      /\ Stars \in [Quads -> Nat] /\ Ships \in [Quads -> Nat]
      /\ \A r \in Quads : st[r] <= Stars[r] /\ sg[r] <= Stars[r] /\ en[r] <= Ships[r]
      /\ \A r \in Quads \ no : st[r] = Stars[r]
  BY ChartIs
<1> HIDE DEF st, sg, en, ba, no
<1>2. LET g2 == [g EXCEPT !.star_gone[q] = IF @ < g.stars[q] THEN @ + 1 ELSE @] IN
      /\ Charted(g2) /\ g2.stars = st /\ g2.enemies = en
      /\ g2.base = ba /\ g2.nova = no /\ g2.star_gone[q] <= sg[q] + 1 /\ g2.star_gone[q] \in Nat
  <2> DEFINE s2 == [sg EXCEPT ![q] = IF sg[q] < st[q] THEN sg[q] + 1 ELSE sg[q]]
             g2 == [g EXCEPT !.star_gone[q] = IF @ < g.stars[q] THEN @ + 1 ELSE @]
  <2>1. g2 = [stars |-> st, star_gone |-> s2, enemies |-> en, base |-> ba, nova |-> no]
    BY <1>1 DEF st
  <2>2. /\ s2 \in [Quads -> Nat] /\ s2[q] <= sg[q] + 1 /\ s2[q] \in Nat
        /\ \A r \in Quads : s2[r] <= Stars[r]
    <3>1. st[q] <= Stars[q] /\ sg[q] <= Stars[q] /\ st[q] \in Nat /\ sg[q] \in Nat /\ Stars[q] \in Nat
      BY <1>1
    <3> QED BY <1>1, <3>1
  <2> HIDE DEF s2, g2
  <2>3. Charted(g2)
    BY <1>1, <2>1, <2>2 DEF Charted
  <2>4. g2.stars = st /\ g2.star_gone = s2 /\ g2.base = ba /\ g2.nova = no /\ g2.enemies = en
    BY <2>1
  <2> QED BY <2>2, <2>3, <2>4 DEF g2
<1> QED BY <1>2 DEF st, sg, en, ba, no

\* A base fallen.
LEMMA BaseStruck ==
    ASSUME NEW g, Charted(g), NEW q \in Quads
    PROVE  LET g2 == [g EXCEPT !.base = @ \ {q}] IN
           /\ Charted(g2) /\ g2.stars = g.stars /\ g2.star_gone = g.star_gone
           /\ g2.base \subseteq g.base /\ g2.nova = g.nova /\ g2.enemies = g.enemies
<1> DEFINE st == g.stars
           sg == g.star_gone
           en == g.enemies
           ba == g.base
           no == g.nova
<1>1. /\ g = [stars |-> st, star_gone |-> sg, enemies |-> en, base |-> ba, nova |-> no]
      /\ st \in [Quads -> Nat] /\ sg \in [Quads -> Nat] /\ en \in [Quads -> Nat]
      /\ ba \subseteq Quads /\ ba \subseteq Bases /\ no \subseteq Quads
      /\ Stars \in [Quads -> Nat] /\ Ships \in [Quads -> Nat]
      /\ \A r \in Quads : st[r] <= Stars[r] /\ sg[r] <= Stars[r] /\ en[r] <= Ships[r]
      /\ \A r \in Quads \ no : st[r] = Stars[r]
  BY ChartIs
<1> HIDE DEF st, sg, en, ba, no
<1>2. LET g2 == [g EXCEPT !.base = @ \ {q}] IN
      /\ Charted(g2) /\ g2.stars = st /\ g2.star_gone = sg
      /\ g2.base \subseteq ba /\ g2.nova = no /\ g2.enemies = en
  <2> DEFINE g2 == [g EXCEPT !.base = @ \ {q}]
  <2>1. g2 = [stars |-> st, star_gone |-> sg, enemies |-> en, base |-> ba \ {q}, nova |-> no]
    BY <1>1, SMTT(60)
  <2> HIDE DEF g2
  <2>2. Charted(g2)
    BY <1>1, <2>1 DEF Charted
  <2>3. g2.stars = st /\ g2.star_gone = sg /\ g2.base = ba \ {q} /\ g2.nova = no /\ g2.enemies = en
    BY <2>1
  <2> QED BY <2>2, <2>3 DEF g2
<1> QED BY <1>2 DEF st, sg, en, ba, no

\* A quadrant burnt.
LEMMA QuadrantBurnt ==
    ASSUME NEW g, Charted(g), NEW q \in Quads
    PROVE  LET g2 == Burn(g, q) IN
           /\ Charted(g2) /\ g2.base \subseteq g.base /\ g2.nova = g.nova \cup {q}
           /\ \A r \in Quads \ {q} : g2.stars[r] = g.stars[r] /\ g2.star_gone[r] = g.star_gone[r] /\ g2.enemies[r] = g.enemies[r]
<1> DEFINE st == g.stars
           sg == g.star_gone
           en == g.enemies
           ba == g.base
           no == g.nova
<1>1. /\ g = [stars |-> st, star_gone |-> sg, enemies |-> en, base |-> ba, nova |-> no]
      /\ st \in [Quads -> Nat] /\ sg \in [Quads -> Nat] /\ en \in [Quads -> Nat]
      /\ ba \subseteq Quads /\ ba \subseteq Bases /\ no \subseteq Quads
      /\ Stars \in [Quads -> Nat] /\ Ships \in [Quads -> Nat]
      /\ \A r \in Quads : st[r] <= Stars[r] /\ sg[r] <= Stars[r] /\ en[r] <= Ships[r]
      /\ \A r \in Quads \ no : st[r] = Stars[r]
  BY ChartIs
<1> HIDE DEF st, sg, en, ba, no
<1>2. LET g2 == Burn(g, q) IN
      /\ Charted(g2) /\ g2.base \subseteq ba /\ g2.nova = no \cup {q}
      /\ \A r \in Quads \ {q} : g2.stars[r] = st[r] /\ g2.star_gone[r] = sg[r] /\ g2.enemies[r] = en[r]
  <2> DEFINE s2 == [st EXCEPT ![q] = 0]
             e2 == [en EXCEPT ![q] = 0]
             g2 == Burn(g, q)
  <2>1. g2 = [stars |-> s2, star_gone |-> sg, enemies |-> e2, base |-> ba \ {q}, nova |-> no \cup {q}]
    <3>1. g2 = [g EXCEPT !.enemies = e2, !.stars = s2, !.base = ba \ {q}, !.nova = no \cup {q}]
      BY <1>1 DEF Burn, st, en, ba, no
    <3> HIDE DEF g2, s2, e2
    <3> QED BY <1>1, <3>1
  <2>2. /\ s2 \in [Quads -> Nat] /\ e2 \in [Quads -> Nat]
        /\ \A r \in Quads : s2[r] <= Stars[r] /\ e2[r] <= Ships[r]
        /\ \A r \in Quads \ {q} : s2[r] = st[r] /\ e2[r] = en[r]
    BY <1>1
  <2> HIDE DEF s2, e2, g2
  <2>3. Charted(g2)
    BY <1>1, <2>1, <2>2 DEF Charted
  <2>4. g2.stars = s2 /\ g2.star_gone = sg /\ g2.base = ba \ {q} /\ g2.nova = no \cup {q} /\ g2.enemies = e2
    BY <2>1
  <2> QED BY <2>2, <2>3, <2>4 DEF g2
<1> QED BY <1>2 DEF st, sg, en, ba, no

\* A step that touches no cell.
LEMMA SameKeeps ==
    ASSUME SectorsInv, UNCHANGED <<quad, cell, sector, enemy_hp>>, Typed(pc', fired'),
           docked' \in BOOLEAN, lost' \in BOOLEAN, Moored', Charted(gal)',
           quad \notin gal'.nova =>
               /\ quad \notin gal.nova /\ gal'.base \subseteq gal.base
               /\ gal'.stars[quad] = gal.stars[quad] /\ gal'.star_gone[quad] = gal.star_gone[quad]
               /\ gal'.enemies[quad] = gal.enemies[quad]
    PROVE  SectorsInv'
<1>1. quad \notin gal'.nova => Faithful(sector, gal', quad)
  BY DEF SectorsInv, Faithful
<1> QED BY <1>1 DEF SectorsInv, Typed

\* A step that touches only what is loose, and never the ship.
LEMMA LooseKeeps ==
    ASSUME SectorsInv, UNCHANGED <<quad, cell, docked>>, Typed(pc', fired'), lost' \in BOOLEAN, lost => lost',
           sector' \in [Cells -> Contents], enemy_hp' \in [Cells -> 0 .. MaxHp],
           \A d \in Cells : \/ sector'[d] = sector[d]
                            \/ sector[d] \in Loose \ {"ship"} /\ sector'[d] \in Loose \ {"ship"},
           \A d \in Cells : enemy_hp'[d] > 0 <=> sector'[d] \in Hostile \cup {"pod"},
           Charted(gal)',
           quad \notin gal'.nova =>
               /\ quad \notin gal.nova /\ gal'.base \subseteq gal.base
               /\ gal'.stars[quad] = gal.stars[quad] /\ gal'.star_gone[quad] = gal.star_gone[quad]
               /\ Cardinality(Shown(sector', Hostile)) <= gal'.enemies[quad]
    PROVE  SectorsInv'
<1>1. sector \in [Cells -> Contents] /\ Shown(sector, {"ship"}) = {cell}
  BY DEF SectorsInv, Mapped
<1>2. Mapped(sector', enemy_hp', cell')
  <2>1. Shown(sector', {"ship"}) = {cell}
    BY <1>1 DEF Shown
  <2> QED BY <2>1 DEF Mapped
<1>3. Moored'
  <2> SUFFICES ASSUME docked', ~lost' PROVE \E b \in Standing({"base"})' : Adjacent(b, cell)
    BY DEF Moored
  <2>1. PICK b \in Standing({"base"}) : Adjacent(b, cell)
    BY DEF SectorsInv, Moored
  <2>2. b \in Cells /\ sector[b] = "base"
    BY DEF Standing
  <2>3. sector'[b] = "base"
    BY <2>2 DEF Loose, Hostile
  <2>4. b \in Standing({"base"})'
    BY <2>2, <2>3 DEF Standing
  <2> QED BY <2>1, <2>4
<1>4. quad \notin gal'.nova => Faithful(sector', gal', quad)
  <2> SUFFICES ASSUME quad \notin gal'.nova PROVE Faithful(sector', gal', quad)
    OBVIOUS
  <2>1. Faithful(sector, gal, quad)
    BY DEF SectorsInv
  <2>2. \A d \in Cells : sector'[d] = sector[d] \/ (sector[d] \in Loose /\ sector'[d] \in Loose)
    OBVIOUS
  <2> QED BY <1>1, <2>1, <2>2, FaithfulKept
<1> QED BY <1>2, <1>3, <1>4 DEF SectorsInv, Typed

-----------------------------------------------------------------------------
(* The other orders and the turn *)

\* The invariant, fact by fact.
LEMMA SectorsFacts ==
    ASSUME SectorsInv
    PROVE  /\ quad \in Quads /\ cell \in Cells /\ docked \in BOOLEAN /\ lost \in BOOLEAN
           /\ Typed(pc, fired) /\ Charted(gal) /\ Moored
           /\ sector \in [Cells -> Contents] /\ enemy_hp \in [Cells -> 0 .. MaxHp]
           /\ Shown(sector, {"ship"}) = {cell}
           /\ \A d \in Cells : enemy_hp[d] > 0 <=> sector[d] \in Hostile \cup {"pod"}
           /\ quad \notin gal.nova => Cardinality(Shown(sector, Hostile)) <= gal.enemies[quad]
           /\ MaxHp \in Nat \ {0}
BY SectorsAssumption DEF SectorsInv, Mapped, Typed, Faithful, SectorsAssumption

\* Nothing happens but time.
LEMMA IdleKeeps == ASSUME SectorsInv, UNCHANGED <<ship, map, gal>>, Typed(pc', fired') PROVE SectorsInv'
<1>1. docked' \in BOOLEAN /\ lost' \in BOOLEAN /\ Charted(gal)' /\ Moored'
  BY SectorsFacts DEF ship, map, Moored, Standing
<1> QED BY <1>1, SameKeeps DEF ship, map

\* trek_dock.
LEMMA DockKeeps == ASSUME SectorsInv, Dock PROVE SectorsInv'
<1>1. /\ docked' = TRUE /\ UNCHANGED <<quad, cell, lost, sector, enemy_hp, gal>> /\ Typed(pc', fired')
      /\ \E b \in Standing({"base"}) : Adjacent(b, cell)
  BY DEF Dock, map, Typed
<1>2. Moored' /\ docked' \in BOOLEAN /\ lost' \in BOOLEAN /\ Charted(gal)'
  BY <1>1, SectorsFacts DEF Moored, Standing
<1> QED BY <1>1, <1>2, SameKeeps

\* The ray that kills: the ship is lost where it is.
LEMMA RayFatalKeeps == ASSUME SectorsInv, RayFatal PROVE SectorsInv'
<1>1. /\ lost' = TRUE /\ UNCHANGED <<quad, cell, docked, sector, enemy_hp, gal>> /\ Typed(pc', fired')
  BY DEF RayFatal, map, Typed
<1>2. Moored' /\ docked' \in BOOLEAN /\ lost' \in BOOLEAN /\ Charted(gal)'
  BY <1>1, SectorsFacts DEF Moored
<1> QED BY <1>1, <1>2, SameKeeps

\* A base falls and a star goes off elsewhere: the chart is told, the map is not.
LEMMA ElsewhereKeeps ==
    ASSUME SectorsInv, NEW q \in Quads, BaseFalls(q) \/ RunNova(q)
    PROVE  SectorsInv'
<1>1. UNCHANGED <<ship, map>> /\ Typed(pc', fired')
  BY SectorsFacts DEF BaseFalls, RunNova, Typed
<1>2. docked' \in BOOLEAN /\ lost' \in BOOLEAN /\ Moored'
  BY <1>1, SectorsFacts DEF ship, map, Moored, Standing
<1>3. CASE BaseFalls(q)
  <2> DEFINE g2 == [gal EXCEPT !.base = @ \ {q}]
  <2>1. gal' = g2
    BY <1>3 DEF BaseFalls
  <2>2. /\ Charted(g2) /\ g2.stars = gal.stars /\ g2.star_gone = gal.star_gone
        /\ g2.base \subseteq gal.base /\ g2.nova = gal.nova /\ g2.enemies = gal.enemies
    BY SectorsFacts, BaseStruck
  <2> HIDE DEF g2
  <2>3. Charted(gal)'
    BY <2>1, <2>2
  <2> QED BY <1>1, <1>2, <2>1, <2>2, <2>3, SameKeeps DEF ship, map
<1>4. CASE RunNova(q)
  <2> DEFINE g2 == Burn(gal, q)
  <2>1. gal' = g2 /\ q[1] # quad[1] /\ quad \in Quads
    BY <1>4, SectorsFacts DEF RunNova
  <2>2. /\ Charted(g2) /\ g2.base \subseteq gal.base /\ g2.nova = gal.nova \cup {q}
        /\ \A r \in Quads \ {q} : /\ g2.stars[r] = gal.stars[r] /\ g2.star_gone[r] = gal.star_gone[r]
                                  /\ g2.enemies[r] = gal.enemies[r]
    BY SectorsFacts, QuadrantBurnt
  <2> HIDE DEF g2
  <2>3. Charted(gal)' /\ quad \in Quads \ {q}
    BY <2>1, <2>2
  <2> QED BY <1>1, <1>2, <2>1, <2>2, <2>3, SameKeeps DEF ship, map
<1> QED BY <1>3, <1>4

\* A cell loses an enemy, and so does the chart.
LEMMA HitKeeps == ASSUME SectorsInv, NEW c \in Cells, NEW dmg \in 1 .. MaxHp, Hit(c, dmg) PROVE SectorsInv'
<1>1. /\ UNCHANGED <<quad, cell, docked, lost>> /\ Typed(pc', fired')
      /\ sector[c] \in Hostile \cup {"pod"}
      /\ IF dmg < enemy_hp[c]
         THEN /\ enemy_hp' = [enemy_hp EXCEPT ![c] = @ - dmg]
              /\ UNCHANGED <<sector, gal>>
         ELSE /\ enemy_hp' = [enemy_hp EXCEPT ![c] = 0]
              /\ sector' = [sector EXCEPT ![c] = "empty"]
              /\ gal' = IF sector[c] = "pod" THEN gal
                        ELSE [gal EXCEPT !.enemies[quad] = Less(@, 1)]
  BY SectorsFacts DEF Hit, ship, Typed, Command
<1>2. /\ sector \in [Cells -> Contents] /\ enemy_hp \in [Cells -> 0 .. MaxHp] /\ MaxHp \in Nat
      /\ \A d \in Cells : enemy_hp[d] > 0 <=> sector[d] \in Hostile \cup {"pod"}
      /\ Charted(gal) /\ quad \in Quads /\ lost' \in BOOLEAN /\ (lost => lost')
      /\ quad \notin gal.nova => Cardinality(Shown(sector, Hostile)) <= gal.enemies[quad]
  BY <1>1, SectorsFacts
<1>3. CASE dmg < enemy_hp[c]
  <2>1. enemy_hp' = [enemy_hp EXCEPT ![c] = enemy_hp[c] - dmg] /\ sector' = sector /\ gal' = gal
    BY <1>1, <1>3
  <2>2. enemy_hp[c] - dmg \in 1 .. MaxHp /\ enemy_hp[c] > 0
    BY <1>2, <1>3
  <2>3. enemy_hp' \in [Cells -> 0 .. MaxHp]
        /\ \A d \in Cells : enemy_hp'[d] > 0 <=> sector'[d] \in Hostile \cup {"pod"}
    BY <1>2, <2>1, <2>2
  <2>4. Charted(gal)'
    BY <1>2, <2>1
  <2> QED BY <1>1, <1>2, <2>1, <2>3, <2>4, LooseKeeps
<1>4. CASE ~(dmg < enemy_hp[c])
  <2>1. /\ enemy_hp' = [enemy_hp EXCEPT ![c] = 0]
        /\ sector' = [sector EXCEPT ![c] = "empty"]
        /\ gal' = IF sector[c] = "pod" THEN gal ELSE [gal EXCEPT !.enemies[quad] = Less(@, 1)]
    BY <1>1, <1>4
  <2>2. /\ sector' \in [Cells -> Contents] /\ enemy_hp' \in [Cells -> 0 .. MaxHp]
        /\ \A d \in Cells : sector'[d] = IF d = c THEN "empty" ELSE sector[d]
        /\ \A d \in Cells : enemy_hp'[d] = IF d = c THEN 0 ELSE enemy_hp[d]
    BY <1>2, <2>1 DEF Contents
  <2>3. \A d \in Cells : enemy_hp'[d] > 0 <=> sector'[d] \in Hostile \cup {"pod"}
    BY <1>2, <2>2 DEF Hostile
  <2>4. \A d \in Cells : \/ sector'[d] = sector[d]
                         \/ sector[d] \in Loose \ {"ship"} /\ sector'[d] \in Loose \ {"ship"}
    BY <1>1, <2>2 DEF Loose, Hostile
  <2>5. IsFiniteSet(Shown(sector, Hostile)) /\ Cardinality(Shown(sector, Hostile)) \in Nat
    BY CellsFinite DEF Shown
  <2>6. CASE sector[c] = "pod"
    <3>1. gal' = gal
      BY <2>1, <2>6
    <3>2. \A d \in Cells : sector'[d] \in Hostile => sector[d] \in Hostile
      BY <2>2 DEF Hostile
    <3>3. Cardinality(Shown(sector', Hostile)) <= Cardinality(Shown(sector, Hostile))
          /\ Cardinality(Shown(sector', Hostile)) \in Nat
      BY <3>2, FewerHostile
    <3>4. gal.enemies[quad] \in Nat
      BY <1>2, ChartIs
    <3>5. quad \notin gal.nova => Cardinality(Shown(sector', Hostile)) <= gal.enemies[quad]
      BY <1>2, <2>5, <3>3, <3>4
    <3>6. Charted(gal)'
      BY <1>2, <3>1
    <3> QED BY <1>1, <1>2, <2>2, <2>3, <2>4, <3>1, <3>5, <3>6, LooseKeeps
  <2>7. CASE sector[c] \in Hostile
    <3> DEFINE g2 == [gal EXCEPT !.enemies[quad] = Less(@, 1)]
    <3>1. gal' = g2
      BY <2>1, <2>7 DEF Hostile
    <3>2. /\ Charted(g2) /\ g2.stars = gal.stars /\ g2.star_gone = gal.star_gone
          /\ g2.base = gal.base /\ g2.nova = gal.nova /\ g2.enemies[quad] = Less(gal.enemies[quad], 1)
      BY <1>2, ShipsStruck
    <3> HIDE DEF g2
    <3>3. Shown(sector', Hostile) = Shown(sector, Hostile) \ {c} /\ c \in Shown(sector, Hostile)
      BY <2>2, <2>7 DEF Shown, Hostile
    <3>4. Cardinality(Shown(sector', Hostile)) = Cardinality(Shown(sector, Hostile)) - 1
      BY <2>5, <3>3, FS_RemoveElement
    <3>5. gal.enemies[quad] \in Nat
      BY <1>2, ChartIs
    <3>6. Less(gal.enemies[quad], 1) >= gal.enemies[quad] - 1 /\ Less(gal.enemies[quad], 1) \in Nat
      BY <3>5, LessIs
    <3>7. quad \notin gal.nova => Cardinality(Shown(sector', Hostile)) <= g2.enemies[quad]
      BY <1>2, <2>5, <3>2, <3>4, <3>5, <3>6
    <3>8. Charted(gal)'
      BY <3>1, <3>2
    <3> QED BY <1>1, <1>2, <2>2, <2>3, <2>4, <3>1, <3>2, <3>7, <3>8, LooseKeeps
  <2> QED BY <1>1, <2>6, <2>7
<1> QED BY <1>3, <1>4

\* A star destroyed, and remembered.
LEMMA StarGoneKeeps == ASSUME SectorsInv, NEW c \in Cells, StarGone(c) PROVE SectorsInv'
<1> DEFINE g2 == [gal EXCEPT !.star_gone[quad] = IF @ < gal.stars[quad] THEN @ + 1 ELSE @]
<1>1. /\ UNCHANGED <<quad, cell, docked, lost, enemy_hp>> /\ Typed(pc', fired') /\ sector[c] = "star"
      /\ sector' = [sector EXCEPT ![c] = "nova"] /\ gal' = g2
  BY SectorsFacts DEF StarGone, Tubes, ship, Typed, Command
<1>2. /\ sector \in [Cells -> Contents] /\ enemy_hp \in [Cells -> 0 .. MaxHp]
      /\ Shown(sector, {"ship"}) = {cell}
      /\ \A d \in Cells : enemy_hp[d] > 0 <=> sector[d] \in Hostile \cup {"pod"}
      /\ Charted(gal) /\ quad \in Quads /\ Moored
  BY SectorsFacts
<1>3. /\ Charted(g2) /\ g2.stars = gal.stars /\ g2.enemies = gal.enemies
      /\ g2.base = gal.base /\ g2.nova = gal.nova /\ g2.star_gone[quad] <= gal.star_gone[quad] + 1
      /\ g2.star_gone[quad] \in Nat
  BY <1>2, StarRemembered
<1> HIDE DEF g2
<1>4. sector' \in [Cells -> Contents] /\ \A d \in Cells : sector'[d] = IF d = c THEN "nova" ELSE sector[d]
  BY <1>1, <1>2 DEF Contents
<1>5. Mapped(sector', enemy_hp', cell')
  <2>1. Shown(sector', {"ship"}) = {cell}
    BY <1>1, <1>2, <1>4 DEF Shown
  <2>2. \A d \in Cells : enemy_hp'[d] > 0 <=> sector'[d] \in Hostile \cup {"pod"}
    BY <1>1, <1>2, <1>4 DEF Hostile
  <2> QED BY <1>1, <1>2, <1>4, <2>1, <2>2 DEF Mapped
<1>6. Moored'
  <2>1. Standing({"base"}) = Standing({"base"})'
    BY <1>1, <1>4 DEF Standing
  <2> QED BY <1>1, <1>2, <2>1 DEF Moored
<1>7. ASSUME quad \notin gal.nova PROVE Faithful(sector', g2, quad)
  <2>1. Faithful(sector, gal, quad) /\ gal.star_gone[quad] \in Nat
    BY <1>2, <1>7, ChartIs DEF SectorsInv
  <2>2. /\ Shown(sector', {"star", "nova"}) = Shown(sector, {"star", "nova"})
        /\ Shown(sector', {"base"}) = Shown(sector, {"base"})
        /\ Shown(sector', {"planet"}) = Shown(sector, {"planet"})
        /\ Shown(sector', Hostile) = Shown(sector, Hostile)
        /\ Shown(sector', {"nova"}) = Shown(sector, {"nova"}) \cup {c}
        /\ c \notin Shown(sector, {"nova"})
    BY <1>1, <1>4 DEF Shown, Hostile
  <2>3. IsFiniteSet(Shown(sector, {"nova"})) /\ Cardinality(Shown(sector, {"nova"})) \in Nat
    BY CellsFinite DEF Shown
  <2>4. Cardinality(Shown(sector', {"nova"})) = Cardinality(Shown(sector, {"nova"})) + 1
    BY <2>2, <2>3, FS_AddElement
  <2>5. Cardinality(Shown(sector', {"nova"})) >= g2.star_gone[quad]
    <3>1. Cardinality(Shown(sector, {"nova"})) >= gal.star_gone[quad]
      BY <2>1 DEF Faithful
    <3> QED BY <1>3, <2>1, <2>3, <2>4, <3>1
  <2> QED BY <1>3, <2>1, <2>2, <2>5 DEF Faithful
<1> QED BY <1>1, <1>2, <1>3, <1>5, <1>6, <1>7 DEF SectorsInv, Typed

\* All the enemies gone, or none.
LEMMA WithoutIs ==
    ASSUME SectorsInv, NEW things \in {Hostile, {}}, Without(things)
    PROVE  /\ sector' \in [Cells -> Contents] /\ enemy_hp' \in [Cells -> 0 .. MaxHp]
           /\ \A d \in Cells : \/ sector'[d] = sector[d]
                               \/ sector[d] \in Loose \ {"ship"} /\ sector'[d] \in Loose \ {"ship"}
           /\ \A d \in Cells : enemy_hp'[d] > 0 <=> sector'[d] \in Hostile \cup {"pod"}
           /\ things = Hostile => Shown(sector', Hostile) = {}
<1>1. /\ sector \in [Cells -> Contents] /\ enemy_hp \in [Cells -> 0 .. MaxHp] /\ MaxHp \in Nat
      /\ \A d \in Cells : enemy_hp[d] > 0 <=> sector[d] \in Hostile \cup {"pod"}
  BY SectorsFacts
<1>2. /\ sector' = [c \in Cells |-> IF sector[c] \in things THEN "empty" ELSE sector[c]]
      /\ enemy_hp' = [c \in Cells |-> IF sector[c] \in things THEN 0 ELSE enemy_hp[c]]
  BY DEF Without
<1>3. sector' \in [Cells -> Contents] /\ enemy_hp' \in [Cells -> 0 .. MaxHp]
  BY <1>1, <1>2 DEF Contents
<1>4. /\ \A d \in Cells : sector'[d] = IF sector[d] \in things THEN "empty" ELSE sector[d]
      /\ \A d \in Cells : enemy_hp'[d] = IF sector[d] \in things THEN 0 ELSE enemy_hp[d]
  BY <1>2
<1>5. CASE things = {}
  BY <1>1, <1>3, <1>4, <1>5 DEF Hostile
<1>6. CASE things = Hostile
  BY <1>1, <1>3, <1>4, <1>6 DEF Hostile, Loose, Shown
<1> QED BY <1>5, <1>6

\* A blow to every enemy.
LEMMA BlowIs ==
    ASSUME SectorsInv, NEW dmg \in [Cells -> Nat], Blow(dmg)
    PROVE  /\ sector' \in [Cells -> Contents] /\ enemy_hp' \in [Cells -> 0 .. MaxHp]
           /\ \A d \in Cells : \/ sector'[d] = sector[d]
                               \/ sector[d] \in Loose \ {"ship"} /\ sector'[d] \in Loose \ {"ship"}
           /\ \A d \in Cells : enemy_hp'[d] > 0 <=> sector'[d] \in Hostile \cup {"pod"}
           /\ Shown(sector', Hostile)
                = Shown(sector, Hostile) \ {d \in Shown(sector, Hostile) : dmg[d] >= enemy_hp[d]}
<1>1. /\ sector \in [Cells -> Contents] /\ enemy_hp \in [Cells -> 0 .. MaxHp] /\ MaxHp \in Nat
      /\ \A d \in Cells : enemy_hp[d] > 0 <=> sector[d] \in Hostile \cup {"pod"}
  BY SectorsFacts
<1>2. /\ sector' = [c \in Cells |-> IF sector[c] \in Hostile /\ dmg[c] >= enemy_hp[c]
                                    THEN "empty" ELSE sector[c]]
      /\ enemy_hp' = [c \in Cells |-> IF sector[c] \in Hostile
                                      THEN Less(enemy_hp[c], dmg[c]) ELSE enemy_hp[c]]
  BY DEF Blow
<1>3. /\ \A d \in Cells : sector'[d] = IF sector[d] \in Hostile /\ dmg[d] >= enemy_hp[d]
                                       THEN "empty" ELSE sector[d]
      /\ \A d \in Cells : enemy_hp'[d] = IF sector[d] \in Hostile
                                         THEN Less(enemy_hp[d], dmg[d]) ELSE enemy_hp[d]
  BY <1>2
<1>4. ASSUME NEW d \in Cells
      PROVE  /\ Less(enemy_hp[d], dmg[d]) \in 0 .. MaxHp
             /\ Less(enemy_hp[d], dmg[d]) > 0 <=> ~(dmg[d] >= enemy_hp[d])
  <2>1. enemy_hp[d] \in 0 .. MaxHp /\ dmg[d] \in Nat
    BY <1>1
  <2> QED BY <1>1, <2>1 DEF Less
<1>5. sector' \in [Cells -> Contents] /\ enemy_hp' \in [Cells -> 0 .. MaxHp]
  BY <1>1, <1>2, <1>4 DEF Contents
<1>6. \A d \in Cells : \/ sector'[d] = sector[d]
                       \/ sector[d] \in Loose \ {"ship"} /\ sector'[d] \in Loose \ {"ship"}
  BY <1>3 DEF Loose, Hostile
<1>7. \A d \in Cells : enemy_hp'[d] > 0 <=> sector'[d] \in Hostile \cup {"pod"}
  BY <1>1, <1>3, <1>4 DEF Hostile
<1>8. Shown(sector', Hostile)
        = Shown(sector, Hostile) \ {d \in Shown(sector, Hostile) : dmg[d] >= enemy_hp[d]}
  BY <1>3 DEF Shown, Hostile
<1> QED BY <1>5, <1>6, <1>7, <1>8

\* Where a supernova throws the ship.
LEMMA ThrownIs == ASSUME quad \in Quads, NEW c \in Cells PROVE Thrown(c) \in Quads /\ Thrown(c) # quad
<1>1. /\ GAL_DIM \in Nat \ {0, 1} /\ quad[1] \in 0 .. GAL_DIM - 1 /\ quad[2] \in 0 .. GAL_DIM - 1
      /\ quad = <<quad[1], quad[2]>>
      /\ \A i, j \in 0 .. GAL_DIM - 1 : <<i, j>> \in Quads
      /\ c[1] \in Nat /\ c[2] \in Nat
  <2>1. GAL_DIM \in Nat \ {0, 1} /\ QUAD_DIM \in Nat \ {0, 1}
    BY SectorsAssumption DEF SectorsAssumption
  <2>2. c[1] \in 0 .. QUAD_DIM - 1 /\ c[2] \in 0 .. QUAD_DIM - 1
    BY CoordsAre
  <2> QED BY <2>1, <2>2, CoordsAre
<1> DEFINE x == quad[1]
           y == quad[2]
<1>2. \/ Thrown(c) = <<x + 1, y>> /\ x < GAL_DIM - 1
      \/ Thrown(c) = <<x - 1, y>> /\ x > 0
      \/ Thrown(c) = <<x, y + 1>> /\ y < GAL_DIM - 1
  BY <1>1 DEF Thrown
<1>3. x \in 0 .. GAL_DIM - 1 /\ y \in 0 .. GAL_DIM - 1 /\ quad = <<x, y>>
  BY <1>1
<1> HIDE DEF x, y
<1>4. CASE Thrown(c) = <<x + 1, y>> /\ x < GAL_DIM - 1
  <2>1. x + 1 \in 0 .. GAL_DIM - 1 /\ x + 1 # x
    BY <1>1, <1>3, <1>4
  <2> QED BY <1>1, <1>3, <1>4, <2>1
<1>5. CASE Thrown(c) = <<x - 1, y>> /\ x > 0
  <2>1. x - 1 \in 0 .. GAL_DIM - 1 /\ x - 1 # x
    BY <1>1, <1>3, <1>5
  <2> QED BY <1>1, <1>3, <1>5, <2>1
<1>6. CASE Thrown(c) = <<x, y + 1>> /\ y < GAL_DIM - 1
  <2>1. y + 1 \in 0 .. GAL_DIM - 1 /\ y + 1 # y
    BY <1>1, <1>3, <1>6
  <2> QED BY <1>1, <1>3, <1>6, <2>1
<1> QED BY <1>2, <1>4, <1>5, <1>6

\* A star goes off here: the ship is thrown into another quadrant, or lost.
LEMMA SupernovaKeeps == ASSUME SectorsInv, NEW c \in Cells, Supernova(c) PROVE SectorsInv'
<1> DEFINE q == Thrown(c)
           things == IF gal.enemies[quad] > 0 THEN Hostile ELSE {}
           g2 == Burn(gal, quad)
<1>1. /\ Typed(pc', fired') /\ gal' = g2
      /\ IF q \in gal'.nova
         THEN /\ lost' = TRUE /\ Without(things) /\ UNCHANGED <<quad, cell, docked>>
         ELSE Enter(q, cell) /\ UNCHANGED lost
  BY DEF Supernova, Tubes, Typed
<1>2. quad \in Quads /\ cell \in Cells /\ lost \in BOOLEAN /\ Charted(gal)
  BY SectorsFacts
<1>3. q \in Quads /\ q # quad
  BY <1>2, ThrownIs
<1>4. /\ Charted(g2) /\ g2.base \subseteq gal.base /\ g2.nova = gal.nova \cup {quad}
      /\ \A r \in Quads \ {quad} : /\ g2.stars[r] = gal.stars[r] /\ g2.star_gone[r] = gal.star_gone[r]
                                   /\ g2.enemies[r] = gal.enemies[r]
  BY <1>2, QuadrantBurnt
<1>5. things \in {Hostile, {}}
  OBVIOUS
<1> HIDE DEF q, things, g2
<1>6. Charted(gal)'
  BY <1>1, <1>4
<1>7. CASE q \in gal'.nova
  <2>1. lost' = TRUE /\ Without(things) /\ UNCHANGED <<quad, cell, docked>>
    BY <1>1, <1>7
  <2>2. /\ sector' \in [Cells -> Contents] /\ enemy_hp' \in [Cells -> 0 .. MaxHp]
        /\ \A d \in Cells : \/ sector'[d] = sector[d]
                            \/ sector[d] \in Loose \ {"ship"} /\ sector'[d] \in Loose \ {"ship"}
        /\ \A d \in Cells : enemy_hp'[d] > 0 <=> sector'[d] \in Hostile \cup {"pod"}
    BY <1>5, <2>1, WithoutIs
  <2>3. quad \in gal'.nova /\ lost' \in BOOLEAN /\ (lost => lost')
    BY <1>1, <1>4, <2>1
  <2> QED BY <1>1, <1>6, <2>1, <2>2, <2>3, LooseKeeps
<1>8. CASE q \notin gal'.nova
  <2>1. Enter(q, cell) /\ lost' \in BOOLEAN
    BY <1>1, <1>2, <1>8
  <2>2. /\ q \notin gal.nova /\ gal'.base \subseteq gal.base
        /\ gal'.stars[q] = gal.stars[q] /\ gal'.star_gone[q] = gal.star_gone[q]
        /\ gal'.enemies[q] = gal.enemies[q]
    BY <1>1, <1>3, <1>4, <1>8
  <2> QED BY <1>1, <1>2, <1>3, <1>6, <2>1, <2>2, EnterKeeps DEF Typed
<1> QED BY <1>7, <1>8

\* As many off the chart as off the map.
LEMMA PlasmaBoltKeeps == ASSUME SectorsInv, PlasmaBolt PROVE SectorsInv'
<1>1. /\ UNCHANGED <<quad, cell, docked, lost>> /\ Typed(pc', fired')
  BY DEF PlasmaBolt, ship, Typed
<1>2. PICK hit \in [Standing(Hostile) -> 1 .. MaxHp] :
        /\ Blow([c \in Cells |-> IF c \in DOMAIN hit THEN hit[c] ELSE 0])
        /\ gal' = [gal EXCEPT !.enemies[quad] =
                     Less(@, Cardinality({c \in DOMAIN hit : hit[c] >= enemy_hp[c]}))]
  BY DEF PlasmaBolt
<1> DEFINE dmg == [c \in Cells |-> IF c \in DOMAIN hit THEN hit[c] ELSE 0]
           S == Shown(sector, Hostile)
           K == {d \in S : dmg[d] >= enemy_hp[d]}
           n == Cardinality(K)
           g2 == [gal EXCEPT !.enemies[quad] = Less(@, n)]
<1>3. Standing(Hostile) = S /\ S \subseteq Cells
  BY DEF Standing, Shown
<1>4. dmg \in [Cells -> Nat]
  BY <1>3, SectorsFacts
<1>5. {c \in DOMAIN hit : hit[c] >= enemy_hp[c]} = K
  BY <1>3
<1>6. Blow(dmg) /\ gal' = g2
  BY <1>2, <1>5
<1>7. /\ quad \in Quads /\ Charted(gal) /\ lost \in BOOLEAN
      /\ quad \notin gal.nova => Cardinality(S) <= gal.enemies[quad]
  BY SectorsFacts
<1>8. K \in SUBSET S /\ IsFiniteSet(S) /\ Cardinality(S) \in Nat /\ n \in Nat
  BY <1>3, CellsFinite
<1> HIDE DEF dmg, g2, n, K, S
<1>9. /\ sector' \in [Cells -> Contents] /\ enemy_hp' \in [Cells -> 0 .. MaxHp]
      /\ \A d \in Cells : \/ sector'[d] = sector[d]
                          \/ sector[d] \in Loose \ {"ship"} /\ sector'[d] \in Loose \ {"ship"}
      /\ \A d \in Cells : enemy_hp'[d] > 0 <=> sector'[d] \in Hostile \cup {"pod"}
      /\ Shown(sector', Hostile) = S \ K
  BY <1>4, <1>6, BlowIs DEF S, K
<1>10. /\ Charted(g2) /\ g2.stars = gal.stars /\ g2.star_gone = gal.star_gone
       /\ g2.base = gal.base /\ g2.nova = gal.nova /\ g2.enemies[quad] = Less(gal.enemies[quad], n)
  BY <1>7, <1>8, ShipsStruck DEF g2
<1>11. Cardinality(S \ K) = Cardinality(S) - n
  <2>1. S \cap K = K
    BY <1>8
  <2> QED BY <1>8, <2>1, FS_Difference DEF n
<1>12. gal.enemies[quad] \in Nat
  BY <1>7, ChartIs
<1>13. Less(gal.enemies[quad], n) >= gal.enemies[quad] - n /\ Less(gal.enemies[quad], n) \in Nat
  BY <1>8, <1>12, LessIs
<1>14. quad \notin gal.nova => Cardinality(Shown(sector', Hostile)) <= g2.enemies[quad]
  BY <1>7, <1>8, <1>9, <1>10, <1>11, <1>12, <1>13
<1>15. Charted(gal)' /\ lost' \in BOOLEAN /\ (lost => lost')
  BY <1>1, <1>6, <1>7, <1>10
<1> QED BY <1>1, <1>6, <1>9, <1>10, <1>14, <1>15, LooseKeeps

\* The ray that works takes every enemy off the map and none off the chart.
LEMMA RayWorksKeeps == ASSUME SectorsInv, RayWorks PROVE SectorsInv'
<1>1. UNCHANGED <<quad, cell, docked, lost, gal>> /\ Typed(pc', fired') /\ Without(Hostile)
  BY DEF RayWorks, ship, Typed
<1>2. /\ sector' \in [Cells -> Contents] /\ enemy_hp' \in [Cells -> 0 .. MaxHp]
      /\ \A d \in Cells : \/ sector'[d] = sector[d]
                          \/ sector[d] \in Loose \ {"ship"} /\ sector'[d] \in Loose \ {"ship"}
      /\ \A d \in Cells : enemy_hp'[d] > 0 <=> sector'[d] \in Hostile \cup {"pod"}
      /\ Shown(sector', Hostile) = {}
  BY <1>1, WithoutIs
<1>3. Charted(gal)' /\ lost' \in BOOLEAN /\ (lost => lost')
  BY <1>1, SectorsFacts
<1>4. Cardinality(Shown(sector', Hostile)) <= gal'.enemies[quad]
  <2>1. gal.enemies[quad] \in Nat
    BY SectorsFacts, ChartIs
  <2> QED BY <1>1, <1>2, <2>1, FS_EmptySet
<1> QED BY <1>1, <1>2, <1>3, <1>4, LooseKeeps

\* An enemy fewer or none: what the chart counts is still enough.
LEMMA QuietLooseKeeps ==
    ASSUME SectorsInv, UNCHANGED <<quad, cell, docked, lost, gal>>, Typed(pc', fired'),
           sector' \in [Cells -> Contents], enemy_hp' \in [Cells -> 0 .. MaxHp],
           \A d \in Cells : \/ sector'[d] = sector[d]
                            \/ sector[d] \in Loose \ {"ship"} /\ sector'[d] \in Loose \ {"ship"},
           \A d \in Cells : enemy_hp'[d] > 0 <=> sector'[d] \in Hostile \cup {"pod"},
           Cardinality(Shown(sector', Hostile)) <= Cardinality(Shown(sector, Hostile))
    PROVE  SectorsInv'
<1>1. Charted(gal)' /\ lost' \in BOOLEAN /\ (lost => lost')
  BY SectorsFacts
<1>2. quad \notin gal.nova => Cardinality(Shown(sector', Hostile)) <= gal.enemies[quad]
  <2>1. gal.enemies[quad] \in Nat
    BY SectorsFacts, ChartIs
  <2>2. Cardinality(Shown(sector, Hostile)) \in Nat /\ Cardinality(Shown(sector', Hostile)) \in Nat
    BY CellsFinite DEF Shown
  <2>3. quad \notin gal.nova => Cardinality(Shown(sector, Hostile)) <= gal.enemies[quad]
    BY SectorsFacts
  <2> QED BY <2>1, <2>2, <2>3
<1> QED BY <1>1, <1>2, LooseKeeps

\* The ray that opens holes, in empty cells.
LEMMA RayHolesKeeps == ASSUME SectorsInv, RayHoles PROVE SectorsInv'
<1>1. UNCHANGED <<quad, cell, docked, lost, gal, enemy_hp>> /\ Typed(pc', fired')
  BY DEF RayHoles, ship, Typed
<1>2. PICK holes \in SUBSET (Standing({"empty"}) \cap Spots) :
        sector' = [c \in Cells |-> IF c \in holes THEN "hole" ELSE sector[c]]
  BY DEF RayHoles
<1>3. /\ sector \in [Cells -> Contents] /\ enemy_hp \in [Cells -> 0 .. MaxHp]
      /\ \A d \in Cells : enemy_hp[d] > 0 <=> sector[d] \in Hostile \cup {"pod"}
  BY SectorsFacts
<1>4. \A d \in Cells : \/ sector'[d] = sector[d] /\ d \notin holes
                       \/ sector[d] = "empty" /\ sector'[d] = "hole"
  BY <1>2 DEF Standing
<1>5. sector' \in [Cells -> Contents]
  BY <1>2, <1>3 DEF Contents
<1>6. /\ \A d \in Cells : \/ sector'[d] = sector[d]
                          \/ sector[d] \in Loose \ {"ship"} /\ sector'[d] \in Loose \ {"ship"}
      /\ \A d \in Cells : enemy_hp'[d] > 0 <=> sector'[d] \in Hostile \cup {"pod"}
      /\ \A d \in Cells : sector'[d] \in Hostile => sector[d] \in Hostile
  BY <1>1, <1>3, <1>4 DEF Loose, Hostile
<1>7. Cardinality(Shown(sector', Hostile)) <= Cardinality(Shown(sector, Hostile))
  BY <1>6, FewerHostile
<1> QED BY <1>1, <1>3, <1>5, <1>6, <1>7, QuietLooseKeeps

\* The pod's blow.
LEMMA RunPodKeeps == ASSUME SectorsInv, NEW hit \in 1 .. MaxHp, RunPod(hit) PROVE SectorsInv'
<1> DEFINE dmg == [c \in Cells |-> hit]
<1>1. UNCHANGED <<quad, cell, docked, lost, gal>> /\ Typed(pc', fired') /\ Blow(dmg)
  BY SectorsFacts DEF RunPod, ship, Typed
<1>2. dmg \in [Cells -> Nat]
  BY SectorsFacts
<1> HIDE DEF dmg
<1>3. /\ sector' \in [Cells -> Contents] /\ enemy_hp' \in [Cells -> 0 .. MaxHp]
      /\ \A d \in Cells : \/ sector'[d] = sector[d]
                          \/ sector[d] \in Loose \ {"ship"} /\ sector'[d] \in Loose \ {"ship"}
      /\ \A d \in Cells : enemy_hp'[d] > 0 <=> sector'[d] \in Hostile \cup {"pod"}
      /\ Shown(sector', Hostile) \subseteq Shown(sector, Hostile)
  BY <1>1, <1>2, BlowIs
<1>4. \A d \in Cells : sector'[d] \in Hostile => sector[d] \in Hostile
  BY <1>3 DEF Shown
<1>5. Cardinality(Shown(sector', Hostile)) <= Cardinality(Shown(sector, Hostile))
  BY <1>4, FewerHostile
<1> QED BY <1>1, <1>3, <1>5, QuietLooseKeeps

\* A Commander's next cell is on the map.
LEMMA PursuitIs == ASSUME cell \in Cells, NEW c \in Cells PROVE Pursuit(c) \in Cells
<1>1. QUAD_DIM \in Nat \ {0}
  BY SectorsAssumption DEF SectorsAssumption
<1>2. /\ c[1] \in 0 .. QUAD_DIM - 1 /\ c[2] \in 0 .. QUAD_DIM - 1
      /\ cell[1] \in 0 .. QUAD_DIM - 1 /\ cell[2] \in 0 .. QUAD_DIM - 1
  BY CoordsAre
<1>3. Toward(c[1], cell[1]) \in 0 .. QUAD_DIM - 1 /\ Toward(c[2], cell[2]) \in 0 .. QUAD_DIM - 1
  BY <1>1, <1>2 DEF Toward
<1> QED BY <1>3, CoordsAre DEF Pursuit

\* He takes his hit points along.
LEMMA EnemiesMoveKeeps == ASSUME SectorsInv, EnemiesMove PROVE SectorsInv'
<1>1. Typed(pc', fired') /\ UNCHANGED <<ship, gal>>
  BY DEF EnemiesMove, AfterTurn, Typed
<1>2. CASE UNCHANGED map
  BY <1>1, <1>2, IdleKeeps
<1>3. ASSUME NEW c \in Standing({"commander"}), sector[Pursuit(c)] = "empty", CloseIn(c)
      PROVE  SectorsInv'
  <2> DEFINE p == Pursuit(c)
  <2>1. c \in Cells /\ sector[c] = "commander" /\ p \in Cells /\ sector[p] = "empty" /\ p # c
    <3>1. c \in Cells /\ sector[c] = "commander"
      BY DEF Standing
    <3>2. p \in Cells
      BY <3>1, SectorsFacts, PursuitIs
    <3> QED BY <1>3, <3>1, <3>2
  <2>2. /\ sector' = [sector EXCEPT ![c] = "empty", ![p] = "commander"]
        /\ enemy_hp' = [enemy_hp EXCEPT ![c] = 0, ![p] = enemy_hp[c]]
    BY <1>3 DEF CloseIn
  <2> HIDE DEF p
  <2>3. /\ sector \in [Cells -> Contents] /\ enemy_hp \in [Cells -> 0 .. MaxHp] /\ MaxHp \in Nat
        /\ \A d \in Cells : enemy_hp[d] > 0 <=> sector[d] \in Hostile \cup {"pod"}
    BY SectorsFacts
  <2>4. /\ sector' \in [Cells -> Contents] /\ enemy_hp' \in [Cells -> 0 .. MaxHp]
        /\ \A d \in Cells : sector'[d] = IF d = p THEN "commander" ELSE IF d = c THEN "empty" ELSE sector[d]
        /\ \A d \in Cells : enemy_hp'[d] = IF d = p THEN enemy_hp[c] ELSE IF d = c THEN 0 ELSE enemy_hp[d]
    BY <2>1, <2>2, <2>3 DEF Contents, Hostile
  <2>5. /\ \A d \in Cells : \/ sector'[d] = sector[d]
                            \/ sector[d] \in Loose \ {"ship"} /\ sector'[d] \in Loose \ {"ship"}
        /\ \A d \in Cells : enemy_hp'[d] > 0 <=> sector'[d] \in Hostile \cup {"pod"}
    BY <2>1, <2>3, <2>4 DEF Loose, Hostile
  <2> DEFINE S == Shown(sector, Hostile)
  <2>6. Shown(sector', Hostile) = (S \ {c}) \cup {p} /\ c \in S /\ p \notin S \ {c}
    BY <2>1, <2>4 DEF Shown, Hostile
  <2>7. IsFiniteSet(S) /\ Cardinality(S) \in Nat
    BY CellsFinite DEF Shown
  <2> HIDE DEF S
  <2>8. IsFiniteSet(S \ {c}) /\ Cardinality(S \ {c}) = Cardinality(S) - 1
    BY <2>6, <2>7, FS_RemoveElement
  <2>9. Cardinality((S \ {c}) \cup {p}) = Cardinality(S \ {c}) + 1
    BY <2>6, <2>8, FS_AddElement
  <2>10. Cardinality(Shown(sector', Hostile)) <= Cardinality(Shown(sector, Hostile))
    BY <2>6, <2>7, <2>8, <2>9 DEF S
  <2> QED BY <1>1, <2>4, <2>5, <2>10, QuietLooseKeeps DEF ship
<1> QED BY <1>2, <1>3 DEF EnemiesMove

\* The first quadrant of a new game is drawn with the stars of the last one.
LEMMA NewGameKeeps == ASSUME SectorsInv, NewGame PROVE SectorsInv'
<1> DEFINE g1 == [NewGalaxy EXCEPT !.star_gone = gal.star_gone]
<1>1. /\ Typed(pc', fired') /\ gal' = NewGalaxy /\ lost' = FALSE /\ docked' = FALSE
      /\ enemy_hp' = Armed(sector')
  BY DEF NewGame, Typed
<1>2. PICK q \in Quads, c \in Berths : quad' = q /\ cell' = c /\ sector' \in Layouts(g1, q, c)
  BY DEF NewGame
<1>3. c \in Cells
  BY SectorsAssumption DEF SectorsAssumption
<1>4. Charted(g1) /\ Charted(NewGalaxy)
  BY SectorsFacts, NewGalaxyIs
<1>5. /\ g1.nova = {} /\ g1.stars = NewGalaxy.stars /\ g1.enemies = NewGalaxy.enemies
      /\ g1.base = NewGalaxy.base /\ NewGalaxy.star_gone = [r \in Quads |-> 0]
      /\ g1.star_gone = gal.star_gone
  BY DEF NewGalaxy
<1>6. gal.star_gone[q] \in Nat
  BY SectorsFacts, ChartIs
<1> HIDE DEF g1
<1>7. /\ sector' \in [Cells -> Contents] /\ Shown(sector', {"ship"}) = {c}
      /\ q \notin g1.nova => Faithful(sector', g1, q)
  BY <1>2, <1>3, <1>4, LayoutIs
<1>8. Mapped(sector', enemy_hp', cell')
  BY <1>1, <1>2, <1>7, ArmedIs
<1>9. Faithful(sector', NewGalaxy, q)
  <2>1. Faithful(sector', g1, q)
    BY <1>5, <1>7
  <2>2. Cardinality(Shown(sector', {"nova"})) \in Nat
    BY CellsFinite DEF Shown
  <2>3. NewGalaxy.star_gone[q] = 0
    BY <1>5
  <2> QED BY <1>5, <2>1, <2>2, <2>3 DEF Faithful
<1>10. Charted(gal)' /\ docked' \in BOOLEAN /\ lost' \in BOOLEAN /\ Moored'
  BY <1>1, <1>4 DEF Moored
<1> QED BY <1>1, <1>2, <1>3, <1>8, <1>9, <1>10 DEF SectorsInv, Typed

\* Every step keeps it.
LEMMA SectorsKept == SectorsInv /\ [Next]_vars => SectorsInv'
<1> SUFFICES ASSUME SectorsInv, [Next]_vars PROVE SectorsInv'
  OBVIOUS
<1>0. Typed(pc, fired)
  BY SectorsFacts
<1>1. CASE UNCHANGED vars
  BY <1>0, <1>1, IdleKeeps DEF vars
<1>2. ASSUME NEW c \in Cells, Impulse(c) PROVE SectorsInv'
  BY <1>2, ImpulseKeeps
<1>3. ASSUME NEW c \in Cells, StarGone(c) PROVE SectorsInv'
  BY <1>3, StarGoneKeeps
<1>4. ASSUME NEW c \in Cells, Supernova(c) PROVE SectorsInv'
  BY <1>4, SupernovaKeeps
<1>5. ASSUME NEW c \in Cells, NEW dmg \in 1 .. MaxHp, Hit(c, dmg) PROVE SectorsInv'
  BY <1>5, HitKeeps
<1>6. ASSUME NEW q \in Quads, NEW c \in Berths, Warp(q, c) PROVE SectorsInv'
  BY <1>6, WarpKeeps
<1>7. CASE Other \/ EndVolley \/ NoNova \/ NoPod \/ EnemiesStay
  <2>1. UNCHANGED <<ship, map, gal>> /\ Typed(pc', fired')
    BY <1>0, <1>7 DEF Other, EndVolley, NoNova, NoPod, EnemiesStay, AfterTurn, Typed
  <2> QED BY <2>1, IdleKeeps
<1>8. CASE Dock
  BY <1>8, DockKeeps
<1>9. CASE PlasmaBolt
  BY <1>9, PlasmaBoltKeeps
<1>10. CASE RayWorks
  BY <1>10, RayWorksKeeps
<1>11. CASE RayHoles
  BY <1>11, RayHolesKeeps
<1>12. CASE RayFatal
  BY <1>12, RayFatalKeeps
<1>13. CASE NewGame
  BY <1>13, NewGameKeeps
<1>14. ASSUME NEW q \in Quads, BaseFalls(q) \/ RunNova(q) PROVE SectorsInv'
  BY <1>14, ElsewhereKeeps
<1>15. CASE EnemiesMove
  BY <1>15, EnemiesMoveKeeps
<1>16. ASSUME NEW hit \in 1 .. MaxHp, RunPod(hit) PROVE SectorsInv'
  BY <1>16, RunPodKeeps
<1>17. CASE Orders
  BY <1>2, <1>3, <1>4, <1>5, <1>6, <1>7, <1>8, <1>9, <1>10, <1>11, <1>12, <1>13, <1>17 DEF Orders
<1>18. CASE Turn
  BY <1>7, <1>14, <1>15, <1>16, <1>18 DEF Turn
<1> QED BY <1>1, <1>17, <1>18 DEF Next

\* The invariant holds of every play.
THEOREM SectorsInvariant == Spec => []SectorsInv
<1>1. Init => SectorsInv
  BY InitSectors
<1>2. SectorsInv /\ [Next]_vars => SectorsInv'
  BY SectorsKept
<1> QED BY <1>1, <1>2, PTL DEF Spec

\* Every cell holds what SEC_* names, no hit point or count goes below zero, and a
\* quadrant remembers no more losses than it had stars (trek_enter_quadrant, the orders).
THEOREM SectorsTyped == Spec => []TypeOK
<1>1. SectorsInv => TypeOK
  <2> SUFFICES ASSUME SectorsInv PROVE TypeOK
    OBVIOUS
  <2>1. /\ gal.stars \in [Quads -> Nat] /\ gal.star_gone \in [Quads -> Nat]
        /\ gal.enemies \in [Quads -> Nat] /\ gal.base \cup gal.nova \subseteq Quads
        /\ \A q \in Quads : gal.star_gone[q] <= Stars[q]
    BY SectorsFacts, ChartIs
  <2> QED BY <2>1, SectorsFacts DEF TypeOK, Typed
<1> QED BY <1>1, SectorsInvariant, PTL

\* Whatever moved, died or was thrown: the map shows the ship in the one cell the ship
\* believes it is in, hit points stand where an enemy or the pod does, and a docked ship
\* is beside a base on the map (walk_path, enter_black_hole, enemy_step).
THEOREM TheSectorsAgree == Spec => []SectorsAgree
<1>1. SectorsInv => SectorsAgree
  <2> SUFFICES ASSUME SectorsInv PROVE SectorsAgree
    OBVIOUS
  <2>1. Standing({"ship"}) = Shown(sector, {"ship"})
    BY DEF Standing, Shown
  <2> QED BY <2>1, SectorsFacts DEF SectorsAgree, Moored
<1> QED BY <1>1, SectorsInvariant, PTL

\* As long as the quadrant stands, the map has every star of the chart, its base, its
\* planet, and no more enemies than the chart counts: nothing is flown over or stepped on.
THEOREM TheSectorsAreCharted == Spec => []SectorsAsCharted
<1>1. SectorsInv => SectorsAsCharted
  <2> SUFFICES ASSUME SectorsInv, quad \notin gal.nova PROVE Faithful(sector, gal, quad)
    BY DEF SectorsAsCharted, Faithful, Standing, Shown
  <2> QED BY DEF SectorsInv
<1> QED BY <1>1, SectorsInvariant, PTL

\* In a galaxy of any size: a move ends where the rounded line first meets something,
\* and is billed the floor of what it covered, never more than was asked (walk_path).
THEOREM MovesKeepTheLine == Spec => []MovesOnTheLine
<1>1. SectorsInv => MovesOnTheLine
  BY TheLine, SectorsFacts
<1> QED BY <1>1, SectorsInvariant, PTL

=============================================================================
