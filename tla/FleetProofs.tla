----------------------------- MODULE FleetProofs -----------------------------
(***************************************************************************)
(* What module Fleet promises for every galaxy: no quadrant is fought with *)
(* more ships than the chart has there, a burnt quadrant stays empty, and  *)
(* chart, score sheet and mission count account for every ship as module   *)
(* Muster has it.  The inductive invariant types the chart and the sectors *)
(* and keeps the one within the other; the counts of the score sheet are   *)
(* typed on top of it.  What a chart adds up to is a fold over a set, and  *)
(* is proved first to be the sum it looks like.                            *)
(***************************************************************************)
EXTENDS Fleet, FiniteSetTheorems, WellFoundedInduction, TLAPS

-----------------------------------------------------------------------------
(* What a chart adds up to.  MapThenSumSet takes the quadrants one by one, in
   an order nothing is said about; these lemmas say that none matters. *)

LEMMA QuadsAreFinite ==
    /\ IsFiniteSet(Quads)
    /\ \A s \in SUBSET Quads : IsFiniteSet(s) /\ Cardinality(s) \in Nat
<1>1. Cells \in Nat
  BY FleetAssumption, SMT DEF FleetAssumption, Cells
<1>2. IsFiniteSet(0 .. (Cells - 1))
  BY <1>1, FS_Interval
<1> QED
  BY <1>2, FS_Subset, FS_CardinalityType DEF Quads

\* A set of numbers that is not empty has a least member.
LEMMA LeastOf ==
    ASSUME NEW S, S \subseteq Nat, S # {}
    PROVE  \E x \in S : \A y \in S : x <= y
<1> DEFINE R == {ss \in Nat \X Nat : ss[1] < ss[2]}
<1>1. IsWellFoundedOn(R, Nat)
  BY NatLessThanWellFounded DEF OpToRel
<1> HIDE DEF R
<1>2. PICK x \in S : \A y \in S : ~(<<y, x>> \in R)
  BY <1>1, WFMin
<1>3. ASSUME NEW y \in S PROVE x <= y
  <2>1. x \in Nat /\ y \in Nat
    OBVIOUS
  <2>2. ~(y < x)
    BY <1>2, <2>1 DEF R
  <2> QED
    BY <2>1, <2>2
<1> QED
  BY <1>3

\* A set that is not empty has more than what is left of it without one.
LEMMA OneFewer ==
    ASSUME NEW s \in SUBSET Quads, NEW x \in s
    PROVE  /\ s \ {x} \in SUBSET Quads
           /\ Cardinality(s) \in Nat /\ Cardinality(s) = Cardinality(s \ {x}) + 1
<1>1. IsFiniteSet(s) /\ Cardinality(s) \in Nat
  BY QuadsAreFinite
<1>2. Cardinality(s \ {x}) = Cardinality(s) - 1
  BY <1>1, FS_RemoveElement
<1> QED
  BY <1>1, <1>2

\* Of any sets of quadrants there is one that has none of the others one
\* quadrant short of it: what fails for some set fails for a first.
LEMMA FewestOf ==
    ASSUME NEW B \in SUBSET (SUBSET Quads), B # {}
    PROVE  \E s \in B : \A x \in s : s \ {x} \notin B
<1> DEFINE N == {Cardinality(s) : s \in B}
<1>1. N \subseteq Nat /\ N # {}
  BY QuadsAreFinite
<1>2. PICK n \in N : \A m \in N : n <= m
  <2> HIDE DEF N
  <2> QED
    BY <1>1, LeastOf
<1>3. PICK s \in B : n = Cardinality(s)
  OBVIOUS
<1>4. ASSUME NEW x \in s, s \ {x} \in B PROVE FALSE
  <2>1. n <= Cardinality(s \ {x})
    BY <1>2, <1>4
  <2>2. Cardinality(s) \in Nat /\ Cardinality(s \ {x}) \in Nat
        /\ Cardinality(s) = Cardinality(s \ {x}) + 1
    BY OneFewer, QuadsAreFinite
  <2> QED
    BY <1>3, <2>1, <2>2
<1> QED
  BY <1>4

\* The sums of f over the sets of quadrants in U, each from a smaller one's.
SumsOn(g, f, U) ==
    g = [s \in U |-> IF s = {} THEN 0
                     ELSE LET x == CHOOSE y \in s : TRUE IN f[x] + g[s \ {x}]]
Sums(f) == CHOOSE g : SumsOn(g, f, SUBSET Quads)

LEMMA StrengthIsSum == \A f : Strength(f) = Sums(f)[Quads]
  BY DEF Strength, Sums, SumsOn, MapThenSumSet, MapThenFoldSet

LEMMA SumsExist == \A f : SumsOn(Sums(f), f, SUBSET Quads)
<1> SUFFICES ASSUME NEW f PROVE \E g : SumsOn(g, f, SUBSET Quads)
  BY DEF Sums
<1> DEFINE Upto(n) == {s \in SUBSET Quads : Cardinality(s) <= n}
           Bad == {n \in Nat : ~\E g : SumsOn(g, f, Upto(n))}
<1>1. Bad = {}
  <2> SUFFICES ASSUME Bad # {} PROVE FALSE
    OBVIOUS
  <2>1. PICK n \in Bad : \A m \in Bad : n <= m
    <3>1. Bad \subseteq Nat
      OBVIOUS
    <3> HIDE DEF Bad
    <3> QED
      BY <3>1, LeastOf
  <2>2. n \in Nat /\ ~\E g : SumsOn(g, f, Upto(n))
    OBVIOUS
  <2>3. CASE n = 0
    <3> DEFINE g == [s \in Upto(n) |-> 0]
    <3>1. ASSUME NEW s \in Upto(n) PROVE s = {}
      <4>1. IsFiniteSet(s) /\ Cardinality(s) = 0
        BY <2>3, QuadsAreFinite
      <4> QED
        BY <4>1, FS_EmptySet
    <3>2. SumsOn(g, f, Upto(n))
      BY <3>1 DEF SumsOn
    <3> QED
      BY <2>2, <3>2
  <2>4. CASE n # 0
    <3>1. n - 1 \in Nat /\ n - 1 \notin Bad
      <4>1. n - 1 \in Nat /\ ~(n <= n - 1)
        BY <2>2, <2>4
      <4> HIDE DEF Bad
      <4> QED
        BY <2>1, <4>1
    <3>2. PICK h : SumsOn(h, f, Upto(n - 1))
      BY <3>1
    <3> DEFINE g == [s \in Upto(n) |-> IF s = {} THEN 0
                        ELSE LET x == CHOOSE y \in s : TRUE IN f[x] + h[s \ {x}]]
    <3>3. ASSUME NEW s \in Upto(n - 1) PROVE g[s] = h[s]
      <4>1. s \in Upto(n)
        <5>1. Cardinality(s) \in Nat
          BY QuadsAreFinite
        <5> QED
          BY <2>2, <5>1
      <4>2. h[s] = IF s = {} THEN 0
                   ELSE LET x == CHOOSE y \in s : TRUE IN f[x] + h[s \ {x}]
        <5> HIDE DEF Upto
        <5> QED
          BY <3>2 DEF SumsOn
      <4> HIDE DEF Upto
      <4> QED
        BY <4>1, <4>2
    <3>4. ASSUME NEW s \in Upto(n), s # {}
          PROVE  LET x == CHOOSE y \in s : TRUE IN h[s \ {x}] = g[s \ {x}]
      <4> DEFINE x == CHOOSE y \in s : TRUE
      <4>1. x \in s
        BY <3>4
      <4> HIDE DEF x
      <4>2. s \ {x} \in Upto(n - 1)
        <5>1. /\ s \ {x} \in SUBSET Quads /\ Cardinality(s) = Cardinality(s \ {x}) + 1
              /\ Cardinality(s) \in Nat /\ Cardinality(s) <= n
          BY <4>1, OneFewer
        <5>2. Cardinality(s \ {x}) \in Nat
          BY <5>1, QuadsAreFinite
        <5> QED
          BY <2>2, <5>1, <5>2
      <4>3. h[s \ {x}] = g[s \ {x}]
        <5> HIDE DEF g, Upto
        <5> QED
          BY <3>3, <4>2
      <4> HIDE DEF g
      <4> QED
        BY <4>3 DEF x
    <3>5. SumsOn(g, f, Upto(n))
      <4>1. ASSUME NEW s \in Upto(n)
            PROVE  g[s] = IF s = {} THEN 0
                          ELSE LET x == CHOOSE y \in s : TRUE IN f[x] + g[s \ {x}]
        <5>1. g[s] = IF s = {} THEN 0
                     ELSE LET x == CHOOSE y \in s : TRUE IN f[x] + h[s \ {x}]
          <6> HIDE DEF Upto
          <6> QED
            OBVIOUS
        <5> HIDE DEF g, Upto
        <5> QED
          BY <3>4, <5>1
      <4>2. g = [s \in Upto(n) |-> g[s]]
        <5> HIDE DEF Upto
        <5> QED
          OBVIOUS
      <4> HIDE DEF g, Upto
      <4> QED
        BY <4>1, <4>2 DEF SumsOn
    <3> HIDE DEF g, Upto
    <3> QED
      BY <2>2, <3>5
  <2> QED
    BY <2>3, <2>4
<1>2. Cardinality(Quads) \in Nat
  BY QuadsAreFinite
<1>3. Upto(Cardinality(Quads)) = SUBSET Quads
  BY QuadsAreFinite, FS_Subset
<1>4. \E g : SumsOn(g, f, Upto(Cardinality(Quads)))
  <2> HIDE DEF Upto
  <2> QED
    BY <1>1, <1>2
<1> HIDE DEF Upto
<1> QED
  BY <1>3, <1>4

\* A sum of counts is one.
LEMMA SumsAreCounts ==
    ASSUME NEW f \in [Quads -> Nat]
    PROVE  /\ Sums(f)[{}] = 0
           /\ \A s \in SUBSET Quads : Sums(f)[s] \in Nat
           /\ \A s \in SUBSET Quads : s # {} =>
                 \E x \in s : Sums(f)[s] = f[x] + Sums(f)[s \ {x}]
<1> DEFINE g == Sums(f)
<1>1. ASSUME NEW s \in SUBSET Quads
      PROVE  g[s] = IF s = {} THEN 0
                    ELSE LET x == CHOOSE y \in s : TRUE IN f[x] + g[s \ {x}]
  <2>1. SumsOn(g, f, SUBSET Quads)
    BY SumsExist
  <2> HIDE DEF g
  <2> QED
    BY <2>1 DEF SumsOn
<1> HIDE DEF g
<1>2. g[{}] = 0
  BY <1>1
<1>3. ASSUME NEW s \in SUBSET Quads, s # {}
      PROVE  \E x \in s : g[s] = f[x] + g[s \ {x}]
  <2> DEFINE x == CHOOSE y \in s : TRUE
  <2>1. x \in s
    BY <1>3
  <2>2. g[s] = f[x] + g[s \ {x}]
    BY <1>1, <1>3
  <2> HIDE DEF x
  <2> QED
    BY <2>1, <2>2
<1> DEFINE Bad == {s \in SUBSET Quads : g[s] \notin Nat}
<1>4. Bad = {}
  <2> SUFFICES ASSUME Bad # {} PROVE FALSE
    OBVIOUS
  <2>1. PICK s \in Bad : \A x \in s : s \ {x} \notin Bad
    <3>1. Bad \in SUBSET (SUBSET Quads)
      OBVIOUS
    <3> HIDE DEF Bad
    <3> QED
      BY <3>1, FewestOf
  <2>2. s \in SUBSET Quads /\ g[s] \notin Nat /\ s # {}
    BY <1>2
  <2>3. PICK x \in s : g[s] = f[x] + g[s \ {x}]
    BY <1>3, <2>2
  <2>4. g[s \ {x}] \in Nat /\ f[x] \in Nat
    BY <2>1, <2>2
  <2> QED
    BY <2>2, <2>3, <2>4
<1> QED
  BY <1>2, <1>3, <1>4 DEF g

\* Any of a set's quadrants may be taken first.
LEMMA AnyFirst ==
    ASSUME NEW f \in [Quads -> Nat], NEW s \in SUBSET Quads, NEW x \in s
    PROVE  Sums(f)[s] = f[x] + Sums(f)[s \ {x}]
<1> DEFINE g == Sums(f)
           Bad == {t \in SUBSET Quads : \E y \in t : g[t] # f[y] + g[t \ {y}]}
<1>0. /\ \A t \in SUBSET Quads : g[t] \in Nat
      /\ \A t \in SUBSET Quads : t # {} => \E y \in t : g[t] = f[y] + g[t \ {y}]
  BY SumsAreCounts
<1> HIDE DEF g
<1>1. Bad = {}
  <2> SUFFICES ASSUME Bad # {} PROVE FALSE
    OBVIOUS
  <2>1. PICK t \in Bad : \A y \in t : t \ {y} \notin Bad
    <3>1. Bad \in SUBSET (SUBSET Quads)
      OBVIOUS
    <3> HIDE DEF Bad
    <3> QED
      BY <3>1, FewestOf
  <2>2. PICK y \in t : g[t] # f[y] + g[t \ {y}]
    OBVIOUS
  <2>3. t \in SUBSET Quads
    OBVIOUS
  <2>4. PICK c \in t : g[t] = f[c] + g[t \ {c}]
    BY <1>0, <2>3
  <2>5. c # y
    BY <2>2, <2>4
  <2>6. g[t \ {c}] = f[y] + g[(t \ {c}) \ {y}]
    BY <2>1, <2>3, <2>5
  <2>7. g[t \ {y}] = f[c] + g[(t \ {y}) \ {c}]
    BY <2>1, <2>3, <2>5
  <2>8. (t \ {y}) \ {c} = (t \ {c}) \ {y}
    OBVIOUS
  <2>9. /\ f[c] \in Nat /\ f[y] \in Nat /\ g[(t \ {c}) \ {y}] \in Nat
        /\ g[t \ {c}] \in Nat /\ g[t \ {y}] \in Nat
    BY <1>0, <2>3
  <2>10. g[t] = f[c] + (f[y] + g[(t \ {c}) \ {y}])
    BY <2>4, <2>6
  <2>11. f[y] + g[t \ {y}] = f[y] + (f[c] + g[(t \ {c}) \ {y}])
    BY <2>7, <2>8
  <2> HIDE DEF Bad
  <2> QED
    BY <2>2, <2>9, <2>10, <2>11
<1> QED
  BY <1>1 DEF g

\* Only the quadrants of a set count in its sum.
LEMMA SameSums ==
    ASSUME NEW f \in [Quads -> Nat], NEW h \in [Quads -> Nat],
           NEW s \in SUBSET Quads, \A q \in s : f[q] = h[q]
    PROVE  Sums(f)[s] = Sums(h)[s]
<1> DEFINE Bad == {t \in SUBSET s : Sums(f)[t] # Sums(h)[t]}
<1>1. Bad = {}
  <2> SUFFICES ASSUME Bad # {} PROVE FALSE
    OBVIOUS
  <2>1. PICK t \in Bad : \A y \in t : t \ {y} \notin Bad
    <3>1. Bad \in SUBSET (SUBSET Quads)
      OBVIOUS
    <3> HIDE DEF Bad
    <3> QED
      BY <3>1, FewestOf
  <2>2. t \in SUBSET Quads /\ t \in SUBSET s /\ Sums(f)[t] # Sums(h)[t]
    OBVIOUS
  <2>3. t # {}
    BY <2>2, SumsAreCounts
  <2>4. PICK y \in t : TRUE
    BY <2>3
  <2>5. Sums(f)[t \ {y}] = Sums(h)[t \ {y}]
    BY <2>1, <2>2
  <2>6. /\ Sums(f)[t] = f[y] + Sums(f)[t \ {y}]
        /\ Sums(h)[t] = h[y] + Sums(h)[t \ {y}]
    BY <2>2, AnyFirst
  <2>7. f[y] = h[y]
    BY <2>2
  <2> QED
    BY <2>2, <2>5, <2>6, <2>7
<1> QED
  BY <1>1

\* One quadrant's entry changes the fleet by the difference, and is part of it.
LEMMA StrengthChanges ==
    ASSUME NEW f \in [Quads -> Nat], NEW q \in Quads, NEW v \in Nat
    PROVE  /\ Strength(f) \in Nat /\ f[q] <= Strength(f)
           /\ Strength([f EXCEPT ![q] = v]) = (Strength(f) - f[q]) + v
<1> DEFINE h == [f EXCEPT ![q] = v]
           rest == Quads \ {q}
<1>1. h \in [Quads -> Nat] /\ h[q] = v /\ \A r \in rest : f[r] = h[r]
  OBVIOUS
<1>2. rest \in SUBSET Quads /\ Quads \in SUBSET Quads
  OBVIOUS
<1> HIDE DEF h, rest
<1>3. Sums(f)[rest] = Sums(h)[rest]
  BY <1>1, <1>2, SameSums
<1>4. /\ Sums(f)[Quads] = f[q] + Sums(f)[rest]
      /\ Sums(h)[Quads] = h[q] + Sums(h)[rest]
  BY <1>1, <1>2, AnyFirst DEF rest
<1>5. Sums(f)[rest] \in Nat /\ f[q] \in Nat
  BY <1>2, SumsAreCounts
<1>6. Strength(f) = f[q] + Sums(f)[rest] /\ Strength(h) = v + Sums(f)[rest]
  BY <1>1, <1>3, <1>4, StrengthIsSum
<1> QED
  BY <1>5, <1>6 DEF h

-----------------------------------------------------------------------------
(* The chart and the sectors *)

ChartOK ==
    /\ gal_enemies \in [Quads -> Nat]
    /\ gal_commander \in [Quads -> {0, 1}]
    /\ gal_nova \in SUBSET Quads
    /\ quad \in Quads

SectorOK == commanders \in Nat /\ others \in Nat

FInv == ChartOK /\ SectorOK /\ SectorWithinChart /\ AshesAreEmpty

USE FleetAssumption DEF Quads, Cells

\* A quadrant is filled from its entry on the chart, no more and no less.
LEMMA FillWithinChart ==
    ASSUME ChartOK, NEW q \in Quads, NEW n \in Nat, Fill(q, n)
    PROVE  SectorOK' /\ commanders' + others' = n /\ quad' = q
  BY SMTT(60) DEF ChartOK, SectorOK, Fill, Least

\* A new galaxy has its ship away from the enemy, and no ashes.
LEMMA NewGalaxyInvariant ==
    ASSUME NewGalaxy PROVE FInv'
<1>1. PICK c \in Charts : /\ gal_enemies' = c.ships
                          /\ gal_commander' = c.led
                          /\ \E q \in Quads : c.ships[q] = 0 /\ quad' = q
                          /\ gal_nova' = {} /\ commanders' = 0 /\ others' = 0
  BY DEF NewGalaxy
<1>2. c \in [ships : [Quads -> Nat], led : [Quads -> {0, 1}]]
  BY DEF FleetAssumption
<1> QED
  BY <1>1, <1>2 DEF FInv, ChartOK, SectorOK, SectorWithinChart, AshesAreEmpty

LEMMA InitInvariant == Init => FInv
<1> SUFFICES ASSUME Init PROVE FInv
  OBVIOUS
<1>1. PICK c \in Charts : /\ gal_enemies = c.ships
                          /\ gal_commander = c.led
                          /\ \E q \in Quads : c.ships[q] = 0 /\ quad = q
  BY DEF Init
<1>2. c \in [ships : [Quads -> Nat], led : [Quads -> {0, 1}]]
  BY DEF FleetAssumption
<1>3. gal_nova = {} /\ commanders = 0 /\ others = 0
  BY DEF Init
<1> QED
  BY <1>1, <1>2, <1>3 DEF FInv, ChartOK, SectorOK, SectorWithinChart, AshesAreEmpty

\* Whatever dies by the captain's hand leaves sector and chart together.
LEMMA KillInvariant ==
    ASSUME FInv, NEW c \in 0 .. commanders, NEW o \in 0 .. others,
           Kill(c, o), UNCHANGED <<gal_commander, gal_nova, quad>>
    PROVE  FInv'
<1> USE DEF FInv, ChartOK, SectorOK, SectorWithinChart
<1>1. /\ c \in Nat /\ o \in Nat /\ c <= commanders /\ o <= others
      /\ commanders' = commanders - c /\ others' = others - o
      /\ gal_enemies' = [gal_enemies EXCEPT ![quad] = Less(gal_enemies[quad], c + o)]
      /\ gal_enemies[quad] \in Nat
  BY DEF Kill
<1>2. Less(gal_enemies[quad], c + o) \in Nat
      /\ Less(gal_enemies[quad], c + o) = gal_enemies[quad] - (c + o)
  BY <1>1 DEF Less
<1>3. ChartOK' /\ SectorOK'
  BY <1>1, <1>2
<1>4. SectorWithinChart'
  BY <1>1, <1>2
<1>5. AshesAreEmpty'
  BY <1>1, <1>2 DEF AshesAreEmpty, Less
<1> QED
  BY <1>3, <1>4, <1>5

LEMMA SupernovaInvariant ==
    ASSUME FInv, NEW q \in Quads, Supernova(q) PROVE FInv'
<1> USE DEF FInv, ChartOK
<1>1. /\ gal_enemies' = [gal_enemies EXCEPT ![quad] = 0]
      /\ gal_nova' = gal_nova \cup {quad}
      /\ gal_commander' = gal_commander
      /\ q \in Thrown
  BY DEF Supernova
<1>2. q # quad
  BY <1>1 DEF Thrown, Row, Col
<1>3. AshesAreEmpty'
  BY <1>1 DEF AshesAreEmpty
<1>4. CASE q \in gal_nova'
  <2>1. /\ commanders' = IF gal_enemies[quad] > 0 THEN 0 ELSE commanders
        /\ others' = IF gal_enemies[quad] > 0 THEN 0 ELSE others
        /\ quad' = quad
    BY <1>4 DEF Supernova
  <2>2. commanders' = 0 /\ others' = 0
    <3>1. gal_enemies[quad] \in Nat
      OBVIOUS
    <3> QED
      BY <2>1, <3>1 DEF SectorOK, SectorWithinChart
  <2> QED
    BY <1>1, <1>3, <2>1, <2>2 DEF SectorOK, SectorWithinChart
<1>5. CASE q \notin gal_nova'
  <2>1. Fill(q, gal_enemies[q])
    BY <1>5 DEF Supernova
  <2>2. gal_enemies[q] \in Nat /\ gal_enemies'[q] = gal_enemies[q]
    BY <1>1, <1>2
  <2>3. SectorOK' /\ commanders' + others' = gal_enemies[q] /\ quad' = q
    BY <2>1, <2>2, FillWithinChart
  <2> QED
    BY <1>1, <1>3, <2>2, <2>3 DEF SectorWithinChart, SectorOK
<1> QED
  BY <1>4, <1>5

LEMMA ReinforceInvariant ==
    ASSUME FInv, NEW n \in Forces, Reinforce(n) PROVE FInv'
<1> USE DEF FInv, ChartOK, SectorOK
<1>1. PICK q \in Berth : gal_enemies' = [gal_enemies EXCEPT ![q] = n]
  BY DEF Reinforce
<1>2. q \in Quads /\ gal_enemies[q] = 0 /\ q \notin gal_nova /\ n \in Nat
  BY <1>1 DEF Berth, FleetAssumption
<1>3. UNCHANGED <<gal_commander, gal_nova, quad, commanders, others>>
  BY DEF Reinforce, sector
<1>4. SectorWithinChart'
  BY <1>1, <1>2, <1>3 DEF SectorWithinChart
<1>5. AshesAreEmpty'
  BY <1>1, <1>2, <1>3 DEF AshesAreEmpty
<1> QED
  BY <1>1, <1>2, <1>3, <1>4, <1>5

LEMMA RunNovaInvariant ==
    ASSUME FInv, RunNova PROVE FInv'
<1> USE DEF FInv, ChartOK, SectorOK
<1>1. PICK q \in Starry \ gal_nova :
          /\ Row(q) # Row(quad)
          /\ gal_enemies' = [gal_enemies EXCEPT ![q] = 0]
          /\ gal_nova' = gal_nova \cup {q}
  BY DEF RunNova
<1>2. q \in Quads /\ q # quad
  BY <1>1 DEF FleetAssumption
<1>3. UNCHANGED <<gal_commander, quad, commanders, others>>
  BY DEF RunNova, sector
<1>4. SectorWithinChart'
  BY <1>1, <1>2, <1>3 DEF SectorWithinChart
<1>5. AshesAreEmpty'
  BY <1>1, <1>2, <1>3 DEF AshesAreEmpty
<1> QED
  BY <1>1, <1>2, <1>3, <1>4, <1>5

\* A step that leaves the chart alone and takes nothing but ships out of the
\* sectors.
LEMMA Attrition ==
    ASSUME FInv, UNCHANGED <<gal_enemies, gal_commander, gal_nova, quad>>,
           commanders' \in 0 .. commanders, others' \in 0 .. others
    PROVE  FInv'
<1>1. commanders \in Nat /\ others \in Nat
  BY DEF FInv, SectorOK
<1>2. /\ commanders' \in Nat /\ commanders' <= commanders
      /\ others' \in Nat /\ others' <= others
  BY <1>1
<1>3. gal_enemies[quad] \in Nat
  BY DEF FInv, ChartOK
<1>4. SectorWithinChart'
  BY <1>1, <1>2, <1>3 DEF FInv, SectorWithinChart
<1> QED
  BY <1>2, <1>4 DEF FInv, ChartOK, SectorOK, AshesAreEmpty

LEMMA NextInvariant == FInv /\ [Next]_vars => FInv'
<1> SUFFICES ASSUME FInv, [Next]_vars PROVE FInv'
  OBVIOUS
<1> USE DEF chart, sector, sheet
<1>0. 0 \in 0 .. commanders /\ 0 \in 0 .. others
      /\ commanders \in 0 .. commanders /\ others \in 0 .. others
  BY DEF FInv, SectorOK
<1>1. ASSUME NEW q \in Quads, Arrive(q) PROVE FInv'
  <2>1. Fill(q, gal_enemies[q]) /\ UNCHANGED <<gal_enemies, gal_commander, gal_nova>>
    BY <1>1 DEF Arrive
  <2>2. gal_enemies[q] \in Nat
    BY DEF FInv, ChartOK
  <2>3. SectorOK' /\ commanders' + others' = gal_enemies[q] /\ quad' = q
    BY <2>1, <2>2, FillWithinChart DEF FInv
  <2> QED
    BY <2>1, <2>2, <2>3 DEF FInv, ChartOK, SectorOK, SectorWithinChart, AshesAreEmpty
<1>2. ASSUME NEW q \in Quads, Supernova(q) PROVE FInv'
  BY <1>2, SupernovaInvariant
<1>3. CASE Shoot
  <2>1. CASE commanders > 0 /\ Kill(1, 0)
    <3>1. 1 \in 0 .. commanders
      BY <2>1 DEF FInv, SectorOK
    <3> QED
      BY <1>0, <1>3, <2>1, <3>1, KillInvariant DEF Shoot
  <2>2. CASE others > 0 /\ Kill(0, 1)
    <3>1. 1 \in 0 .. others
      BY <2>2 DEF FInv, SectorOK
    <3> QED
      BY <1>0, <1>3, <2>2, <3>1, KillInvariant DEF Shoot
  <2> QED
    BY <1>3, <2>1, <2>2 DEF Shoot
<1>4. CASE PlasmaBolt
  BY <1>4, KillInvariant DEF PlasmaBolt
<1>5. CASE RayWorks
  BY <1>0, <1>5, Attrition DEF RayWorks
<1>6. CASE NewGame
  BY <1>6, NewGalaxyInvariant DEF NewGame
<1>7. ASSUME NEW n \in Forces, Reinforce(n) PROVE FInv'
  BY <1>7, ReinforceInvariant
<1>8. CASE RunNova
  BY <1>8, RunNovaInvariant
<1>9. ASSUME NEW fatal \in BOOLEAN, RunPod(fatal) PROVE FInv'
  BY <1>9, Attrition DEF RunPod
<1>10. ASSUME UNCHANGED <<chart, quad, commanders, others>> PROVE FInv'
  BY <1>0, <1>10, Attrition
<1>11. CASE ShootPod \/ RayFatal \/ EndVolley \/ Quit \/ GoOn \/ GameOver
            \/ NobodyComes \/ NoNova \/ UNCHANGED vars
  BY <1>10, <1>11 DEF ShootPod, RayFatal, EndVolley, Quit, GoOn, GameOver,
                      NobodyComes, NoNova, vars
<1>12. ASSUME NEW fatal \in BOOLEAN, Other(fatal) \/ NoPod(fatal) PROVE FInv'
  BY <1>10, <1>12 DEF Other, NoPod
<1> QED
  BY <1>1, <1>2, <1>3, <1>4, <1>5, <1>6, <1>7, <1>8, <1>9, <1>11, <1>12
     DEF Next, Captain, Turn

LEMMA FleetInvariant == Spec => []FInv
  BY InitInvariant, NextInvariant, PTL DEF Spec

\* The sectors of the ship's quadrant never hold more Mongols than
\* gal_enemies has there, after any sequence of volleys, rays, pods, novas,
\* reinforcements and new games, in a galaxy of any size.
THEOREM SectorsAreCharted == Spec => []SectorWithinChart
  BY FleetInvariant, PTL DEF FInv

\* Nobody ever stands where a star has gone up: run_nova and star_supernova
\* empty the chart's entry, and trek_run_events' reinforcements look at
\* gal_nova before they settle.
THEOREM AshesStayEmpty == Spec => []AshesAreEmpty
  BY FleetInvariant, PTL DEF FInv

-----------------------------------------------------------------------------
(* The types.  Chart and sectors are typed by FInv; what is left are the   *)
(* phase, the pod, the loss and the counts of the score sheet.             *)

SheetOK ==
    /\ pc \in {"command", "firing", "events", "nova", "pod", "check", "over"}
    /\ pod \in BOOLEAN /\ pod_alive \in BOOLEAN /\ lost \in BOOLEAN
    /\ enemies_left \in Nat /\ killed \in Nat /\ killed_cmd \in Nat

LEMMA LessIsNat == \A a, b \in Nat : Less(a, b) \in Nat
  BY SMT DEF Less

\* The mission of a new galaxy asks for its whole fleet.
LEMMA StrengthIsNat == \A c \in Charts : Strength(c.ships) \in Nat
  BY ChartsAssumption

\* What is brought down is counted on the sheet, and never below zero.
LEMMA KillSheet ==
    ASSUME FInv, SheetOK, NEW c \in Nat, NEW o \in Nat, Kill(c, o)
    PROVE  enemies_left' \in Nat /\ killed' \in Nat /\ killed_cmd' \in Nat
<1>1. c + o \in Nat /\ killed + o \in Nat /\ killed_cmd + c \in Nat /\ enemies_left \in Nat
  BY DEF SheetOK
<1> QED
  BY <1>1, LessIsNat DEF Kill

LEMMA CaptainSheet == ASSUME FInv, SheetOK, Captain PROVE SheetOK'
<1> USE DEF chart, sector, sheet
<1>1. CASE \E q \in Quads : Arrive(q)
  BY <1>1 DEF Arrive, Fill, SheetOK
<1>2. CASE \E q \in Quads : Supernova(q)
  <2>1. PICK q \in Quads : Supernova(q)
    BY <1>2
  <2>2. enemies_left' \in Nat
    <3>1. gal_enemies[quad] \in Nat /\ enemies_left \in Nat
      BY DEF FInv, ChartOK, SheetOK
    <3> QED
      BY <2>1, <3>1, LessIsNat DEF Supernova
  <2>3. pod' \in BOOLEAN /\ lost' \in BOOLEAN
    <3>1. CASE q \in gal_nova'
      BY <2>1, <3>1 DEF Supernova, SheetOK
    <3>2. CASE q \notin gal_nova'
      BY <2>1, <3>2 DEF Supernova, Fill, SheetOK
    <3> QED
      BY <3>1, <3>2
  <2> QED
    BY <2>1, <2>2, <2>3 DEF Supernova, SheetOK
<1>3. CASE Shoot
  <2>1. Kill(1, 0) \/ Kill(0, 1)
    BY <1>3 DEF Shoot
  <2>2. enemies_left' \in Nat /\ killed' \in Nat /\ killed_cmd' \in Nat
    BY <2>1, KillSheet
  <2> QED
    BY <1>3, <2>2 DEF Shoot, SheetOK
<1>4. CASE PlasmaBolt
  <2>1. PICK c \in 0 .. commanders, o \in 0 .. others : Kill(c, o)
    BY <1>4 DEF PlasmaBolt
  <2>2. c \in Nat /\ o \in Nat
    BY DEF FInv, SectorOK
  <2>3. enemies_left' \in Nat /\ killed' \in Nat /\ killed_cmd' \in Nat
    BY <2>1, <2>2, KillSheet
  <2> QED
    BY <1>4, <2>3 DEF PlasmaBolt, SheetOK
<1>5. CASE RayWorks
  <2>1. commanders + others \in Nat /\ enemies_left \in Nat
    BY DEF FInv, SectorOK, SheetOK
  <2> QED
    BY <1>5, <2>1, LessIsNat DEF RayWorks, SheetOK
<1>6. CASE NewGame
  <2>1. NewGalaxy /\ pc' = "command"
    BY <1>6 DEF NewGame
  <2>2. PICK c \in Charts : enemies_left' = Strength(c.ships)
    BY <2>1 DEF NewGalaxy
  <2>3. /\ pod' \in BOOLEAN /\ pod_alive' = TRUE /\ lost' = FALSE
        /\ killed' = 0 /\ killed_cmd' = 0
    BY <2>1 DEF NewGalaxy
  <2>4. enemies_left' \in Nat
    BY <2>2, StrengthIsNat
  <2> QED
    BY <2>1, <2>3, <2>4 DEF SheetOK
<1>7. CASE \/ \E fatal \in BOOLEAN : Other(fatal)
           \/ ShootPod \/ RayFatal \/ EndVolley \/ Quit
  BY <1>7 DEF Other, ShootPod, RayFatal, EndVolley, Quit, SheetOK
<1> QED
  BY <1>1, <1>2, <1>3, <1>4, <1>5, <1>6, <1>7 DEF Captain

LEMMA TurnSheet == ASSUME FInv, SheetOK, Turn PROVE SheetOK'
<1> USE DEF chart, sector, sheet
<1>1. CASE \E n \in Forces : Reinforce(n)
  <2>1. PICK n \in Forces : Reinforce(n)
    BY <1>1
  <2>2. enemies_left + n \in Nat
    BY FleetAssumption DEF SheetOK
  <2> QED
    BY <2>1, <2>2 DEF Reinforce, SheetOK
<1>2. CASE RunNova
  <2>1. PICK q \in Starry : enemies_left' = Less(enemies_left, gal_enemies[q])
    BY <1>2 DEF RunNova
  <2>2. gal_enemies[q] \in Nat /\ enemies_left \in Nat
    BY FleetAssumption DEF FInv, ChartOK, SheetOK
  <2>3. enemies_left' \in Nat
    BY <2>1, <2>2, LessIsNat
  <2> QED
    BY <1>2, <2>3 DEF RunNova, SheetOK
<1>3. CASE \E fatal \in BOOLEAN : RunPod(fatal) \/ NoPod(fatal)
  BY <1>3 DEF RunPod, NoPod, SheetOK
<1>4. CASE NobodyComes \/ NoNova \/ GoOn \/ GameOver
  BY <1>4 DEF NobodyComes, NoNova, GoOn, GameOver, SheetOK
<1> QED
  BY <1>1, <1>2, <1>3, <1>4 DEF Turn

LEMMA InitSheet == Init => SheetOK
<1> SUFFICES ASSUME Init PROVE SheetOK
  OBVIOUS
<1>1. PICK c \in Charts : enemies_left = Strength(c.ships)
  BY DEF Init
<1>2. enemies_left \in Nat
  BY <1>1, StrengthIsNat
<1>3. /\ pc = "command" /\ pod \in BOOLEAN /\ pod_alive = TRUE /\ lost = FALSE
      /\ killed = 0 /\ killed_cmd = 0
  BY DEF Init
<1> QED
  BY <1>2, <1>3 DEF SheetOK

Full == FInv /\ SheetOK

LEMMA FullHolds == Spec => []Full
<1>1. Init => Full
  BY InitInvariant, InitSheet DEF Full
<1>2. Full /\ [Next]_vars => Full'
  <2>1. ASSUME FInv, SheetOK, UNCHANGED vars PROVE SheetOK'
    BY <2>1 DEF SheetOK, vars, chart, sector, sheet
  <2> QED
    BY <2>1, NextInvariant, CaptainSheet, TurnSheet DEF Next, Full
<1> QED
  BY <1>1, <1>2, PTL DEF Spec

\* The counts of the score sheet never go below zero, whatever the ray, the
\* stars and the guns take from a fleet that fits the charts.
THEOREM TypeCorrect == Spec => []TypeOK
<1>1. Full => TypeOK
  BY DEF Full, FInv, ChartOK, SectorOK, SheetOK, TypeOK
<1> QED
  BY <1>1, FullHolds, PTL

-----------------------------------------------------------------------------
(* The fleet as the muster.  Every step that touches the chart, the sheet or *)
(* the count of the mission is one of Muster's.                              *)

\* n ships leave the ship's quadrant or another, and the chart with them.
LEMMA ChartLoses ==
    ASSUME Full, NEW q \in Quads, NEW n \in 0 .. gal_enemies[q],
           gal_enemies' = [gal_enemies EXCEPT ![q] = gal_enemies[q] - n]
    PROVE  n \in Nat /\ n <= Afloat /\ Afloat \in Nat /\ Afloat' = Afloat - n
<1>1. gal_enemies \in [Quads -> Nat]
  BY DEF Full, FInv, ChartOK
<1>2. gal_enemies[q] \in Nat /\ n \in Nat /\ gal_enemies[q] - n \in Nat
  BY <1>1
<1> DEFINE v == gal_enemies[q] - n
<1>3. /\ Strength(gal_enemies) \in Nat /\ gal_enemies[q] <= Strength(gal_enemies)
      /\ Strength([gal_enemies EXCEPT ![q] = v]) = (Strength(gal_enemies) - gal_enemies[q]) + v
  <2> HIDE DEF v
  <2>1. v \in Nat
    BY <1>2 DEF v
  <2> QED
    BY <1>1, <2>1, StrengthChanges
<1>4. Afloat = Strength(gal_enemies) /\ Afloat' = Strength([gal_enemies EXCEPT ![q] = v])
  BY DEF Afloat
<1> QED
  BY <1>2, <1>3, <1>4

LEMMA SameSheet ==
    ASSUME UNCHANGED <<gal_enemies, enemies_left, killed, killed_cmd>>
    PROVE  UNCHANGED M!vars
  BY DEF M!vars, Afloat

LEMMA KillStep ==
    ASSUME Full, NEW c \in 0 .. commanders, NEW o \in 0 .. others, Kill(c, o)
    PROVE  [M!Next]_(M!vars)
<1> DEFINE n == c + o
<1>1. /\ c \in Nat /\ o \in Nat /\ c <= commanders /\ o <= others
      /\ commanders \in Nat /\ others \in Nat /\ commanders + others <= gal_enemies[quad]
      /\ quad \in Quads /\ gal_enemies[quad] \in Nat
      /\ killed \in Nat /\ killed_cmd \in Nat /\ enemies_left \in Nat
  BY DEF Full, FInv, ChartOK, SectorOK, SectorWithinChart, SheetOK
<1>2. n \in 0 .. gal_enemies[quad] /\ n \in Nat
  BY <1>1
<1>3. gal_enemies' = [gal_enemies EXCEPT ![quad] = gal_enemies[quad] - n]
  <2>1. Less(gal_enemies[quad], n) = gal_enemies[quad] - n
    BY <1>1, <1>2 DEF Less
  <2> HIDE DEF n
  <2>2. gal_enemies' = [gal_enemies EXCEPT ![quad] = Less(gal_enemies[quad], n)]
    BY DEF Kill, n
  <2> QED
    BY <2>1, <2>2
<1> HIDE DEF n
<1>4. n <= Afloat /\ Afloat \in Nat /\ Afloat' = Afloat - n
  BY <1>1, <1>2, <1>3, ChartLoses
<1>5. (killed + killed_cmd)' = (killed + killed_cmd) + n
  BY <1>1 DEF Kill, n
<1>6. enemies_left' = IF enemies_left > n THEN enemies_left - n ELSE 0
  BY DEF Kill, Less, n
<1>7. CASE n = 0
  BY <1>1, <1>4, <1>5, <1>6, <1>7 DEF M!vars
<1>8. CASE n # 0
  <2>1. n \in 1 .. Afloat
    BY <1>2, <1>4, <1>8
  <2>2. M!Kill(n)
    BY <1>4, <1>5, <1>6 DEF M!Kill
  <2> QED
    BY <2>1, <2>2 DEF M!Next
<1> QED
  BY <1>7, <1>8

\* A star takes what the chart has in its quadrant, off nobody's score.
LEMMA BurnStep ==
    ASSUME Full, NEW q \in Quads,
           enemies_left' = Less(enemies_left, gal_enemies[q]),
           gal_enemies' = [gal_enemies EXCEPT ![q] = 0],
           UNCHANGED <<killed, killed_cmd>>
    PROVE  [M!Next]_(M!vars)
<1> DEFINE n == gal_enemies[q]
<1>1. n \in Nat /\ n \in 0 .. gal_enemies[q] /\ enemies_left \in Nat
      /\ gal_enemies[q] - n = 0
  BY DEF Full, FInv, ChartOK, SheetOK
<1>2. n <= Afloat /\ Afloat \in Nat /\ Afloat' = Afloat - n
  BY <1>1, ChartLoses
<1>3. enemies_left' = IF enemies_left > n THEN enemies_left - n ELSE 0
  BY DEF Less
<1> HIDE DEF n
<1>4. CASE n = 0
  BY <1>1, <1>2, <1>3, <1>4 DEF M!vars
<1>5. CASE n # 0
  <2>1. n \in 1 .. Afloat
    BY <1>1, <1>2, <1>5
  <2>2. M!Burn(n)
    BY <1>2, <1>3 DEF M!Burn
  <2> QED
    BY <2>1, <2>2 DEF M!Next
<1> QED
  BY <1>4, <1>5

\* The ray's victims are written off the mission and stay on the chart.
LEMMA RayStep ==
    ASSUME Full, RayWorks
    PROVE  [M!Next]_(M!vars)
<1> DEFINE n == commanders + others
<1>1. /\ n \in Nat /\ n > 0 /\ n <= gal_enemies[quad] /\ gal_enemies[quad] \in Nat
      /\ gal_enemies \in [Quads -> Nat] /\ quad \in Quads
  BY DEF Full, FInv, ChartOK, SectorOK, SectorWithinChart, RayWorks
<1>2. Afloat \in Nat /\ gal_enemies[quad] <= Afloat
  BY <1>1, StrengthChanges DEF Afloat
<1>3. n \in 1 .. Afloat
  BY <1>1, <1>2
<1>4. enemies_left' = IF enemies_left > n THEN enemies_left - n ELSE 0
  BY DEF RayWorks, Less
<1>5. UNCHANGED <<gal_enemies, killed, killed_cmd>>
  BY DEF RayWorks, chart
<1> HIDE DEF n
<1>6. M!WriteOff(n)
  BY <1>4, <1>5 DEF M!WriteOff, Afloat
<1> QED
  BY <1>3, <1>6 DEF M!Next

LEMMA ReinforceStep ==
    ASSUME Full, NEW n \in Forces, Reinforce(n)
    PROVE  [M!Next]_(M!vars)
<1>1. PICK q \in Berth : gal_enemies' = [gal_enemies EXCEPT ![q] = n]
  BY DEF Reinforce
<1>2. q \in Quads /\ gal_enemies[q] = 0 /\ n \in Nat /\ gal_enemies \in [Quads -> Nat]
  BY <1>1, FleetAssumption DEF FleetAssumption, Berth, Full, FInv, ChartOK
<1>3. Strength(gal_enemies) \in Nat
      /\ Strength([gal_enemies EXCEPT ![q] = n]) = (Strength(gal_enemies) - gal_enemies[q]) + n
  <2> HIDE FleetAssumption DEF Quads, Cells
  <2> QED
    BY <1>2, StrengthChanges, ZenonT(60)
<1>4. Afloat = Strength(gal_enemies) /\ Afloat' = Strength([gal_enemies EXCEPT ![q] = n])
  BY <1>1 DEF Afloat
<1>5. Afloat' = Afloat + n
  BY <1>2, <1>3, <1>4
<1>6. enemies_left' = enemies_left + n /\ UNCHANGED <<killed, killed_cmd>>
  BY DEF Reinforce
<1>7. M!Reinforce(n)
  BY <1>5, <1>6 DEF M!Reinforce
<1> QED
  BY <1>7 DEF M!Next

LEMMA NewGameStep ==
    ASSUME NewGame
    PROVE  M!NewGame
<1>1. PICK c \in Charts : /\ gal_enemies' = c.ships /\ enemies_left' = Strength(c.ships)
                          /\ killed' = 0 /\ killed_cmd' = 0
  BY DEF NewGame, NewGalaxy
<1>2. Strength(c.ships) \in 0 .. MaxBrought
  BY ChartsAssumption
<1>3. Afloat' = Strength(c.ships)
  BY <1>1 DEF Afloat
<1>4. killed' + killed_cmd' = 0
  BY <1>1
<1> QED
  BY <1>1, <1>2, <1>3, <1>4 DEF M!NewGame

\* The chart's ships, the score sheet and the mission's count live the life of
\* module Muster: in a galaxy of any size, whatever is fired, thrown, burnt or
\* sent, every ship that leaves the chart was scored once or burnt, the ray's
\* are only written off, and reinforcements are owed as they come.
THEOREM FleetImplementsMuster == Spec => ImplementsMuster
<1>1. Init => M!Init
  <2> SUFFICES ASSUME Init PROVE M!Init
    OBVIOUS
  <2>1. PICK c \in Charts : gal_enemies = c.ships /\ enemies_left = Strength(c.ships)
    BY DEF Init
  <2>2. Afloat \in 0 .. MaxBrought /\ enemies_left = Afloat
    BY <2>1, ChartsAssumption DEF Afloat
  <2>3. killed + killed_cmd = 0
    BY DEF Init
  <2> QED
    BY <2>2, <2>3 DEF M!Init
<1>2. Full /\ [Next]_vars => [M!Next]_(M!vars)
  <2> SUFFICES ASSUME Full, [Next]_vars PROVE [M!Next]_(M!vars)
    OBVIOUS
  <2>1. CASE Shoot \/ PlasmaBolt
    <3>1. /\ commanders > 0 => 1 \in 0 .. commanders
          /\ others > 0 => 1 \in 0 .. others
          /\ 0 \in 0 .. commanders /\ 0 \in 0 .. others
      BY DEF Full, FInv, SectorOK
    <3> QED
      BY <2>1, <3>1, KillStep DEF Shoot, PlasmaBolt
  <2>2. ASSUME NEW q \in Quads, Supernova(q) PROVE [M!Next]_(M!vars)
    <3>1. quad \in Quads
      BY DEF Full, FInv, ChartOK
    <3> QED
      BY <2>2, <3>1, BurnStep DEF Supernova
  <2>3. CASE RunNova
    <3>1. PICK q \in Starry : /\ enemies_left' = Less(enemies_left, gal_enemies[q])
                              /\ gal_enemies' = [gal_enemies EXCEPT ![q] = 0]
      BY <2>3 DEF RunNova
    <3>2. q \in Quads /\ UNCHANGED <<killed, killed_cmd>>
      BY <2>3, FleetAssumption DEF RunNova, FleetAssumption
    <3> QED
      BY <3>1, <3>2, BurnStep
  <2>4. CASE NewGame
    BY <2>4, NewGameStep DEF M!Next
  <2>5. CASE \/ \E q \in Quads : Arrive(q)
             \/ \E fatal \in BOOLEAN : Other(fatal) \/ RunPod(fatal) \/ NoPod(fatal)
             \/ ShootPod \/ RayFatal \/ EndVolley \/ Quit
             \/ NobodyComes \/ NoNova \/ GoOn \/ GameOver \/ UNCHANGED vars
    <3>1. UNCHANGED <<gal_enemies, enemies_left, killed, killed_cmd>>
      BY <2>5 DEF Arrive, Other, RunPod, NoPod, ShootPod, RayFatal, EndVolley, Quit,
                  NobodyComes, NoNova, GoOn, GameOver, vars, chart, sheet
    <3> QED
      BY <3>1, SameSheet
  <2> QED
    BY <2>1, <2>2, <2>3, <2>4, <2>5, RayStep, ReinforceStep DEF Next, Captain, Turn
<1> QED
  BY <1>1, <1>2, FullHolds, PTL DEF Spec, ImplementsMuster, M!Spec

=============================================================================
