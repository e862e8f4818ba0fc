---------------------------- MODULE BackupsProofs ----------------------------
(***************************************************************************)
(* What holds of Backups and Retention for every limit, interval, number   *)
(* of retries and play time.                                               *)
(***************************************************************************)
EXTENDS Backups, FiniteSetTheorems, TLAPS

(* A nonempty set of naturals has a least element. *)
LEMMA LeastIsIn ==
    ASSUME NEW S, S \subseteq Nat, S # {}
    PROVE  Min(S) \in S /\ \A y \in S : Min(S) <= y
<1> DEFINE Less == {p \in Nat \X Nat : p[1] < p[2]}
<1>1. IsWellFoundedOn(Less, Nat)
  BY NatLessThanWellFounded, Zenon DEF OpToRel
<1>2. \A x \in Nat, y \in Nat : <<y, x>> \in Less <=> y < x
  OBVIOUS
<1> HIDE DEF Less
<1>3. PICK x \in S : \A y \in S : ~(<<y, x>> \in Less)
  BY <1>1, WFMin
<1>4. ASSUME NEW y \in S PROVE x <= y
  <2>1. x \in Nat /\ y \in Nat
    OBVIOUS
  <2>2. ~(y < x)
    BY <1>2, <1>3, <2>1, Zenon
  <2>3. QED BY <2>1, <2>2
<1>5. QED BY <1>4 DEF Min

-----------------------------------------------------------------------------
(* The powers of two count the subsets. *)
Power(n) == 2 ^ n

LEMMA PowerCounts ==
    ASSUME NEW n \in Nat
    PROVE  IsFiniteSet(SUBSET (1 .. n)) /\ Cardinality(SUBSET (1 .. n)) = Power(n)
<1>1. IsFiniteSet(1 .. n) /\ Cardinality(1 .. n) = n
  <2>1. IsFiniteSet(1 .. n) /\ Cardinality(1 .. n) = IF 1 > n THEN 0 ELSE n - 1 + 1
    BY FS_Interval
  <2>2. QED BY <2>1
<1>2. IsFiniteSet(SUBSET (1 .. n)) /\ Cardinality(SUBSET (1 .. n)) = 2 ^ Cardinality(1 .. n)
  BY <1>1, FS_SUBSET, Zenon
<1>3. QED BY <1>1, <1>2, Zenon DEF Power

LEMMA PowerIsNat ==
    ASSUME NEW n \in Nat
    PROVE  Power(n) \in Nat
BY PowerCounts, FS_CardinalityType

LEMMA PowerOfZero == Power(0) = 1
<1>1. SUBSET (1 .. 0) = {{}}
  OBVIOUS
<1>2. Cardinality({{}}) = 1
  BY FS_Singleton
<1>3. QED BY <1>1, <1>2, PowerCounts

(* Half of the subsets have a given new element. *)
LEMMA SubsetsDouble ==
    ASSUME NEW I, NEW x, x \notin I, IsFiniteSet(SUBSET I)
    PROVE  Cardinality(SUBSET (I \cup {x})) = Cardinality(SUBSET I) + Cardinality(SUBSET I)
<1> DEFINE A == SUBSET I
           B == {T \cup {x} : T \in A}
           f == [T \in A |-> T \cup {x}]
<1>1. SUBSET (I \cup {x}) = A \cup B
  <2>1. ASSUME NEW T \in SUBSET (I \cup {x}) PROVE T \in A \cup B
    <3>1. CASE x \in T
      <4>1. T \ {x} \in A /\ T = (T \ {x}) \cup {x}
        BY <3>1
      <4>2. QED BY <4>1
    <3>2. CASE ~(x \in T)
      BY <3>2
    <3>3. QED BY <3>1, <3>2
  <2>2. ASSUME NEW T \in A \cup B PROVE T \in SUBSET (I \cup {x})
    OBVIOUS
  <2>3. QED BY <2>1, <2>2
<1>2. A \cap B = {}
  OBVIOUS
<1>3. f \in Bijection(A, B)
  <2>1. \A S \in A, T \in A : S \cup {x} = T \cup {x} => S = T
    <3>1. ASSUME NEW S \in A, NEW T \in A, S \cup {x} = T \cup {x} PROVE S = T
      <4>1. x \notin S /\ x \notin T
        OBVIOUS
      <4>2. \A y : y \in S <=> y \in T
        BY <3>1, <4>1
      <4>3. QED BY <4>2
    <3>2. QED BY <3>1
  <2> HIDE DEF A
  <2>2. f \in [A -> B] /\ \A T \in B : \E S \in A : f[S] = T
    OBVIOUS
  <2>3. IsInjective(f)
    BY <2>1 DEF IsInjective
  <2>4. QED BY <2>2, <2>3 DEF Bijection, Injection, Surjection
<1>4. ExistsBijection(A, B)
  BY <1>3, Zenon DEF ExistsBijection
<1> HIDE DEF A, B
<1>5. IsFiniteSet(A)
  BY DEF A
<1>6. IsFiniteSet(B) /\ Cardinality(B) = Cardinality(A)
  BY <1>4, <1>5, FS_Bijection
<1>7. Cardinality(A \cup B) = Cardinality(A) + Cardinality(B) - Cardinality(A \cap B)
  BY <1>5, <1>6, FS_Union
<1>8. Cardinality(A) \in Nat /\ Cardinality(A \cap B) = 0
  BY <1>2, <1>5, FS_CardinalityType, FS_EmptySet
<1>9. Cardinality(A \cup B) = Cardinality(A) + Cardinality(A)
  BY <1>6, <1>7, <1>8
<1>10. QED BY <1>1, <1>9 DEF A

LEMMA PowerDoubles ==
    ASSUME NEW n \in Nat
    PROVE  Power(n + 1) = Power(n) + Power(n)
<1>1. 1 .. n + 1 = (1 .. n) \cup {n + 1} /\ n + 1 \notin 1 .. n /\ n + 1 \in Nat
  OBVIOUS
<1>2. /\ IsFiniteSet(SUBSET (1 .. n)) /\ Cardinality(SUBSET (1 .. n)) = Power(n)
      /\ Cardinality(SUBSET (1 .. n + 1)) = Power(n + 1)
  BY <1>1, PowerCounts
<1> DEFINE I == 1 .. n
           J == 1 .. n + 1
<1> HIDE DEF I, J
<1>3. J = I \cup {n + 1} /\ n + 1 \notin I
  BY <1>1 DEF I, J
<1>4. /\ IsFiniteSet(SUBSET I) /\ Cardinality(SUBSET I) = Power(n)
      /\ Cardinality(SUBSET J) = Power(n + 1)
  BY <1>2 DEF I, J
<1>5. Cardinality(SUBSET (I \cup {n + 1})) = Cardinality(SUBSET I) + Cardinality(SUBSET I)
  BY <1>3, <1>4, SubsetsDouble
<1>6. QED BY <1>3, <1>4, <1>5

LEMMA PowerExceeds ==
    ASSUME NEW n \in Nat
    PROVE  n < Power(n)
<1> DEFINE T == {k \in Nat : ~(k < Power(k))}
<1>1. SUFFICES ASSUME T # {} PROVE FALSE
  OBVIOUS
<1>2. PICK x \in T : \A y \in T : x <= y
  BY <1>1, LeastIsIn
<1>3. x # 0
  BY <1>2, PowerOfZero
<1>4. x - 1 \in Nat /\ x - 1 \notin T
  BY <1>2, <1>3
<1>5. x - 1 < Power(x - 1) /\ Power(x - 1) \in Nat
  BY <1>4, PowerIsNat
<1>6. Power(x) = Power(x - 1) + Power(x - 1)
  <2>1. Power(x - 1 + 1) = Power(x - 1) + Power(x - 1) /\ x - 1 + 1 = x
    BY <1>4, PowerDoubles
  <2>2. QED BY <2>1
<1>7. QED BY <1>2, <1>3, <1>5, <1>6

LEMMA PowerMonotone ==
    ASSUME NEW m \in Nat, NEW n \in Nat, m <= n
    PROVE  Power(m) <= Power(n)
<1> DEFINE T == {k \in Nat : m <= k /\ ~(Power(m) <= Power(k))}
<1>1. SUFFICES ASSUME T # {} PROVE FALSE
  OBVIOUS
<1>2. PICK x \in T : \A y \in T : x <= y
  BY <1>1, LeastIsIn
<1>3. x # m
  BY <1>2, PowerIsNat
<1>4. x - 1 \in Nat /\ m <= x - 1 /\ x - 1 \notin T
  BY <1>2, <1>3
<1>5. Power(m) <= Power(x - 1) /\ Power(x - 1) \in Nat /\ Power(m) \in Nat
  BY <1>4, PowerIsNat
<1>6. Power(x) = Power(x - 1) + Power(x - 1)
  <2>1. Power(x - 1 + 1) = Power(x - 1) + Power(x - 1) /\ x - 1 + 1 = x
    BY <1>4, PowerDoubles
  <2>2. QED BY <2>1
<1>7. QED BY <1>2, <1>5, <1>6

-----------------------------------------------------------------------------
(* The bins. *)

LEMMA EffectiveIsLeast ==
    ASSUME NEW b \in Nat, NEW t \in Nat
    PROVE  Effective(b, t) \in Nat /\ Effective(b, t) <= t
<1>1. \E x \in {b, t} : \A y \in {b, t} : x <= y
  <2>1. CASE b <= t BY <2>1
  <2>2. CASE ~(b <= t) BY <2>2
  <2>3. QED BY <2>1, <2>2
<1>2. Effective(b, t) \in {b, t} /\ \A y \in {b, t} : Effective(b, t) <= y
  BY <1>1 DEF Effective, Min
<1>3. QED BY <1>2

LEMMA EffectiveIsMonotone ==
    ASSUME NEW a \in Nat, NEW b \in Nat, NEW t \in Nat, a <= b
    PROVE  Effective(a, t) <= Effective(b, t)
<1>1. \A x \in Nat : Effective(x, t) = IF x <= t THEN x ELSE t
  <2>1. SUFFICES ASSUME NEW x \in Nat PROVE Effective(x, t) = IF x <= t THEN x ELSE t
    OBVIOUS
  <2>2. {x, t} \subseteq Nat /\ {x, t} # {}
    OBVIOUS
  <2>3. Effective(x, t) \in {x, t} /\ \A y \in {x, t} : Effective(x, t) <= y
    BY <2>2, LeastIsIn DEF Effective
  <2>4. QED BY <2>3
<1>2. QED BY <1>1

(* What the code relies on when it rounds: also below 0 (to_nearest). *)
LEMMA Rounded ==
    ASSUME NEW x \in Int
    PROVE  /\ x \div Interval \in Int
           /\ (x \div Interval) * Interval <= x
           /\ x < ToNearest(x)
<1>1. Interval \in Nat /\ Interval > 0
  BY RetentionAssumption
<1>2. /\ x \div Interval \in Int
      /\ x = ((x \div Interval) * Interval) + (x % Interval)
      /\ x % Interval \in 0 .. Interval - 1
  BY <1>1, SMT
<1>3. ToNearest(x) = (x \div Interval) * Interval + Interval
  BY <1>1, <1>2 DEF ToNearest
<1>4. QED BY <1>1, <1>2, <1>3

LEMMA Cancel ==
    ASSUME NEW i \in Int, NEW j \in Int, i * Interval < j * Interval
    PROVE  i < j
<1>1. Interval \in Nat /\ Interval > 0
  BY RetentionAssumption
<1>2. ASSUME i >= j PROVE i * Interval >= j * Interval
  <2>1. PICK k \in Nat : i = j + k
    <3>1. i - j \in Nat /\ i = j + (i - j)
      BY <1>2
    <3>2. QED BY <3>1
  <2>2. k * Interval \in Nat /\ i * Interval = (j * Interval) + (k * Interval)
    BY <1>1, <2>1
  <2>3. j * Interval \in Int
    BY <1>1
  <2>4. QED BY <2>2, <2>3
<1>3. i * Interval \in Int /\ j * Interval \in Int
  BY <1>1
<1>4. QED BY <1>2, <1>3

(* to_nearest counts the intervals up to the border it rounds to. *)
LEMMA RoundedInIntervals ==
    ASSUME NEW x \in Int
    PROVE  ToNearest(x) \div Interval = x \div Interval + 1
<1> DEFINE q == x \div Interval + 1
           p == ToNearest(x) \div Interval
<1>1. Interval \in Nat /\ Interval > 0 /\ q \in Int /\ ToNearest(x) = q * Interval
  BY RetentionAssumption, Rounded DEF ToNearest
<1>2. ToNearest(x) \in Int
  BY <1>1
<1>3. p \in Int /\ p * Interval <= ToNearest(x) /\ ToNearest(x) < (p + 1) * Interval
  BY <1>2, Rounded DEF ToNearest
<1>4. q < p + 1
  BY <1>1, <1>3, Cancel
<1>5. p < q + 1
  <2>1. (q + 1) * Interval = (q * Interval) + Interval /\ q * Interval \in Int /\ p * Interval \in Int
    BY <1>1, <1>3
  <2>2. p * Interval < (q + 1) * Interval
    BY <1>1, <1>3, <2>1
  <2>3. QED BY <1>1, <1>3, <2>2, Cancel
<1>6. QED BY <1>1, <1>3, <1>4, <1>5

LEMMA EndIsNat == EndOfBins = Power(MaxBackups) /\ EndOfBins \in Nat
<1>1. EndOfBins = Power(MaxBackups)
  BY Zenon DEF EndOfBins, Power
<1>2. QED BY <1>1, PowerIsNat, RetentionAssumption

(* The age of a backup is at least one interval, and that of an unexpired   *)
(* one less than the bins cover: its logarithm is an index into counts.    *)
LEMMA AgeInRange ==
    ASSUME NEW b \in Nat, NEW t \in Nat
    PROVE  Age(b, t) >= 1 /\ (~Expired(b, t) => Age(b, t) < EndOfBins)
<1> DEFINE e == Effective(b, t)
           x == t - e
           q == x \div Interval
           y == t - (EndOfBins - 1) * Interval
<1>1. e \in Nat /\ e <= t /\ x \in Nat /\ EndOfBins \in Nat
  BY EffectiveIsLeast, EndIsNat
<1>2. Interval \in Nat /\ Interval > 0
  BY RetentionAssumption
<1>3. q \in Int /\ q * Interval <= x /\ x < (q + 1) * Interval
  BY <1>1, Rounded DEF ToNearest
<1>4. Age(b, t) = q + 1
  BY <1>1, RoundedInIntervals DEF Age
<1>5. Age(b, t) >= 1
  <2>1. 0 * Interval < (q + 1) * Interval
    <3>1. 0 * Interval = 0 /\ (q + 1) * Interval \in Int
      BY <1>2, <1>3
    <3>2. QED BY <1>1, <1>3, <3>1
  <2>2. 0 < q + 1
    BY <1>3, <2>1, Cancel
  <2>3. QED BY <1>3, <1>4, <2>2
<1>6. ASSUME ~Expired(b, t) PROVE Age(b, t) < EndOfBins
  <2>1. (EndOfBins - 1) * Interval \in Int /\ y \in Int
    BY <1>1, <1>2
  <2>2. y < ToNearest(y)
    BY <2>1, Rounded
  <2>3. ToNearest(y) \in Int
    BY <2>1, <1>2, Rounded DEF ToNearest
  <2>4. Cutoff(t) = ToNearest(y)
    BY DEF Cutoff
  <2>5. e >= ToNearest(y)
    BY <1>1, <1>6, <2>3, <2>4 DEF Expired
  <2>6. x < (EndOfBins - 1) * Interval
    BY <1>1, <2>1, <2>2, <2>3, <2>5
  <2>7. q * Interval < (EndOfBins - 1) * Interval
    <3>1. q * Interval \in Int
      BY <1>2, <1>3
    <3>2. QED BY <1>1, <1>3, <2>1, <2>6, <3>1
  <2>8. q < EndOfBins - 1
    BY <1>1, <1>3, <2>7, Cancel
  <2>9. QED BY <1>1, <1>3, <1>4, <2>8
<1>7. QED BY <1>5, <1>6

(* A backup is in the bin of its age, and an unexpired one in one of the    *)
(* bins that are counted.                                                  *)
LEMMA BinFits ==
    ASSUME NEW b \in Nat, NEW t \in Nat
    PROVE  /\ Age(b, t) \in Nat /\ Bin(b, t) \in Nat
           /\ Power(Bin(b, t)) <= Age(b, t) /\ Age(b, t) < Power(Bin(b, t) + 1)
           /\ ~Expired(b, t) => Bin(b, t) \in 0 .. MaxBackups - 1
<1> DEFINE a == Age(b, t)
           In(j) == Power(j) <= a /\ a < Power(j + 1)
           T == {k \in Nat : a < Power(k + 1)}
<1>1. a \in Nat /\ a >= 1
  <2>1. a >= 1
    BY AgeInRange
  <2>2. t - Effective(b, t) \in Int
    BY EffectiveIsLeast
  <2>3. a = (t - Effective(b, t)) \div Interval + 1 /\ (t - Effective(b, t)) \div Interval \in Int
    BY <2>2, RoundedInIntervals, Rounded DEF Age
  <2>4. QED BY <2>1, <2>3
<1>2. Bin(b, t) = CHOOSE j \in 0 .. a : In(j)
  BY Zenon DEF Bin, Power
<1> HIDE DEF a
<1>3. \E j \in 0 .. a : In(j)
  <2>1. a \in T
    BY <1>1, PowerExceeds, PowerDoubles, PowerIsNat
  <2>2. PICK j \in T : \A y \in T : j <= y
    BY <2>1, LeastIsIn
  <2>3. Power(j) <= a
    <3>1. CASE j = 0
      BY <3>1, <1>1, PowerOfZero
    <3>2. CASE j # 0
      <4>1. j - 1 \in Nat /\ j - 1 \notin T /\ j - 1 + 1 = j
        BY <2>2, <3>2
      <4>2. QED BY <4>1, <1>1, <2>2, PowerIsNat
    <3>3. QED BY <3>1, <3>2
  <2>4. j <= a
    BY <1>1, <2>2, <2>3, PowerExceeds, PowerIsNat
  <2>5. QED BY <1>1, <2>2, <2>3, <2>4
<1>4. Bin(b, t) \in 0 .. a /\ In(Bin(b, t))
  BY <1>2, <1>3, Zenon
<1>5. ASSUME ~Expired(b, t) PROVE Bin(b, t) < MaxBackups
  <2>1. a < Power(MaxBackups)
    BY <1>5, AgeInRange, EndIsNat DEF a
  <2>2. SUFFICES ASSUME MaxBackups <= Bin(b, t) PROVE FALSE
    BY <1>1, <1>4, RetentionAssumption
  <2>3. Power(MaxBackups) <= Power(Bin(b, t))
    BY <2>2, <1>1, <1>4, RetentionAssumption, PowerMonotone
  <2>4. QED BY <1>1, <1>4, <2>1, <2>3, PowerIsNat, RetentionAssumption
<1>6. QED
  <2>1. Bin(b, t) \in Nat /\ (~Expired(b, t) => Bin(b, t) \in 0 .. MaxBackups - 1)
    BY <1>1, <1>4, <1>5, RetentionAssumption
  <2>2. QED BY <1>1, <1>4, <2>1 DEF a

(* The first bin holds what is no older than one interval, so what is       *)
(* newer than one of its backups is in it too.                             *)
LEMMA FirstBin ==
    ASSUME NEW a \in Nat, NEW b \in Nat, NEW t \in Nat, a <= b, Bin(a, t) = 0
    PROVE  Bin(b, t) = 0
<1> DEFINE ea == Effective(a, t)
           eb == Effective(b, t)
           qa == (t - ea) \div Interval
           qb == (t - eb) \div Interval
<1>1. ea \in Nat /\ eb \in Nat /\ ea <= t /\ eb <= t /\ ea <= eb
  BY EffectiveIsLeast, EffectiveIsMonotone
<1>2. Age(a, t) = qa + 1 /\ Age(b, t) = qb + 1 /\ qa \in Int /\ qb \in Int
  BY <1>1, RoundedInIntervals, Rounded DEF Age
<1>3. Age(a, t) = 1
  BY BinFits, AgeInRange, PowerOfZero, PowerDoubles
<1>4. t - ea < Interval
  <2>1. qa = 0 /\ t - ea \in Int
    BY <1>1, <1>2, <1>3
  <2>2. t - ea < ToNearest(t - ea) /\ ToNearest(t - ea) = (qa + 1) * Interval
    BY <2>1, Rounded DEF ToNearest
  <2>3. (qa + 1) * Interval = Interval
    BY <2>1, RetentionAssumption
  <2>4. QED BY <2>2, <2>3
<1>5. qb = 0
  <2>1. t - eb \in 0 .. Interval - 1
    BY <1>1, <1>4, RetentionAssumption
  <2>2. QED BY <2>1, RetentionAssumption
<1>6. Age(b, t) = 1
  BY <1>2, <1>5
<1>7. QED
  <2>1. SUFFICES ASSUME Bin(b, t) >= 1 PROVE FALSE
    BY BinFits
  <2>2. Bin(b, t) < Power(Bin(b, t)) /\ Bin(b, t) \in Nat /\ Power(Bin(b, t)) <= 1
    BY <1>6, BinFits, PowerExceeds
  <2>3. QED BY <2>1, <2>2, PowerIsNat

-----------------------------------------------------------------------------
(* Sets of play times in order. *)

(* How many of S are older than b. *)
Rank(S, b) == Cardinality({a \in S : a < b})

LEMMA RankGrows ==
    ASSUME NEW S \in SUBSET Nat, IsFiniteSet(S), NEW b \in S
    PROVE  /\ Rank(S, b) \in 0 .. Cardinality(S) - 1
           /\ \A a \in S : a < b => Rank(S, a) < Rank(S, b)
<1> DEFINE Below(x) == {a \in S : a < x}
<1>1. \A x \in S : /\ IsFiniteSet(Below(x)) /\ Cardinality(Below(x)) \in Nat
                   /\ IsFiniteSet(Below(x) \cup {x})
                   /\ Cardinality(Below(x) \cup {x}) = Cardinality(Below(x)) + 1
  <2>1. SUFFICES ASSUME NEW x \in S
                 PROVE  /\ IsFiniteSet(Below(x)) /\ Cardinality(Below(x)) \in Nat
                        /\ IsFiniteSet(Below(x) \cup {x})
                        /\ Cardinality(Below(x) \cup {x}) = Cardinality(Below(x)) + 1
    OBVIOUS
  <2>2. Below(x) \in SUBSET S /\ x \notin Below(x)
    OBVIOUS
  <2> HIDE DEF Below
  <2>3. IsFiniteSet(Below(x)) /\ Cardinality(Below(x)) \in Nat
    BY <2>2, FS_Subset, FS_CardinalityType
  <2>4. QED BY <2>2, <2>3, FS_AddElement
<1>2. /\ Below(b) \cup {b} \in SUBSET S
      /\ \A a \in S : a < b => Below(a) \cup {a} \in SUBSET Below(b)
  <2>1. \A x \in S : x \in Nat
    OBVIOUS
  <2>2. ASSUME NEW a \in S, a < b PROVE \A x \in Below(a) \cup {a} : x \in Below(b)
    BY <2>1, <2>2
  <2>3. QED BY <2>2
<1>3. Cardinality(S) \in Nat
  BY FS_CardinalityType
<1> HIDE DEF Below
<1>4. Cardinality(Below(b) \cup {b}) <= Cardinality(S)
  BY <1>2, FS_Subset
<1>5. Cardinality(Below(b)) \in 0 .. Cardinality(S) - 1
  BY <1>1, <1>3, <1>4
<1>6. ASSUME NEW a \in S, a < b PROVE Cardinality(Below(a)) < Cardinality(Below(b))
  <2>1. IsFiniteSet(Below(b)) /\ Below(a) \cup {a} \in SUBSET Below(b)
    BY <1>1, <1>2, <1>6
  <2>2. Cardinality(Below(a) \cup {a}) <= Cardinality(Below(b))
    BY <2>1, FS_Subset
  <2>3. Cardinality(Below(a) \cup {a}) = Cardinality(Below(a)) + 1 /\ Cardinality(Below(a)) \in Nat
    BY <1>1
  <2>4. Cardinality(Below(b)) \in Nat
    BY <1>1
  <2>5. QED BY <2>2, <2>3, <2>4
<1>7. QED BY <1>5, <1>6 DEF Below, Rank

LEMMA RankIsUnique ==
    ASSUME NEW S \in SUBSET Nat, IsFiniteSet(S), NEW a \in S, NEW b \in S,
           Rank(S, a) = Rank(S, b)
    PROVE  a = b
<1>1. ~(a < b) /\ ~(b < a)
  BY RankGrows
<1>2. QED BY <1>1

(* By the pigeonhole principle there is a backup of every rank. *)
LEMMA EveryRank ==
    ASSUME NEW S \in SUBSET Nat, IsFiniteSet(S), NEW r \in 0 .. Cardinality(S) - 1
    PROVE  \E b \in S : Rank(S, b) = r
<1> DEFINE n == Cardinality(S)
           R == 0 .. n - 1
           f == [b \in S |-> Rank(S, b)]
<1>1. n \in Nat
  BY FS_CardinalityType
<1>2. IsFiniteSet(R) /\ Cardinality(R) = n
  <2>1. n - 1 \in Int /\ 0 \in Int
    BY <1>1
  <2>2. IsFiniteSet(0 .. n - 1) /\ Cardinality(0 .. n - 1) = IF 0 > n - 1 THEN 0 ELSE n - 1 - 0 + 1
    BY <2>1, FS_Interval
  <2>3. QED BY <1>1, <2>2
<1>3. f \in [S -> R] /\ \A a, b \in S : f[a] = f[b] => a = b
  BY RankGrows, RankIsUnique
<1>4. f \in Injection(S, R)
  BY <1>3 DEF Injection, IsInjective
<1>5. f \in Surjection(S, R)
  BY <1>2, <1>4, FS_Injection
<1>6. QED BY <1>5 DEF Surjection

LEMMA InOrder ==
    ASSUME NEW S \in SUBSET Nat, IsFiniteSet(S)
    PROVE  /\ OldestFirst(S) \in Seq(S) /\ Len(OldestFirst(S)) = Cardinality(S)
           /\ \A i \in 1 .. Cardinality(S) :
                OldestFirst(S)[i] \in S /\ Rank(S, OldestFirst(S)[i]) = i - 1
           /\ \A b \in S : OldestFirst(S)[Rank(S, b) + 1] = b
<1> DEFINE n == Cardinality(S)
           o == OldestFirst(S)
<1>1. n \in Nat
  BY FS_CardinalityType
<1>2. o = [i \in 1 .. n |-> CHOOSE b \in S : Rank(S, b) = i - 1]
  BY Zenon DEF OldestFirst, Rank
<1>3. \A i \in 1 .. n : o[i] \in S /\ Rank(S, o[i]) = i - 1
  <2>1. SUFFICES ASSUME NEW i \in 1 .. n PROVE o[i] \in S /\ Rank(S, o[i]) = i - 1
    OBVIOUS
  <2>2. i - 1 \in 0 .. n - 1
    BY <1>1
  <2>3. \E b \in S : Rank(S, b) = i - 1
    BY <2>2, EveryRank
  <2>4. o[i] = CHOOSE b \in S : Rank(S, b) = i - 1
    BY <1>2
  <2>5. QED BY <2>3, <2>4, Zenon
<1> HIDE DEF o, n
<1>4. o \in Seq(S) /\ Len(o) = n
  BY <1>1, <1>2, <1>3
<1>5. \A b \in S : o[Rank(S, b) + 1] = b
  <2>1. \A b \in S, c \in S : Rank(S, c) = Rank(S, b) => c = b
    BY RankIsUnique
  <2>2. \A b \in S : Rank(S, b) \in 0 .. n - 1
    BY RankGrows DEF n
  <2>3. ASSUME NEW b \in S, NEW i \in 1 .. n, i = Rank(S, b) + 1 PROVE o[i] = b
    <3>1. o[i] \in S /\ Rank(S, o[i]) = i - 1 /\ Rank(S, b) \in Int
      BY <1>3, <2>2
    <3>2. Rank(S, o[i]) = Rank(S, b)
      BY <2>3, <3>1
    <3>3. QED BY <2>1, <3>1, <3>2
  <2>4. \A b \in S : Rank(S, b) + 1 \in 1 .. n
    BY <1>1, <2>2
  <2>5. QED BY <2>3, <2>4
<1>6. QED BY <1>3, <1>4, <1>5 DEF o, n

(* The m oldest. *)
LEMMA OldestCounted ==
    ASSUME NEW S \in SUBSET Nat, IsFiniteSet(S), NEW m \in 0 .. Cardinality(S)
    PROVE  LET T == {OldestFirst(S)[i] : i \in 1 .. m}
           IN  /\ T = {b \in S : Rank(S, b) < m}
               /\ IsFiniteSet(T) /\ Cardinality(T) = m
<1> DEFINE o == OldestFirst(S)
           n == Cardinality(S)
           T == {o[i] : i \in 1 .. m}
           f == [i \in 1 .. m |-> o[i]]
<1>1. n \in Nat /\ m \in Nat /\ m <= n
  BY FS_CardinalityType
<1>2. /\ \A i \in 1 .. n : o[i] \in S /\ Rank(S, o[i]) = i - 1
      /\ \A b \in S : o[Rank(S, b) + 1] = b
  BY InOrder
<1> HIDE DEF o
<1>3. T = {b \in S : Rank(S, b) < m}
  <2>1. ASSUME NEW b \in S, Rank(S, b) < m PROVE b \in T
    <3>1. Rank(S, b) \in Nat
      BY RankGrows
    <3>2. Rank(S, b) + 1 \in 1 .. m /\ o[Rank(S, b) + 1] = b
      BY <1>1, <1>2, <2>1, <3>1
    <3>3. QED BY <3>2
  <2>2. ASSUME NEW i \in 1 .. m PROVE o[i] \in S /\ Rank(S, o[i]) < m
    <3>1. i \in 1 .. n
      BY <1>1
    <3>2. QED BY <1>1, <1>2, <3>1
  <2>3. QED BY <2>1, <2>2
<1>4. f \in Bijection(1 .. m, T)
  <2>1. f \in [1 .. m -> T] /\ \A x \in T : \E i \in 1 .. m : f[i] = x
    OBVIOUS
  <2>2. \A i, j \in 1 .. m : f[i] = f[j] => i = j
    <3>1. SUFFICES ASSUME NEW i \in 1 .. m, NEW j \in 1 .. m, o[i] = o[j] PROVE i = j
      OBVIOUS
    <3>2. i - 1 = j - 1
      BY <1>1, <1>2, <3>1
    <3>3. QED BY <3>2
  <2>3. QED BY <2>1, <2>2 DEF Bijection, Injection, Surjection, IsInjective
<1>5. ExistsBijection(1 .. m, T)
  BY <1>4, Zenon DEF ExistsBijection
<1> HIDE DEF T, f
<1>6. IsFiniteSet(1 .. m) /\ Cardinality(1 .. m) = m
  <2>1. IsFiniteSet(1 .. m) /\ Cardinality(1 .. m) = IF 1 > m THEN 0 ELSE m - 1 + 1
    BY <1>1, FS_Interval
  <2>2. QED BY <1>1, <2>1
<1>7. IsFiniteSet(T) /\ Cardinality(T) = m
  BY <1>5, <1>6, FS_Bijection
<1>8. QED BY <1>3, <1>7 DEF T, o

-----------------------------------------------------------------------------
(* A pass over n backups. *)

IsPass(f, n, base, step) == f[0] = base /\ \A k \in 1 .. n : f[k] = step[k][f[k - 1]]

LEMMA PassExists ==
    ASSUME NEW n \in Nat, NEW Z, NEW base \in Z, NEW step \in [1 .. n -> [Z -> Z]]
    PROVE  \E f \in [0 .. n -> Z] : IsPass(f, n, base, step)
<1> USE DEF IsPass
<1> DEFINE Is(f, m) == IsPass(f, m, base, step)
           T == {m \in 0 .. n : ~ \E f \in [0 .. m -> Z] : Is(f, m)}
<1>1. SUFFICES ASSUME T # {} PROVE FALSE
  <2>1. n \notin T
    BY <1>1
  <2>2. QED BY <2>1
<1>2. PICK x \in T : \A y \in T : x <= y
  <2>1. T \subseteq Nat
    OBVIOUS
  <2>2. QED BY <1>1, <2>1, LeastIsIn
<1>3. x # 0
  <2>1. [k \in 0 .. 0 |-> base] \in [0 .. 0 -> Z] /\ Is([k \in 0 .. 0 |-> base], 0)
    OBVIOUS
  <2>2. QED BY <1>2, <2>1
<1>4. x - 1 \in 0 .. n /\ x - 1 \notin T
  <2>1. x \in 1 .. n
    BY <1>3
  <2> HIDE DEF T
  <2>2. QED BY <1>2, <2>1
<1>5. PICK g \in [0 .. x - 1 -> Z] : Is(g, x - 1)
  BY <1>4
<1> DEFINE f == [k \in 0 .. x |-> IF k = x THEN step[x][g[x - 1]] ELSE g[k]]
<1>6. x \in 1 .. n
  BY <1>2, <1>3
<1>7. step[x][g[x - 1]] \in Z
  BY <1>5, <1>6
<1>8. f \in [0 .. x -> Z]
  BY <1>5, <1>6, <1>7
<1>9. Is(f, x)
  <2>1. f[0] = base
    BY <1>5, <1>6
  <2>2. ASSUME NEW k \in 1 .. x PROVE f[k] = step[k][f[k - 1]]
    <3>1. CASE k = x
      <4>1. f[k] = step[x][g[x - 1]] /\ f[k - 1] = g[x - 1]
        BY <3>1, <1>6
      <4>2. QED BY <3>1, <4>1
    <3>2. CASE k # x
      <4>1. k \in 1 .. x - 1 /\ k - 1 \in 0 .. x /\ k - 1 # x
        BY <3>2, <1>6
      <4>2. f[k] = g[k] /\ f[k - 1] = g[k - 1]
        BY <3>2, <4>1
      <4>3. g[k] = step[k][g[k - 1]]
        BY <1>5, <4>1
      <4>4. QED BY <4>2, <4>3
    <3>3. QED BY <3>1, <3>2
  <2>3. QED BY <2>1, <2>2
<1>10. QED BY <1>2, <1>8, <1>9

-----------------------------------------------------------------------------
(* The passes of get_stale_backups. *)

Gone(S, t) == {b \in S : Expired(b, t)}

LEMMA TwoIntegers ==
    ASSUME NEW a \in Int, NEW b \in Int
    PROVE  /\ Min({a, b}) = IF a <= b THEN a ELSE b
           /\ Max({a, b}) = IF a >= b THEN a ELSE b
<1>1. \E x \in {a, b} : \A y \in {a, b} : x <= y
  OBVIOUS
<1>2. \E x \in {a, b} : \A y \in {a, b} : x >= y
  OBVIOUS
<1>3. Min({a, b}) \in {a, b} /\ \A y \in {a, b} : Min({a, b}) <= y
  BY <1>1 DEF Min
<1>4. Max({a, b}) \in {a, b} /\ \A y \in {a, b} : Max({a, b}) >= y
  BY <1>2 DEF Max
<1>5. QED BY <1>3, <1>4

LEMMA LimitIsNat ==
    ASSUME NEW S, IsFiniteSet(S)
    PROVE  /\ Cardinality(S) \in Nat /\ NumStale(S) \in Nat
           /\ NumStale(S) = IF Cardinality(S) >= MaxBackups
                            THEN Cardinality(S) - MaxBackups + 1 ELSE 0
<1> DEFINE n == Cardinality(S)
<1>1. n \in Nat /\ MaxBackups \in Nat /\ MaxBackups > 0
  BY FS_CardinalityType, RetentionAssumption
<1>2. 0 \in Int /\ n - MaxBackups + 1 \in Int
  BY <1>1
<1>3. NumStale(S) = IF 0 >= n - MaxBackups + 1 THEN 0 ELSE n - MaxBackups + 1
  BY <1>2, TwoIntegers DEF NumStale
<1>4. QED BY <1>1, <1>3

(* The first pass removes the oldest expired ones, as many as it may. *)
LEMMA FirstPass ==
    ASSUME NEW S \in SUBSET Nat, IsFiniteSet(S), NEW t \in Nat
    PROVE  /\ StaleExpired(S, t) \subseteq Gone(S, t)
           /\ IsFiniteSet(StaleExpired(S, t))
           /\ Cardinality(StaleExpired(S, t)) <= NumStale(S)
           /\ Cardinality(StaleExpired(S, t)) < NumStale(S) => StaleExpired(S, t) = Gone(S, t)
           /\ \A a \in Gone(S, t), b \in StaleExpired(S, t) : a < b => a \in StaleExpired(S, t)
<1> DEFINE E == Gone(S, t)
           n == Cardinality(E)
           limit == NumStale(S)
           m == Min({Len(OldestFirst(E)), limit})
           T == {OldestFirst(E)[i] : i \in 1 .. m}
<1>1. E \in SUBSET Nat /\ E \in SUBSET S
  BY DEF Gone
<1>2. IsFiniteSet(E) /\ n \in Nat /\ limit \in Nat
  BY <1>1, FS_Subset, FS_CardinalityType, LimitIsNat
<1>3. StaleExpired(S, t) = T
  BY Zenon DEF StaleExpired, Gone
<1>4. m = IF n <= limit THEN n ELSE limit
  <2>1. Len(OldestFirst(E)) = n
    BY <1>1, <1>2, InOrder
  <2>2. m = Min({n, limit}) /\ n \in Int /\ limit \in Int
    BY <1>2, <2>1
  <2>3. QED BY <2>2, TwoIntegers
<1> HIDE DEF E, limit, m
<1>5. m \in 0 .. n
  BY <1>2, <1>4
<1>6. T = {b \in E : Rank(E, b) < m} /\ IsFiniteSet(T) /\ Cardinality(T) = m
  BY <1>1, <1>2, <1>5, OldestCounted
<1>7. \A a, b \in E : a < b => Rank(E, a) < Rank(E, b)
  BY <1>1, <1>2, RankGrows
<1>8. \A b \in E : Rank(E, b) \in 0 .. n - 1
  BY <1>1, <1>2, RankGrows
<1> HIDE DEF T
<1>9. T \subseteq E /\ m <= limit
  BY <1>2, <1>4, <1>6
<1>10. m < limit => T = E
  BY <1>2, <1>4, <1>6, <1>8
<1>11. \A a \in E, b \in T : a < b => a \in T
  <2>1. SUFFICES ASSUME NEW a \in E, NEW b \in T, a < b PROVE a \in T
    OBVIOUS
  <2>2. b \in E /\ Rank(E, b) < m
    BY <1>6
  <2>3. Rank(E, a) < Rank(E, b) /\ Rank(E, a) \in Int /\ Rank(E, b) \in Int
    BY <1>7, <1>8, <2>1, <2>2
  <2>4. Rank(E, a) < m
    BY <1>2, <1>5, <2>2, <2>3
  <2>5. QED BY <1>6, <2>4
<1>12. QED BY <1>3, <1>6, <1>9, <1>10, <1>11 DEF E, limit

(* The k newest of S. *)
Newest(S, k) == {b \in S : Rank(S, b) >= Cardinality(S) - k}

LEMMA NewestGrow ==
    ASSUME NEW S \in SUBSET Nat, IsFiniteSet(S), NEW k \in 1 .. Cardinality(S)
    PROVE  LET b == NewestFirst(S)[k]
           IN  /\ b \in S /\ b \notin Newest(S, k - 1)
               /\ Newest(S, k) = Newest(S, k - 1) \cup {b}
               /\ \A a \in Newest(S, k - 1) : b < a
               /\ \A a \in S : a \notin Newest(S, k - 1) => a <= b
<1> DEFINE n == Cardinality(S)
           b == NewestFirst(S)[k]
<1>1. n \in Nat /\ k \in Nat /\ k >= 1 /\ k <= n
  BY FS_CardinalityType
<1>2. b = OldestFirst(S)[n + 1 - k] /\ n + 1 - k \in 1 .. n
  BY <1>1 DEF NewestFirst
<1>3. b \in S /\ Rank(S, b) = n + 1 - k - 1
  BY <1>2, InOrder
<1> HIDE DEF b
<1>4. \A a \in S : /\ Rank(S, a) \in 0 .. n - 1 /\ a \in Nat
                   /\ a < b => Rank(S, a) < Rank(S, b)
                   /\ b < a => Rank(S, b) < Rank(S, a)
  BY <1>3, RankGrows
<1>5. \A a \in S : Rank(S, a) = Rank(S, b) => a = b
  BY <1>3, RankIsUnique
<1>6. Rank(S, b) = n - k
  BY <1>1, <1>3
<1> HIDE DEF n
<1>7. \A a \in S : a \in Newest(S, k - 1) <=> Rank(S, a) >= n - k + 1
  <2>1. n - (k - 1) = n - k + 1
    BY <1>1
  <2>2. QED BY <2>1 DEF Newest, n
<1>8. \A a \in S : a \in Newest(S, k) <=> Rank(S, a) >= n - k
  BY DEF Newest, n
<1>9. Newest(S, k) \subseteq S /\ Newest(S, k - 1) \subseteq S
  BY DEF Newest
<1>10. \A a \in S : a \in Newest(S, k) <=> (a \in Newest(S, k - 1) \/ a = b)
  BY <1>1, <1>4, <1>5, <1>6, <1>7, <1>8
<1>11. Newest(S, k) = Newest(S, k - 1) \cup {b}
  BY <1>3, <1>9, <1>10
<1>12. b \notin Newest(S, k - 1)
  BY <1>1, <1>3, <1>6, <1>7
<1>13. \A a \in S : a \in Newest(S, k - 1) => b < a
  BY <1>1, <1>3, <1>4, <1>6, <1>7
<1>14. \A a \in S : a \notin Newest(S, k - 1) => a <= b
  BY <1>1, <1>3, <1>4, <1>6, <1>7
<1>15. QED BY <1>3, <1>9, <1>11, <1>12, <1>13, <1>14 DEF b

LEMMA NewestEnds ==
    ASSUME NEW S \in SUBSET Nat, IsFiniteSet(S)
    PROVE  Newest(S, 0) = {} /\ Newest(S, Cardinality(S)) = S
<1> DEFINE n == Cardinality(S)
<1>1. n \in Nat /\ \A b \in S : Rank(S, b) \in 0 .. n - 1
  BY FS_CardinalityType, RankGrows
<1> HIDE DEF n
<1>2. \A b \in S : ~(Rank(S, b) >= n - 0) /\ Rank(S, b) >= n - n
  BY <1>1
<1>3. QED BY <1>2 DEF Newest, n

(* What the second pass leaves in a bin when it has seen the k newest. *)
InBin(S, t, j) == {b \in S : ~Expired(b, t) /\ Bin(b, t) = j}

Left(S, t, k, j) == InBin(S, t, j) \ (Newest(S, k) \cap Spare(S, t))

LEMMA LeftIsFinite ==
    ASSUME NEW S \in SUBSET Nat, IsFiniteSet(S), NEW t, NEW k, NEW j
    PROVE  IsFiniteSet(Left(S, t, k, j)) /\ Cardinality(Left(S, t, k, j)) \in Nat
<1>1. Left(S, t, k, j) \in SUBSET S
  BY DEF Left, InBin
<1>2. QED BY <1>1, FS_Subset, FS_CardinalityType

(* The count of its bin says whether a backup can be spared. *)
LEMMA CountTells ==
    ASSUME NEW S \in SUBSET Nat, IsFiniteSet(S), NEW t \in Nat, NEW k \in 1 .. Cardinality(S),
           NEW b, b = NewestFirst(S)[k], ~Expired(b, t)
    PROVE  b \in Spare(S, t) <=>
             Cardinality(Left(S, t, k - 1, Bin(b, t))) + (IF Bin(b, t) = 0 THEN 1 ELSE 0) > 1
<1> DEFINE j == Bin(b, t)
           L == Left(S, t, k - 1, j)
<1>1. /\ b \in S /\ b \notin Newest(S, k - 1)
      /\ \A a \in Newest(S, k - 1) : b < a
      /\ \A a \in S : a \notin Newest(S, k - 1) => a <= b
  BY NewestGrow
<1>2. b \in L
  BY <1>1 DEF Left, InBin
<1>3. /\ IsFiniteSet(L) /\ Cardinality(L) \in Nat
      /\ IsFiniteSet(L \ {b}) /\ Cardinality(L \ {b}) \in Nat
      /\ Cardinality(L \ {b}) = Cardinality(L) - 1
  <2>1. IsFiniteSet(L) /\ Cardinality(L) \in Nat
    BY LeftIsFinite
  <2> HIDE DEF L
  <2>2. QED BY <1>2, <2>1, FS_RemoveElement, FS_CardinalityType
<1>4. Cardinality(L \ {b}) = 0 <=> L \ {b} = {}
  BY <1>3, FS_EmptySet
<1>5. b \in Spare(S, t) <=>
        (j = 0 \/ \E a \in S : a < b /\ ~Expired(a, t) /\ Bin(a, t) = j)
  BY <1>1, Zenon DEF Spare
<1>6. (\E a \in S : a < b /\ ~Expired(a, t) /\ Bin(a, t) = j) <=> L \ {b} # {}
  <2>1. ASSUME NEW a \in S, a < b, ~Expired(a, t), Bin(a, t) = j PROVE a \in L \ {b}
    <3>1. a \notin Newest(S, k - 1) /\ a # b
      <4>1. a \in Nat /\ b \in Nat
        BY <1>1
      <4>2. ~(b < a) /\ a # b
        BY <2>1, <4>1
      <4>3. QED BY <1>1, <4>2
    <3>2. QED BY <2>1, <3>1 DEF Left, InBin
  <2>2. ASSUME NEW a \in L \ {b} PROVE a \in S /\ a < b /\ ~Expired(a, t) /\ Bin(a, t) = j
    <3>1. a \in S /\ ~Expired(a, t) /\ Bin(a, t) = j /\ a # b
      BY DEF Left, InBin
    <3>2. a \in Newest(S, k - 1) => a \notin Spare(S, t)
      BY DEF Left
    <3>3. a \in Newest(S, k - 1) => a \in Spare(S, t)
      BY <1>1, <3>1 DEF Spare
    <3>4. a <= b /\ a \in Nat /\ b \in Nat
      BY <1>1, <3>1, <3>2, <3>3
    <3>5. QED BY <3>1, <3>4
  <2>3. QED BY <2>1, <2>2
<1> HIDE DEF L, j
<1>7. b \in Spare(S, t) <=> (j = 0 \/ Cardinality(L \ {b}) # 0)
  BY <1>4, <1>5, <1>6
<1>8. b \in Spare(S, t) <=> Cardinality(L) + (IF j = 0 THEN 1 ELSE 0) > 1
  BY <1>2, <1>3, <1>7
<1>9. QED BY <1>8 DEF L, j

Passes(S) == [stale : SUBSET S, counts : [0 .. MaxBackups - 1 -> Int]]

(* What holds when the second pass has seen the k newest: nothing but the  *)
(* stale expired ones and spare ones is removed; a spare one goes after    *)
(* the expired ones and the spare newer ones; and as long as the limit is  *)
(* not reached all the candidates seen are removed, and counted.           *)
PassInv(S, t, k, acc) ==
    /\ StaleExpired(S, t) \subseteq acc.stale
    /\ acc.stale \subseteq StaleExpired(S, t) \cup Spare(S, t)
    /\ Cardinality(acc.stale) <= NumStale(S)
    /\ \A b \in acc.stale \cap Spare(S, t) :
         /\ Gone(S, t) \subseteq acc.stale
         /\ \A a \in Spare(S, t) : b < a => a \in acc.stale
    /\ Cardinality(acc.stale) < NumStale(S) =>
         /\ acc.stale = Gone(S, t) \cup (Newest(S, k) \cap Spare(S, t))
         /\ \A j \in 0 .. MaxBackups - 1 :
              acc.counts[j] = Cardinality(Left(S, t, k, j)) + (IF j = 0 THEN 1 ELSE 0)

Base(S, t) == [stale |-> StaleExpired(S, t), counts |-> Counts(S, t)]

LEMMA GoneAreNotSpare ==
    ASSUME NEW S, NEW t
    PROVE  /\ Gone(S, t) \cap Spare(S, t) = {}
           /\ Gone(S, t) \subseteq S /\ Spare(S, t) \subseteq S
BY DEF Gone, Spare

LEMMA PassBegins ==
    ASSUME NEW S \in SUBSET Nat, IsFiniteSet(S), NEW t \in Nat
    PROVE  Base(S, t) \in Passes(S) /\ PassInv(S, t, 0, Base(S, t))
<1> DEFINE E == StaleExpired(S, t)
           C == Counts(S, t)
<1>1. /\ E \subseteq Gone(S, t) /\ Cardinality(E) <= NumStale(S)
      /\ Cardinality(E) < NumStale(S) => E = Gone(S, t)
  BY FirstPass
<1>2. Newest(S, 0) = {}
  BY NewestEnds
<1>3. Gone(S, t) \cap Spare(S, t) = {} /\ Gone(S, t) \subseteq S
  BY GoneAreNotSpare
<1>4. C = [j \in 0 .. MaxBackups - 1 |->
             Cardinality(Left(S, t, 0, j)) + (IF j = 0 THEN 1 ELSE 0)]
  <2>1. \A j : Left(S, t, 0, j) = {b \in S : ~Expired(b, t) /\ Bin(b, t) = j}
    BY <1>2 DEF Left, InBin
  <2>2. QED BY <2>1, Zenon DEF Counts
<1>5. C \in [0 .. MaxBackups - 1 -> Int]
  <2>1. \A j \in 0 .. MaxBackups - 1 : Cardinality(Left(S, t, 0, j)) \in Nat
    BY LeftIsFinite
  <2>2. QED BY <1>4, <2>1
<1> HIDE DEF E, C
<1>6. Base(S, t).stale = E /\ Base(S, t).counts = C
  BY DEF Base, E, C
<1>7. Base(S, t) \in Passes(S)
  BY <1>1, <1>3, <1>5 DEF Base, Passes, E, C
<1>8. \A j \in 0 .. MaxBackups - 1 :
        C[j] = Cardinality(Left(S, t, 0, j)) + (IF j = 0 THEN 1 ELSE 0)
  BY <1>4
<1>9. PassInv(S, t, 0, Base(S, t))
  <2>1. E \cap Spare(S, t) = {}
    BY <1>1, <1>3
  <2>2. Gone(S, t) \cup (Newest(S, 0) \cap Spare(S, t)) = Gone(S, t)
    BY <1>2
  <2>3. QED BY <1>1, <1>6, <1>8, <2>1, <2>2 DEF PassInv, E
<1>10. QED BY <1>7, <1>9

(* One backup of the second pass. *)
LEMMA PassStep ==
    ASSUME NEW S \in SUBSET Nat, IsFiniteSet(S), NEW t \in Nat, NEW k \in 1 .. Cardinality(S),
           NEW acc \in Passes(S), PassInv(S, t, k - 1, acc)
    PROVE  PassInv(S, t, k, Thin(t, NumStale(S), acc, NewestFirst(S)[k]))
<1> DEFINE b == NewestFirst(S)[k]
           limit == NumStale(S)
           next == Thin(t, limit, acc, b)
           j == Bin(b, t)
           seen == Newest(S, k - 1)
           C(i) == IF i = 0 THEN 1 ELSE 0
<1>1. /\ b \in S /\ b \notin seen /\ Newest(S, k) = seen \cup {b}
      /\ \A a \in S : a \notin seen => a <= b
  BY NewestGrow
<1>2. limit \in Nat
  BY LimitIsNat
<1>3. acc.stale \in SUBSET S /\ acc.counts \in [0 .. MaxBackups - 1 -> Int]
  BY DEF Passes
<1>4. IsFiniteSet(acc.stale) /\ Cardinality(acc.stale) \in Nat
  BY <1>3, FS_Subset, FS_CardinalityType
<1>5. b \in Nat /\ (~Expired(b, t) => j \in 0 .. MaxBackups - 1)
  BY <1>1, BinFits
<1>6. CASE ~(Cardinality(acc.stale) < limit)
  <2>1. next = acc
    BY <1>6 DEF Thin
  <2>2. QED BY <1>6, <2>1 DEF PassInv
<1>7. CASE Cardinality(acc.stale) < limit
  <2>1. /\ acc.stale = Gone(S, t) \cup (seen \cap Spare(S, t))
        /\ \A i \in 0 .. MaxBackups - 1 : acc.counts[i] = Cardinality(Left(S, t, k - 1, i)) + C(i)
    BY <1>7 DEF PassInv
  <2>2. b \in Spare(S, t) => ~Expired(b, t)
    BY DEF Spare
  <2>3. ASSUME ~Expired(b, t) PROVE b \in Spare(S, t) <=> acc.counts[j] > 1
    <3>1. acc.counts[j] = Cardinality(Left(S, t, k - 1, j)) + C(j)
      BY <1>5, <2>1, <2>3
    <3>2. b \in Spare(S, t) <=> Cardinality(Left(S, t, k - 1, j)) + C(j) > 1
      BY <2>3, CountTells
    <3>3. QED BY <3>1, <3>2
  <2>4. CASE b \notin Spare(S, t)
    <3>1. next = acc
      BY <2>3, <2>4 DEF Thin
    <3>2. Newest(S, k) \cap Spare(S, t) = seen \cap Spare(S, t)
      BY <1>1, <2>4
    <3>3. \A i : Left(S, t, k, i) = Left(S, t, k - 1, i)
      BY <3>2, Zenon DEF Left
    <3>4. QED BY <3>1, <3>2, <3>3 DEF PassInv
  <2>5. CASE b \in Spare(S, t)
    <3>1. /\ next.stale = acc.stale \cup {b}
          /\ next.counts = [acc.counts EXCEPT ![j] = @ - 1]
      <4>1. next = [stale |-> acc.stale \cup {b}, counts |-> [acc.counts EXCEPT ![j] = @ - 1]]
        BY <1>7, <2>2, <2>3, <2>5 DEF Thin
      <4> HIDE DEF next
      <4>2. QED BY <4>1
    <3>2. Newest(S, k) \cap Spare(S, t) = (seen \cap Spare(S, t)) \cup {b}
      BY <1>1, <2>5
    <3>3. b \notin acc.stale /\ Gone(S, t) \cap Spare(S, t) = {}
      BY <1>1, <2>1, <2>5, GoneAreNotSpare
    <3>4. Cardinality(next.stale) = Cardinality(acc.stale) + 1
      BY <1>4, <3>1, <3>3, FS_AddElement
    <3>5. next.stale = Gone(S, t) \cup (Newest(S, k) \cap Spare(S, t))
      BY <2>1, <3>1, <3>2
    <3>6. \A i \in 0 .. MaxBackups - 1 : next.counts[i] = Cardinality(Left(S, t, k, i)) + C(i)
      <4>1. SUFFICES ASSUME NEW i \in 0 .. MaxBackups - 1
                     PROVE  next.counts[i] = Cardinality(Left(S, t, k, i)) + C(i)
        OBVIOUS
      <4>2. Left(S, t, k, i) = Left(S, t, k - 1, i) \ {b}
        BY <3>2 DEF Left
      <4>3. b \in Left(S, t, k - 1, i) <=> i = j
        BY <1>1, <2>2, <2>5 DEF Left, InBin
      <4>4. IsFiniteSet(Left(S, t, k - 1, i)) /\ Cardinality(Left(S, t, k - 1, i)) \in Nat
        BY LeftIsFinite
      <4> DEFINE L == Left(S, t, k - 1, i)
      <4> HIDE DEF L
      <4>5. Cardinality(L \ {b}) = IF i = j THEN Cardinality(L) - 1 ELSE Cardinality(L)
        BY <4>3, <4>4, FS_RemoveElement DEF L
      <4>6. next.counts[i] = IF i = j THEN acc.counts[i] - 1 ELSE acc.counts[i]
        <5> HIDE DEF next, j
        <5>1. QED BY <1>3, <3>1
      <4>7. acc.counts[i] = Cardinality(L) + C(i)
        BY <2>1 DEF L
      <4>8. Cardinality(L) \in Nat /\ C(i) \in Nat /\ Left(S, t, k, i) = L \ {b}
        BY <4>2, <4>4 DEF L
      <4> HIDE DEF next, j, C
      <4>9. QED BY <4>5, <4>6, <4>7, <4>8
    <3>7. \A c \in next.stale \cap Spare(S, t) :
            /\ Gone(S, t) \subseteq next.stale
            /\ \A a \in Spare(S, t) : c < a => a \in next.stale
      <4>1. SUFFICES ASSUME NEW c \in next.stale \cap Spare(S, t), NEW a \in Spare(S, t), c < a
                     PROVE  a \in seen
        BY <3>2, <3>5
      <4>2. c \in S /\ a \in S /\ c \in Nat /\ a \in Nat /\ b \in Nat
        BY <1>5 DEF Spare
      <4>3. c \in seen \/ c = b
        BY <3>2, <3>3, <3>5
      <4>4. b <= c
        <5>1. \A x \in seen : b < x
          BY NewestGrow
        <5>2. QED BY <4>2, <4>3, <5>1
      <4>5. ~(a <= b)
        BY <4>1, <4>2, <4>4
      <4>6. QED BY <1>1, <4>2, <4>5
    <3>8. /\ StaleExpired(S, t) \subseteq next.stale
          /\ next.stale \subseteq StaleExpired(S, t) \cup Spare(S, t)
      BY <2>5, <3>1 DEF PassInv
    <3>9. Cardinality(next.stale) <= limit
      BY <1>2, <1>4, <1>7, <3>4
    <3> HIDE DEF next, limit
    <3>10. PassInv(S, t, k, next)
      BY <3>5, <3>6, <3>7, <3>8, <3>9 DEF PassInv, limit
    <3>11. QED BY <3>10 DEF next, limit
  <2>6. QED BY <2>4, <2>5
<1>8. QED BY <1>6, <1>7

LEMMA ThinStays ==
    ASSUME NEW S \in SUBSET Nat, NEW t \in Nat, NEW acc \in Passes(S), NEW b \in S, NEW limit
    PROVE  Thin(t, limit, acc, b) \in Passes(S)
<1>1. acc.stale \in SUBSET S /\ acc.counts \in [0 .. MaxBackups - 1 -> Int]
  BY DEF Passes
<1>2. acc.stale \cup {b} \in SUBSET S
  BY <1>1
<1>3. [acc.counts EXCEPT ![Bin(b, t)] = @ - 1] \in [0 .. MaxBackups - 1 -> Int]
  <2> DEFINE f == acc.counts
             j == Bin(b, t)
  <2>1. f \in [0 .. MaxBackups - 1 -> Int]
    BY <1>1
  <2> HIDE DEF f, j
  <2>2. \A i \in 0 .. MaxBackups - 1 : [f EXCEPT ![j] = @ - 1][i] \in Int
    BY <2>1
  <2>3. [f EXCEPT ![j] = @ - 1] \in [0 .. MaxBackups - 1 -> Int]
    BY <2>1, <2>2
  <2>4. QED BY <2>3 DEF f, j
<1>4. [stale |-> acc.stale \cup {b}, counts |-> [acc.counts EXCEPT ![Bin(b, t)] = @ - 1]] \in Passes(S)
  BY <1>2, <1>3 DEF Passes
<1>5. QED BY <1>4 DEF Thin

(* The passes do what their definition says, one backup after the other. *)
LEMMA PassUnfolds ==
    ASSUME NEW S \in SUBSET Nat, IsFiniteSet(S), NEW t \in Nat
    PROVE  LET p == Thinned(S, t, NewestFirst(S))
           IN  /\ p \in [0 .. Cardinality(S) -> Passes(S)] /\ p[0] = Base(S, t)
               /\ \A k \in 1 .. Cardinality(S) :
                    p[k] = Thin(t, NumStale(S), p[k - 1], NewestFirst(S)[k])
<1> DEFINE n == Cardinality(S)
           o == NewestFirst(S)
           limit == NumStale(S)
           Z == Passes(S)
           base == Base(S, t)
           step == [k \in 1 .. n |-> [z \in Z |-> Thin(t, limit, z, o[k])]]
           Eq(f) == f = [k \in 0 .. n |-> IF k = 0 THEN base ELSE Thin(t, limit, f[k - 1], o[k])]
           p == Thinned(S, t, o)
<1>1. n \in Nat /\ base \in Z
  BY FS_CardinalityType, PassBegins
<1>2. \A k \in 1 .. n : o[k] \in S
  BY NewestGrow
<1>3. p = CHOOSE f : Eq(f)
  BY Zenon DEF Thinned, Base
<1>4. \A k \in 1 .. n, z \in Z : Thin(t, limit, z, o[k]) \in Z
  BY <1>2, ThinStays
<1> HIDE DEF n, o, limit, Z, base, p
<1>5. step \in [1 .. n -> [Z -> Z]]
  BY <1>4
<1>6. PICK f \in [0 .. n -> Z] : IsPass(f, n, base, step)
  <2> HIDE DEF step
  <2>1. n \in Nat /\ base \in Z /\ step \in [1 .. n -> [Z -> Z]]
    BY <1>1, <1>5
  <2>2. QED BY <2>1, PassExists
<1>7. \A k \in 1 .. n : f[k] = Thin(t, limit, f[k - 1], o[k])
  <2>1. SUFFICES ASSUME NEW k \in 1 .. n PROVE f[k] = Thin(t, limit, f[k - 1], o[k])
    OBVIOUS
  <2>2. k - 1 \in 0 .. n
    BY <1>1
  <2>3. f[k - 1] \in Z
    BY <1>6, <2>2
  <2>4. step[k] = [z \in Z |-> Thin(t, limit, z, o[k])]
    OBVIOUS
  <2>5. f[k] = step[k][f[k - 1]]
    BY <1>6 DEF IsPass
  <2>6. QED BY <2>3, <2>4, <2>5, Zenon
<1>8. Eq(f)
  <2>1. \A k \in 0 .. n : f[k] = IF k = 0 THEN base ELSE Thin(t, limit, f[k - 1], o[k])
    BY <1>1, <1>6, <1>7 DEF IsPass
  <2>2. QED BY <1>6, <2>1
<1>9. Eq(p)
  BY <1>3, <1>8, Zenon
<1>10. p[0] = base /\ \A k \in 1 .. n : p[k] = Thin(t, limit, p[k - 1], o[k])
  <2>1. 0 \in 0 .. n /\ \A k \in 1 .. n : k \in 0 .. n /\ k # 0
    BY <1>1
  <2>2. QED BY <1>9, <2>1
<1>11. p \in [0 .. n -> Z]
  <2> DEFINE T == {k \in 0 .. n : p[k] \notin Z}
  <2>1. SUFFICES ASSUME T # {} PROVE FALSE
    <3>1. \A k \in 0 .. n : p[k] \in Z
      BY <2>1
    <3>2. QED BY <1>9, <3>1
  <2>2. PICK x \in T : \A y \in T : x <= y
    <3>1. T \subseteq Nat
      OBVIOUS
    <3>2. QED BY <2>1, <3>1, LeastIsIn
  <2>3. x # 0
    BY <1>1, <1>10, <2>2
  <2>4. x \in 1 .. n /\ x - 1 \in 0 .. n
    BY <1>1, <2>2, <2>3
  <2>5. x - 1 \notin T
    <3> HIDE DEF T
    <3>1. QED BY <2>2, <2>4
  <2>6. p[x - 1] \in Z
    BY <2>4, <2>5
  <2>7. p[x] \in Z
    BY <1>4, <1>10, <2>4, <2>6
  <2>8. QED BY <2>2, <2>7
<1>12. QED BY <1>10, <1>11 DEF n, o, limit, Z, base, p

(* What get_stale_backups removes. *)
LEMMA StaleFacts ==
    ASSUME NEW S \in SUBSET Nat, IsFiniteSet(S), NEW t \in Nat
    PROVE  LET stale == StaleBackups(S, t)
               candidates == Gone(S, t) \cup Spare(S, t)
           IN  /\ stale \subseteq candidates
               /\ IsFiniteSet(stale) /\ Cardinality(stale) <= NumStale(S)
               /\ Cardinality(stale) < NumStale(S) => stale = candidates
               /\ \A a \in candidates, b \in stale : GoesBefore(a, b, t) => a \in stale
<1> DEFINE n == Cardinality(S)
           o == NewestFirst(S)
           p == Thinned(S, t, o)
           stale == p[n].stale
<1>1. n \in Nat
  BY FS_CardinalityType
<1>2. /\ p \in [0 .. n -> Passes(S)] /\ p[0] = Base(S, t)
      /\ \A k \in 1 .. n : p[k] = Thin(t, NumStale(S), p[k - 1], o[k])
  BY PassUnfolds
<1>3. StaleBackups(S, t) = stale
  BY Zenon DEF StaleBackups
<1>4. \A k \in 1 .. n : PassInv(S, t, k - 1, p[k - 1]) => PassInv(S, t, k, p[k])
  <2>1. SUFFICES ASSUME NEW k \in 1 .. n, PassInv(S, t, k - 1, p[k - 1]) PROVE PassInv(S, t, k, p[k])
    OBVIOUS
  <2> HIDE DEF p
  <2>2. p[k - 1] \in Passes(S)
    <3>1. k - 1 \in 0 .. n
      BY <1>1
    <3>2. QED BY <1>2, <3>1
  <2>3. PassInv(S, t, k, Thin(t, NumStale(S), p[k - 1], o[k]))
    BY <2>1, <2>2, PassStep
  <2>4. QED BY <1>2, <2>3
<1> HIDE DEF n, o, p
<1>5. PassInv(S, t, n, p[n])
  <2> DEFINE T == {k \in 0 .. n : ~PassInv(S, t, k, p[k])}
  <2>1. SUFFICES ASSUME T # {} PROVE FALSE
    BY <1>1, <2>1
  <2>2. PICK x \in T : \A y \in T : x <= y
    <3>1. T \subseteq Nat
      OBVIOUS
    <3>2. QED BY <2>1, <3>1, LeastIsIn
  <2>3. x # 0
    <3>1. PassInv(S, t, 0, p[0])
      BY <1>2, PassBegins
    <3>2. QED BY <2>2, <3>1
  <2>4. x \in 1 .. n /\ x - 1 \in 0 .. n
    BY <1>1, <2>2, <2>3
  <2>5. x - 1 \notin T
    <3> HIDE DEF T
    <3>1. QED BY <2>2, <2>4
  <2>6. PassInv(S, t, x - 1, p[x - 1])
    BY <2>4, <2>5
  <2>7. QED BY <1>4, <2>2, <2>4, <2>6
<1>6. stale \in SUBSET S
  <2>1. p[n] \in Passes(S)
    BY <1>1, <1>2
  <2>2. QED BY <2>1 DEF Passes
<1>7. Newest(S, n) \cap Spare(S, t) = Spare(S, t)
  <2>1. Newest(S, n) = S
    BY NewestEnds DEF n
  <2>2. QED BY <2>1 DEF Spare
<1>8. /\ StaleExpired(S, t) \subseteq stale
      /\ stale \subseteq StaleExpired(S, t) \cup Spare(S, t)
      /\ Cardinality(stale) <= NumStale(S)
      /\ \A b \in stale \cap Spare(S, t) :
           /\ Gone(S, t) \subseteq stale
           /\ \A a \in Spare(S, t) : b < a => a \in stale
      /\ Cardinality(stale) < NumStale(S) => stale = Gone(S, t) \cup Spare(S, t)
  BY <1>5, <1>7 DEF PassInv
<1> HIDE DEF stale
<1>9. IsFiniteSet(stale)
  BY <1>6, FS_Subset
<1>10. /\ StaleExpired(S, t) \subseteq Gone(S, t)
       /\ \A a \in Gone(S, t), b \in StaleExpired(S, t) : a < b => a \in StaleExpired(S, t)
  BY FirstPass
<1>11. ASSUME NEW a \in Gone(S, t) \cup Spare(S, t), NEW b \in stale, GoesBefore(a, b, t)
       PROVE  a \in stale
  <2>1. /\ a \in Gone(S, t) <=> Expired(a, t)
        /\ b \in Gone(S, t) <=> Expired(b, t)
        /\ a \in Spare(S, t) => ~Expired(a, t)
        /\ b \in Spare(S, t) => ~Expired(b, t)
    BY <1>6 DEF Gone, Spare
  <2>2. CASE Expired(b, t)
    BY <1>8, <1>10, <1>11, <2>1, <2>2 DEF GoesBefore
  <2>3. CASE ~Expired(b, t)
    BY <1>8, <1>10, <1>11, <2>1, <2>3 DEF GoesBefore
  <2>4. QED BY <2>2, <2>3
<1>12. QED BY <1>3, <1>8, <1>9, <1>10, <1>11

LEMMA OrderIsTotal ==
    ASSUME NEW a \in Nat, NEW b \in Nat, NEW t, a # b
    PROVE  GoesBefore(a, b, t) \/ GoesBefore(b, a, t)
<1>1. a < b \/ b < a
  OBVIOUS
<1>2. QED BY <1>1 DEF GoesBefore

(* The loops of get_stale_backups remove what is meant, whatever backups    *)
(* there are (backup_strategies.py 104-133).                               *)
LEMMA PassesAsMeant ==
    ASSUME NEW S \in SUBSET Nat, IsFiniteSet(S), NEW t \in Nat
    PROVE  StaleBackups(S, t) = MeantStale(S, t)
<1> DEFINE stale == StaleBackups(S, t)
           C == Gone(S, t) \cup Spare(S, t)
           limit == NumStale(S)
           Before(b) == {a \in C : GoesBefore(a, b, t)}
<1>1. /\ stale \subseteq C /\ IsFiniteSet(stale) /\ Cardinality(stale) <= limit
      /\ Cardinality(stale) < limit => stale = C
      /\ \A a \in C, b \in stale : GoesBefore(a, b, t) => a \in stale
  BY StaleFacts
<1>2. MeantStale(S, t) = {b \in C : Cardinality(Before(b)) < limit}
  BY Zenon DEF MeantStale, Gone
<1>3. C \in SUBSET S /\ limit \in Nat
  BY GoneAreNotSpare, LimitIsNat
<1>4. \A b : IsFiniteSet(Before(b)) /\ Cardinality(Before(b)) \in Nat
  <2>1. IsFiniteSet(C) /\ \A b : Before(b) \in SUBSET C
    BY <1>3, FS_Subset
  <2> HIDE DEF Before
  <2>2. QED BY <2>1, FS_Subset, FS_CardinalityType
<1>5. Cardinality(stale) \in Nat
  BY <1>1, FS_CardinalityType
<1> HIDE DEF stale, C, limit
<1>6. ASSUME NEW b \in stale PROVE Cardinality(Before(b)) < limit
  <2>1. b \in Nat /\ ~GoesBefore(b, b, t)
    BY <1>1, <1>3 DEF GoesBefore
  <2>2. Before(b) \in SUBSET (stale \ {b})
    BY <1>1, <2>1
  <2> HIDE DEF Before
  <2>3. IsFiniteSet(stale \ {b}) /\ Cardinality(stale \ {b}) = Cardinality(stale) - 1
    BY <1>1, FS_RemoveElement
  <2>4. Cardinality(Before(b)) <= Cardinality(stale \ {b})
    BY <2>2, <2>3, FS_Subset
  <2>5. QED BY <1>1, <1>3, <1>4, <1>5, <2>3, <2>4
<1>7. ASSUME NEW b \in C, b \notin stale PROVE ~(Cardinality(Before(b)) < limit)
  <2>1. Cardinality(stale) = limit
    BY <1>1, <1>3, <1>5, <1>7
  <2>2. stale \in SUBSET Before(b)
    <3>1. SUFFICES ASSUME NEW a \in stale PROVE GoesBefore(a, b, t)
      BY <1>1
    <3>2. a \in Nat /\ b \in Nat /\ a # b
      BY <1>1, <1>3, <1>7
    <3>3. ~GoesBefore(b, a, t)
      BY <1>1, <1>7
    <3>4. QED BY <3>2, <3>3, OrderIsTotal
  <2> HIDE DEF Before
  <2>3. Cardinality(stale) <= Cardinality(Before(b))
    BY <1>4, <2>2, FS_Subset
  <2>4. QED BY <1>3, <1>4, <2>1, <2>3
<1>8. stale = {b \in C : Cardinality(Before(b)) < limit}
  <2> HIDE DEF Before
  <2>1. QED BY <1>1, <1>6, <1>7
<1>9. QED BY <1>2, <1>8 DEF stale

(* What must stay, the oldest of every bin but the first, fits into the     *)
(* bins, so as many are removed as have to be.                             *)
LEMMA EnoughRemoved ==
    ASSUME NEW S \in SUBSET Nat, IsFiniteSet(S), NEW t \in Nat
    PROVE  /\ StaleBackups(S, t) \subseteq S
           /\ Cardinality(StaleBackups(S, t)) = NumStale(S)
           /\ IsFiniteSet(S \ StaleBackups(S, t))
           /\ Cardinality(S \ StaleBackups(S, t)) = Cardinality(S) - NumStale(S)
<1> DEFINE stale == StaleBackups(S, t)
           C == Gone(S, t) \cup Spare(S, t)
           limit == NumStale(S)
           K == S \ C
           R == 1 .. MaxBackups - 1
           f == [b \in K |-> Bin(b, t)]
<1>1. /\ stale \subseteq C /\ IsFiniteSet(stale) /\ Cardinality(stale) <= limit
      /\ Cardinality(stale) < limit => stale = C
  BY StaleFacts
<1>2. C \subseteq S
  BY GoneAreNotSpare
<1>3. /\ Cardinality(S) \in Nat /\ limit \in Nat
      /\ limit = IF Cardinality(S) >= MaxBackups THEN Cardinality(S) - MaxBackups + 1 ELSE 0
  BY LimitIsNat
<1>4. IsFiniteSet(R) /\ Cardinality(R) = MaxBackups - 1
  <2>1. 1 \in Int /\ MaxBackups - 1 \in Int /\ MaxBackups >= 1
    BY RetentionAssumption
  <2>2. IsFiniteSet(1 .. MaxBackups - 1)
        /\ Cardinality(1 .. MaxBackups - 1) = IF 1 > MaxBackups - 1 THEN 0 ELSE MaxBackups - 1 - 1 + 1
    BY <2>1, FS_Interval
  <2>3. QED BY <2>1, <2>2, RetentionAssumption
<1>5. f \in Injection(K, R)
  <2>1. \A b \in K : b \in S /\ ~Expired(b, t) /\ b \notin Spare(S, t)
    BY DEF Gone
  <2>2. \A b \in K : Bin(b, t) # 0
    BY <2>1 DEF Spare
  <2>3. \A b \in K : Bin(b, t) \in 0 .. MaxBackups - 1
    BY <2>1, BinFits
  <2>4. \A b \in K : Bin(b, t) \in R
    BY <2>2, <2>3
  <2>5. ASSUME NEW a \in K, NEW b \in K, Bin(a, t) = Bin(b, t) PROVE a = b
    <3>1. ~(a < b) /\ ~(b < a)
      BY <2>1, <2>5 DEF Spare
    <3>2. a \in Nat /\ b \in Nat
      BY <2>1
    <3>3. QED BY <3>1, <3>2
  <2>6. QED BY <2>4, <2>5 DEF Injection, IsInjective
<1> HIDE DEF stale, C, limit, K, R, f
<1>6. Cardinality(K) <= MaxBackups - 1
  BY <1>4, <1>5, FS_Injection
<1>7. IsFiniteSet(C) /\ Cardinality(C) \in Nat
  BY <1>2, FS_Subset, FS_CardinalityType
<1>8. Cardinality(K) = Cardinality(S) - Cardinality(C)
  <2>1. Cardinality(S \ C) = Cardinality(S) - Cardinality(S \cap C)
    BY FS_Difference
  <2>2. S \cap C = C
    BY <1>2
  <2>3. QED BY <2>1, <2>2 DEF K
<1>9. Cardinality(C) >= limit
  BY <1>3, <1>6, <1>7, <1>8, RetentionAssumption
<1>10. Cardinality(stale) = limit
  <2>1. Cardinality(stale) \in Nat
    BY <1>1, FS_CardinalityType
  <2>2. QED BY <1>1, <1>3, <1>7, <1>9, <2>1
<1>11. IsFiniteSet(S \ stale) /\ Cardinality(S \ stale) = Cardinality(S) - limit
  <2>1. IsFiniteSet(S \ stale) /\ Cardinality(S \ stale) = Cardinality(S) - Cardinality(S \cap stale)
    BY FS_Difference
  <2>2. S \cap stale = stale
    BY <1>1, <1>2
  <2>3. QED BY <1>10, <2>1, <2>2
<1>12. QED BY <1>1, <1>2, <1>10, <1>11 DEF stale, limit

(* The oldest backup goes only when it has expired: before, none has, and   *)
(* it is spare only if all the backups are in the first bin, of which it is *)
(* the last to go.                                                         *)
LEMMA OldestIsLast ==
    ASSUME NEW S \in SUBSET Nat, IsFiniteSet(S), NEW t \in Nat, MaxBackups > 1,
           NEW m \in S, \A a \in S : m <= a, ~Expired(m, t)
    PROVE  m \notin StaleBackups(S, t)
<1> DEFINE stale == StaleBackups(S, t)
<1>1. SUFFICES ASSUME m \in stale PROVE FALSE
  OBVIOUS
<1>2. /\ stale \subseteq Gone(S, t) \cup Spare(S, t)
      /\ \A a \in Gone(S, t) \cup Spare(S, t), b \in stale : GoesBefore(a, b, t) => a \in stale
  BY StaleFacts
<1>3. m \in Nat /\ \A a \in S : a \in Nat /\ Effective(m, t) <= Effective(a, t)
  BY EffectiveIsMonotone
<1>4. Cutoff(t) \in Int
  <2>1. EndOfBins \in Nat /\ Interval \in Nat /\ Interval > 0
    BY EndIsNat, RetentionAssumption
  <2>2. (EndOfBins - 1) * Interval \in Int
    BY <2>1
  <2>3. t - (EndOfBins - 1) * Interval \in Int
    BY <2>2
  <2>4. QED BY <2>1, <2>3, Rounded DEF Cutoff, ToNearest
<1>5. \A a \in S : ~Expired(a, t)
  <2>1. \A a \in S : Effective(a, t) \in Nat
    BY <1>3, EffectiveIsLeast
  <2>2. QED BY <1>3, <1>4, <2>1 DEF Expired
<1>6. m \in Spare(S, t)
  BY <1>1, <1>2, <1>5 DEF Gone
<1>7. Bin(m, t) = 0
  <2>1. \A a \in S : ~(a < m)
    BY <1>3
  <2>2. QED BY <1>6, <2>1 DEF Spare
<1>8. \A a \in S : Bin(a, t) = 0
  BY <1>3, <1>7, FirstBin
<1>9. \A a \in S : a \in Spare(S, t)
  BY <1>5, <1>8 DEF Spare
<1>10. \A a \in S : a \in stale
  <2>1. SUFFICES ASSUME NEW a \in S, a # m PROVE a \in stale
    BY <1>1
  <2>2. m < a
    BY <1>3, <2>1
  <2>3. GoesBefore(a, m, t)
    BY <1>5, <2>2 DEF GoesBefore
  <2>4. QED BY <1>1, <1>2, <1>9, <2>3
<1>11. Cardinality(S \ stale) = Cardinality(S) - NumStale(S)
  BY EnoughRemoved
<1>12. S \ stale = {} /\ Cardinality(S \ stale) = 0
  <2>1. S \ stale = {}
    BY <1>10
  <2>2. QED BY <2>1, FS_EmptySet
<1>13. Cardinality(S) # 0
  BY FS_EmptySet
<1>14. QED BY <1>11, <1>12, <1>13, LimitIsNat, RetentionAssumption

LEMMA GreatestIsIn ==
    ASSUME NEW S \in SUBSET Nat, IsFiniteSet(S), S # {}
    PROVE  Max(S) \in S /\ \A b \in S : b <= Max(S)
<1> DEFINE n == Cardinality(S)
<1>1. n \in Nat /\ n # 0
  BY FS_CardinalityType, FS_EmptySet
<1>2. PICK x \in S : Rank(S, x) = n - 1
  <2>1. n - 1 \in 0 .. n - 1
    BY <1>1
  <2>2. QED BY <2>1, EveryRank
<1>3. ASSUME NEW b \in S PROVE x >= b
  <2>1. x < b => Rank(S, x) < Rank(S, b)
    BY RankGrows
  <2>2. Rank(S, b) \in 0 .. n - 1
    BY RankGrows
  <2>3. x \in Nat /\ b \in Nat
    OBVIOUS
  <2> HIDE DEF n
  <2>4. QED BY <1>1, <1>2, <2>1, <2>2, <2>3
<1>4. Max(S) \in S /\ \A b \in S : Max(S) >= b
  BY <1>3 DEF Max
<1>5. Max(S) \in Nat /\ \A b \in S : b \in Nat
  BY <1>4
<1>6. QED BY <1>4, <1>5

-----------------------------------------------------------------------------
(* Types. *)

LEMMA NoAttempts == 0 \in 0 .. MaxRetries - 1
BY BackupsAssumption

LEMMA TypeInit == Init => TypeOK
<1> SUFFICES ASSUME Init PROVE TypeOK
  OBVIOUS
<1>1. now \in Times /\ checked \in Times /\ disk \subseteq Times /\ listed \subseteq Times
  BY BackupsAssumption DEF Init, Times
<1>2. attempts \in 0 .. MaxRetries - 1
  BY NoAttempts DEF Init
<1>3. QED BY <1>1, <1>2 DEF Init, TypeOK, Busy

LEMMA ServerKeepsTypes == TypeOK /\ ServerSteps => TypeOK'
<1> SUFFICES ASSUME TypeOK, ServerSteps PROVE TypeOK'
  OBVIOUS
<1> USE DEF TypeOK, Busy
<1>1. CASE Play
  BY <1>1, BackupsAssumption DEF Play, checkVars, Times
<1>2. CASE Operate
  BY <1>2 DEF Operate, checkVars
<1>3. CASE ServerStarts
  BY <1>3 DEF ServerStarts
<1>4. CASE ServerStops
  BY <1>4, NoAttempts DEF ServerStops, Forget, serverVars
<1>5. ASSUME NEW t \in RolledBack, Rollback(t) PROVE TypeOK'
  BY <1>5, BackupsAssumption DEF Rollback, Times
<1>6. QED BY <1>1, <1>2, <1>3, <1>4, <1>5 DEF ServerSteps

LEMMA EndKeepsTypes ==
    ASSUME TypeOK, EndBackup
    PROVE  /\ disk' \subseteq Times /\ phase' = "sleeping" /\ listed' \subseteq Times
           /\ attempts' = 0 /\ prev' = FALSE
BY DEF TypeOK, EndBackup, Prune, Forget

LEMMA ManagerKeepsTypes == TypeOK /\ ManagerSteps => TypeOK'
<1> SUFFICES ASSUME TypeOK, ManagerSteps PROVE TypeOK'
  OBVIOUS
<1>1. CASE SkipBackup
  BY <1>1 DEF SkipBackup, Check, Prune, serverVars, TypeOK
<1>2. CASE BeginBackup
  BY <1>2 DEF BeginBackup, Check, serverVars, TypeOK, Busy
<1>3. CASE SaveOff
  BY <1>3 DEF SaveOff, TypeOK, Busy
<1>4. CASE SaveAll
  BY <1>4 DEF SaveAll, serverVars, checkVars, TypeOK, Busy
<1>5. CASE Archived
  BY <1>5 DEF Archived, serverVars, checkVars, TypeOK, Busy
<1>6. CASE NotArchived
  BY <1>6 DEF NotArchived, serverVars, checkVars, TypeOK, Busy
<1>7. CASE Disturbed
  BY <1>7, BackupsAssumption DEF Disturbed, serverVars, TypeOK
<1>8. CASE Report
  <2>1. CASE prev
    BY <1>8, <2>1 DEF Report, serverVars, TypeOK, Busy
  <2>2. CASE ~prev
    BY NoAttempts, <1>8, <2>2, EndKeepsTypes DEF Report, serverVars, TypeOK
  <2>3. QED BY <2>1, <2>2
<1>9. CASE SaveOn
  BY NoAttempts, <1>9, EndKeepsTypes DEF SaveOn, TypeOK
<1>10. CASE Abort
  BY NoAttempts, <1>10, EndKeepsTypes DEF Abort, TypeOK
<1>11. QED BY <1>1, <1>2, <1>3, <1>4, <1>5, <1>6, <1>7, <1>8, <1>9, <1>10 DEF ManagerSteps

(* Every reachable state is well typed: no play time out of range is ever   *)
(* listed or kept, and no more than max_retries archives are tried.        *)
THEOREM TypeCorrect == Spec => []TypeOK
<1>1. TypeOK /\ [Next]_vars => TypeOK'
  <2>1. CASE Next
    BY <2>1, ServerKeepsTypes, ManagerKeepsTypes DEF Next
  <2>2. CASE UNCHANGED vars
    BY <2>2 DEF vars, serverVars, checkVars, TypeOK
  <2>3. QED BY <2>1, <2>2
<1>2. QED BY <1>1, TypeInit, PTL DEF Spec

(* A backup always has a bin (backup_strategies.py 120-122, 127-129).      *)
THEOREM BinsAreInRange == Spec => []BinsInRange
<1>1. TypeOK => BinsInRange
  <2>1. SUFFICES ASSUME TypeOK, NEW t \in {now, checked}, NEW b \in disk
                 PROVE  Age(b, t) >= 1 /\ (~Expired(b, t) => Age(b, t) < EndOfBins)
    BY DEF BinsInRange
  <2>2. b \in Nat /\ t \in Nat
    BY <2>1, BackupsAssumption DEF TypeOK, Times
  <2>3. QED BY <2>2, AgeInRange
<1>2. QED BY <1>1, TypeCorrect, PTL

-----------------------------------------------------------------------------
(* Autosave. *)

(* Between two backups a suspended autosave is the fault of an exception;   *)
(* during one, it is also what save-on is still to be sent for.            *)
SuspensionKnown ==
    autosave = "suspended" =>
        /\ phase \in {"sleeping", "disabling"} => aborted
        /\ phase \in {"saving", "archiving", "reporting"} => prev \/ aborted

LEMMA SuspensionStep == SuspensionKnown /\ Next => SuspensionKnown'
<1> SUFFICES ASSUME SuspensionKnown, Next PROVE SuspensionKnown'
  OBVIOUS
<1> USE DEF SuspensionKnown
<1>1. CASE Play
  BY <1>1 DEF Play, checkVars
<1>2. CASE Operate
  BY <1>2 DEF Operate
<1>3. CASE ServerStarts
  BY <1>3 DEF ServerStarts
<1>4. CASE ServerStops
  BY <1>4 DEF ServerStops
<1>5. ASSUME NEW t \in RolledBack, Rollback(t) PROVE SuspensionKnown'
  BY <1>5 DEF Rollback
<1>6. CASE SkipBackup
  BY <1>6 DEF SkipBackup, Check, serverVars
<1>7. CASE BeginBackup
  BY <1>7 DEF BeginBackup, Check, serverVars
<1>8. CASE SaveOff
  BY <1>8 DEF SaveOff
<1>9. CASE SaveAll \/ Archived \/ NotArchived \/ Disturbed
  BY <1>9 DEF SaveAll, Archived, NotArchived, Disturbed, serverVars, checkVars
<1>10. CASE Report
  BY <1>10 DEF Report, EndBackup, serverVars
<1>11. CASE SaveOn
  BY <1>11 DEF SaveOn
<1>12. CASE Abort
  BY <1>12 DEF Abort, EndBackup
<1>13. QED BY <1>1, <1>2, <1>3, <1>4, <1>5, <1>6, <1>7, <1>8, <1>9, <1>10, <1>11, <1>12
           DEF Next, ServerSteps, ManagerSteps

(* Whatever tar does, a backup that ends without an exception restores      *)
(* autosave (backup_manager.py 106-108, 186-189).                          *)
THEOREM OnlyAbortsSuspend == Spec => []SuspendedByAbort
<1>1. Init => SuspensionKnown
  BY DEF Init, SuspensionKnown
<1>2. SuspensionKnown /\ [Next]_vars => SuspensionKnown'
  <2>1. CASE Next
    BY <2>1, SuspensionStep
  <2>2. CASE UNCHANGED vars
    BY <2>2 DEF vars, serverVars, checkVars, SuspensionKnown
  <2>3. QED BY <2>1, <2>2
<1>3. SuspensionKnown => SuspendedByAbort
  BY DEF SuspensionKnown, SuspendedByAbort
<1>4. QED BY <1>1, <1>2, <1>3, PTL DEF Spec

-----------------------------------------------------------------------------
(* The backups on disk. *)

(* While a backup is being made the directory holds what the check has      *)
(* found, and possibly the new one, which is newer than any of it.          *)
ListedInv ==
    phase \in Busy => listed \subseteq disk /\ disk \subseteq listed \cup {checked} /\ checked \notin listed

LEMMA TimesAreFinite == IsFiniteSet(Times) /\ Times \subseteq Nat
<1>1. 0 \in Int /\ MaxTime \in Int
  BY BackupsAssumption
<1>2. QED BY <1>1, FS_Interval DEF Times

LEMMA SetsAreFinite ==
    ASSUME TypeOK
    PROVE  /\ disk \in SUBSET Nat /\ IsFiniteSet(disk)
           /\ listed \in SUBSET Nat /\ IsFiniteSet(listed)
           /\ now \in Nat /\ checked \in Nat
<1>1. disk \in SUBSET Times /\ listed \in SUBSET Times /\ now \in Times /\ checked \in Times
  BY DEF TypeOK
<1>2. IsFiniteSet(disk) /\ IsFiniteSet(listed)
  BY <1>1, TimesAreFinite, FS_Subset
<1>3. QED BY <1>1, <1>2, TimesAreFinite

(* A backup is made only when the last one is an interval old. *)
LEMMA NeededIsNewer ==
    ASSUME TypeOK, Needed
    PROVE  now \notin disk
<1>1. SUFFICES ASSUME now \in disk PROVE FALSE
  OBVIOUS
<1>2. Max(disk) \in disk /\ now <= Max(disk)
  BY <1>1, SetsAreFinite, GreatestIsIn
<1> DEFINE x == now - Max(disk)
           q == x \div Interval
<1>3. x \in Int /\ x <= 0
  <2>1. Max(disk) \in Nat /\ now \in Nat
    BY <1>2, SetsAreFinite
  <2>2. QED BY <1>2, <2>1
<1>4. q > 0
  BY <1>1 DEF Needed
<1>5. q \in Int /\ q * Interval <= x
  BY <1>3, Rounded
<1> HIDE DEF q, x
<1>6. q * Interval \in Int /\ (q - 1) * Interval \in Int /\ 0 * Interval = 0
      /\ q * Interval = ((q - 1) * Interval) + Interval /\ 1 * Interval = Interval
  BY <1>5, RetentionAssumption
<1>7. q * Interval < 1 * Interval
  BY <1>3, <1>5, <1>6, RetentionAssumption
<1>8. q < 1
  BY <1>5, <1>7, Cancel
<1>9. QED BY <1>4, <1>5, <1>8

(* How a step may change the directory. *)
LEMMA IdleSteps ==
    ASSUME Next, phase \notin Busy
    PROVE  \/ SkipBackup
           \/ BeginBackup
           \/ disk' = disk /\ phase' \notin Busy
<1> USE DEF Busy
<1>1. CASE Play \/ Operate \/ ServerStarts \/ ServerStops
  BY <1>1 DEF Play, Operate, ServerStarts, ServerStops
<1>2. ASSUME NEW t \in RolledBack, Rollback(t) PROVE disk' = disk /\ phase' \notin Busy
  BY <1>2 DEF Rollback
<1>3. CASE SaveOff \/ SaveAll \/ Archived \/ NotArchived \/ Disturbed \/ Report \/ SaveOn \/ Abort
  BY <1>3 DEF SaveOff, SaveAll, Archived, NotArchived, Disturbed, Report, SaveOn, Abort
<1>4. QED BY <1>1, <1>2, <1>3 DEF Next, ServerSteps, ManagerSteps

LEMMA BusySteps ==
    ASSUME Next, phase \in Busy
    PROVE  /\ checked' = checked
           /\ \/ EndBackup
              \/ phase' = "off" /\ disk' = disk
              \/ phase' \in Busy /\ listed' = listed /\ disk' \in {disk, disk \cup {checked}}
<1> USE DEF Busy
<1>1. CASE Play \/ Operate \/ ServerStarts \/ SkipBackup \/ BeginBackup
  BY <1>1 DEF Play, Operate, ServerStarts, SkipBackup, BeginBackup, Check
<1>2. CASE ServerStops
  BY <1>2 DEF ServerStops
<1>3. ASSUME NEW t \in RolledBack, Rollback(t) PROVE FALSE
  BY <1>3 DEF Rollback
<1>4. CASE SaveOff \/ SaveAll \/ Archived \/ NotArchived \/ Disturbed
  BY <1>4 DEF SaveOff, SaveAll, Archived, NotArchived, Disturbed, checkVars
<1>5. CASE Report
  BY <1>5 DEF Report
<1>6. CASE SaveOn \/ Abort
  BY <1>6 DEF SaveOn, Abort
<1>7. QED BY <1>1, <1>2, <1>3, <1>4, <1>5, <1>6 DEF Next, ServerSteps, ManagerSteps

LEMMA ListedStep ==
    ASSUME TypeOK, ListedInv, Next
    PROVE  ListedInv'
<1>1. CASE phase \notin Busy
  <2>1. CASE SkipBackup
    BY <2>1, <1>1 DEF SkipBackup, Check, ListedInv
  <2>2. CASE BeginBackup
    <3>1. listed' = disk /\ disk' = disk /\ checked' = now /\ now \notin disk
      BY <2>2, NeededIsNewer DEF BeginBackup, Check
    <3>2. QED BY <3>1 DEF ListedInv
  <2>3. CASE phase' \notin Busy
    BY <2>3 DEF ListedInv
  <2>4. QED BY <1>1, <2>1, <2>2, <2>3, IdleSteps
<1>2. CASE phase \in Busy
  <2>1. CASE EndBackup \/ phase' = "off"
    BY <2>1 DEF EndBackup, ListedInv, Busy
  <2>2. CASE phase' \in Busy /\ listed' = listed /\ disk' \in {disk, disk \cup {checked}}
    BY <1>2, <2>2, BusySteps DEF ListedInv
  <2>3. QED BY <1>2, <2>1, <2>2, BusySteps
<1>3. QED BY <1>1, <1>2

LEMMA ListedCorrect == Spec => []ListedInv
<1>1. Init => ListedInv
  BY DEF Init, ListedInv, Busy
<1>2. TypeOK /\ ListedInv /\ [Next]_vars => ListedInv'
  <2>1. CASE UNCHANGED vars
    BY <2>1 DEF vars, serverVars, checkVars, ListedInv
  <2>2. QED BY <2>1, ListedStep
<1>3. QED BY <1>1, <1>2, TypeCorrect, PTL DEF Spec

(* What a step removes from the directory: nothing, or the stale ones of a  *)
(* set of backups that is found in it.                                     *)
Removes(S) ==
    /\ S \in SUBSET disk /\ S \in SUBSET Nat /\ IsFiniteSet(S) /\ checked' \in Nat
    /\ disk \subseteq S \cup {checked'} /\ (phase \in Busy => checked' \notin S)
    /\ disk' = disk \ StaleBackups(S, checked')

LEMMA DiskSteps ==
    ASSUME TypeOK, ListedInv, Next
    PROVE  \/ SkipBackup /\ phase \notin Busy /\ Removes(disk)
           \/ phase \in Busy /\ EndBackup /\ Removes(listed)
           \/ /\ disk \subseteq disk'
              /\ ~SkipBackup /\ ~(phase \in Busy /\ phase' = "sleeping")
<1>1. CASE phase \notin Busy
  <2>1. CASE SkipBackup
    <3>1. checked' = now /\ disk' = disk \ StaleBackups(disk, now)
      BY <2>1 DEF SkipBackup, Check, Prune
    <3>2. Removes(disk)
      BY <1>1, <3>1, SetsAreFinite DEF Removes
    <3>3. QED BY <1>1, <2>1, <3>2
  <2>2. CASE ~SkipBackup
    <3>1. BeginBackup => disk' = disk
      BY DEF BeginBackup
    <3>2. QED BY <1>1, <2>2, <3>1, IdleSteps
  <2>3. QED BY <2>1, <2>2
<1>2. CASE phase \in Busy
  <2>1. ~SkipBackup
    BY <1>2 DEF SkipBackup, Check, Busy
  <2>2. CASE EndBackup
    <3>1. disk' = disk \ StaleBackups(listed, checked) /\ checked' = checked
      BY <1>2, <2>2, BusySteps DEF EndBackup, Prune
    <3>2. Removes(listed)
      BY <1>2, <3>1, SetsAreFinite DEF Removes, ListedInv
    <3>3. QED BY <1>2, <2>2, <3>2
  <2>3. CASE phase' = "off" /\ disk' = disk
    BY <2>1, <2>3
  <2>4. CASE phase' \in Busy /\ disk' \in {disk, disk \cup {checked}}
    BY <2>1, <2>4 DEF Busy
  <2>5. QED BY <1>2, <2>2, <2>3, <2>4, BusySteps
<1>3. QED BY <1>1, <1>2

LEMMA RemovesFew ==
    ASSUME NEW S, Removes(S), MaxBackups > 1, disk # {}
    PROVE  disk' # {}
<1>1. /\ S \in SUBSET disk /\ S \in SUBSET Nat /\ IsFiniteSet(S) /\ checked' \in Nat
      /\ disk' = disk \ StaleBackups(S, checked')
  BY DEF Removes
<1>2. Cardinality(S \ StaleBackups(S, checked')) = Cardinality(S) - NumStale(S)
      /\ StaleBackups(S, checked') \subseteq S
  BY <1>1, EnoughRemoved
<1>3. CASE S = {}
  BY <1>1, <1>2, <1>3
<1>4. CASE S # {}
  <2>1. Cardinality(S) # 0
    BY <1>1, <1>4, FS_EmptySet
  <2>2. Cardinality(S) - NumStale(S) # 0
    BY <1>1, <2>1, LimitIsNat, RetentionAssumption
  <2>3. S \ StaleBackups(S, checked') # {}
    BY <1>2, <2>2, FS_EmptySet
  <2>4. QED BY <1>1, <2>3
<1>5. QED BY <1>3, <1>4

LEMMA RemovesEnough ==
    ASSUME NEW S, Removes(S)
    PROVE  Cardinality(disk') <= MaxBackups
<1> DEFINE K == S \ StaleBackups(S, checked')
<1>1. S \in SUBSET Nat /\ IsFiniteSet(S) /\ checked' \in Nat
  BY DEF Removes
<1>2. IsFiniteSet(K) /\ Cardinality(K) = Cardinality(S) - NumStale(S)
  BY <1>1, EnoughRemoved
<1>3. Cardinality(K) <= MaxBackups - 1 /\ Cardinality(K) \in Nat
  <2>1. Cardinality(K) \in Nat
    BY <1>2, FS_CardinalityType
  <2>2. QED BY <1>1, <1>2, <2>1, LimitIsNat, RetentionAssumption
<1>4. disk' \in SUBSET (K \cup {checked'})
  BY DEF Removes
<1> HIDE DEF K
<1>5. IsFiniteSet(K \cup {checked'}) /\ Cardinality(K \cup {checked'}) <= Cardinality(K) + 1
  BY <1>2, <1>3, FS_AddElement
<1>6. Cardinality(disk') <= Cardinality(K \cup {checked'})
  BY <1>4, <1>5, FS_Subset
<1>7. IsFiniteSet(disk')
  BY <1>4, <1>5, FS_Subset
<1>8. Cardinality(disk') \in Nat /\ Cardinality(K \cup {checked'}) \in Nat
  BY <1>5, <1>7, FS_CardinalityType
<1>9. QED BY <1>3, <1>5, <1>6, <1>8, RetentionAssumption

LEMMA RemovesNoOldest ==
    ASSUME TypeOK, NEW S, Removes(S), MaxBackups > 1, disk # {}, ~Expired(Min(disk), checked')
    PROVE  Min(disk) \in disk'
<1>1. /\ S \in SUBSET disk /\ S \in SUBSET Nat /\ IsFiniteSet(S) /\ checked' \in Nat
      /\ disk' = disk \ StaleBackups(S, checked')
  BY DEF Removes
<1>2. Min(disk) \in disk /\ \A a \in disk : Min(disk) <= a
  BY SetsAreFinite, LeastIsIn
<1>3. StaleBackups(S, checked') \subseteq S
  BY <1>1, EnoughRemoved
<1>4. CASE Min(disk) \notin S
  BY <1>1, <1>2, <1>3, <1>4
<1>5. CASE Min(disk) \in S
  <2>1. \A a \in S : Min(disk) <= a
    BY <1>1, <1>2
  <2>2. Min(disk) \notin StaleBackups(S, checked')
    BY <1>1, <1>5, <2>1, OldestIsLast
  <2>3. QED BY <1>1, <1>2, <2>2
<1>6. QED BY <1>4, <1>5

(* get_stale_backups removes what is meant, whatever is in the directory:   *)
(* no order of its loops matters but the one that is meant (104-133).      *)
THEOREM StaleIsMeant == Spec => []StaleAsMeant
<1>1. TypeOK => StaleAsMeant
  BY SetsAreFinite, PassesAsMeant DEF StaleAsMeant
<1>2. QED BY <1>1, TypeCorrect, PTL

(* A check leaves at most max_backups backups, whatever has failed, for any *)
(* limit and interval (backup_manager.py 207-217, 239-250).                *)
THEOREM AtMostMaxLeft == Spec => AtMostMax
<1>1. TypeOK /\ ListedInv /\ [Next]_vars =>
        [phase' = "sleeping" /\ (SkipBackup \/ phase \in Busy) => Cardinality(disk') <= MaxBackups]_vars
  BY DiskSteps, RemovesEnough
<1>2. QED BY <1>1, TypeCorrect, ListedCorrect, PTL DEF Spec, AtMostMax

(* With room for two the directory never becomes empty. *)
THEOREM NeverEmpty == Spec => NeverEmptied
<1>1. TypeOK /\ ListedInv /\ [Next]_vars => [MaxBackups > 1 /\ disk # {} => disk' # {}]_vars
  BY DiskSteps, RemovesFew
<1>2. QED BY <1>1, TypeCorrect, ListedCorrect, PTL DEF Spec, NeverEmptied

(* The oldest backup stays until it has expired. *)
THEOREM OldestStays == Spec => OldestKept
<1>1. TypeOK /\ ListedInv /\ [Next]_vars =>
        [MaxBackups > 1 /\ disk # {} /\ ~Expired(Min(disk), checked') => Min(disk) \in disk']_vars
  <2>1. ASSUME TypeOK, disk # {}, disk \subseteq disk' PROVE Min(disk) \in disk'
    BY <2>1, SetsAreFinite, LeastIsIn
  <2>2. QED BY <2>1, DiskSteps, RemovesNoOldest
<1>2. QED BY <1>1, TypeCorrect, ListedCorrect, PTL DEF Spec, OldestKept

(* What a check removes it has listed before it made its backup, which is   *)
(* therefore kept.                                                         *)
THEOREM NewBackupStays == Spec => NewBackupKept
<1>1. TypeOK /\ ListedInv /\ [Next]_vars =>
        [(phase \in Busy /\ checked \in disk) => checked \in disk']_vars
  <2>1. ASSUME TypeOK, ListedInv, phase \in Busy, checked \in disk, EndBackup, Removes(listed),
               checked' = checked
        PROVE  checked \in disk'
    <3>1. StaleBackups(listed, checked) \subseteq listed
      BY <2>1, SetsAreFinite, EnoughRemoved
    <3>2. QED BY <2>1, <3>1 DEF Removes
  <2>2. QED BY <2>1, DiskSteps, BusySteps
<1>2. QED BY <1>1, TypeCorrect, ListedCorrect, PTL DEF Spec, NewBackupKept
=============================================================================
