------------------------- MODULE PacketReaderProofs -------------------------
(***************************************************************************)
(* That PacketReader returns what was sent and loses no byte, for any      *)
(* buffer sizes, widths of a byte and of an integer, streams of messages,  *)
(* divisions of them into reads and timeouts.                              *)
(*                                                                         *)
(* In five parts: the powers of two and division, what a variable-length   *)
(* integer decodes to, what a frame does, the place of a frame in the      *)
(* stream, and the reader. What is defined by recursion is reasoned about  *)
(* by its least counterexample.                                            *)
(***************************************************************************)
EXTENDS PacketReader, FiniteSetTheorems, WellFoundedInduction, TLAPS

-----------------------------------------------------------------------------
(* Powers of two and division. *)

(* A nonempty set of naturals has a least element. *)
LEMMA LeastIsIn ==
    ASSUME NEW S, S \subseteq Nat, S # {}
    PROVE  Min(S) \in S /\ \A y \in S : Min(S) <= y
  <1> DEFINE Less == {p \in Nat \X Nat : p[1] < p[2]}
  <1>1. IsWellFoundedOn(Less, Nat)
    BY NatLessThanWellFounded, Zenon DEF OpToRel
  <1>2. \A x \in Nat, y \in Nat : <<y, x>> \in Less <=> y < x
    OBVIOUS
  <1> HIDE DEF Less
  <1>3. PICK x \in S : \A y \in S : ~(<<y, x>> \in Less)
    BY <1>1, WFMin
  <1>4. ASSUME NEW y \in S
        PROVE  x <= y
    <2>1. x \in Nat /\ y \in Nat
      OBVIOUS
    <2>2. ~(y < x)
      BY <1>2, <1>3, <2>1, Zenon
    <2> QED BY <2>1, <2>2
  <1> QED BY <1>4 DEF Min

(* The powers of two count the subsets. *)
Power(k) == 2 ^ k

LEMMA PowerCounts ==
    ASSUME NEW k \in Nat
    PROVE  IsFiniteSet(SUBSET (1 .. k)) /\ Cardinality(SUBSET (1 .. k)) = Power(k)
  <1>1. IsFiniteSet(1 .. k) /\ Cardinality(1 .. k) = k
    <2>1. IsFiniteSet(1 .. k) /\ Cardinality(1 .. k) = IF 1 > k THEN 0 ELSE k - 1 + 1
      BY FS_Interval
    <2> QED BY <2>1
  <1>2. IsFiniteSet(SUBSET (1 .. k)) /\ Cardinality(SUBSET (1 .. k)) = 2 ^ Cardinality(1 .. k)
    BY <1>1, FS_SUBSET, Zenon
  <1> QED BY <1>1, <1>2, Zenon DEF Power

LEMMA PowerOfZero == Power(0) = 1
  <1>1. SUBSET (1 .. 0) = {{}}
    OBVIOUS
  <1>2. Cardinality({{}}) = 1
    BY FS_Singleton
  <1> QED BY <1>1, <1>2, PowerCounts

(* Half of the subsets have a given new element. *)
LEMMA SubsetsDouble ==
    ASSUME NEW I, NEW x, x \notin I, IsFiniteSet(SUBSET I)
    PROVE  Cardinality(SUBSET (I \cup {x})) = Cardinality(SUBSET I) + Cardinality(SUBSET I)
  <1> DEFINE A == SUBSET I
             B == {T \cup {x} : T \in A}
             f == [T \in A |-> T \cup {x}]
  <1>1. SUBSET (I \cup {x}) = A \cup B
    <2>1. ASSUME NEW T \in SUBSET (I \cup {x}) PROVE T \in A \cup B
      <3>1. CASE x \in T
        <4>1. T \ {x} \in A /\ T = (T \ {x}) \cup {x}
          BY <3>1
        <4> QED BY <4>1
      <3>2. CASE x \notin T
        BY <3>2
      <3> QED BY <3>1, <3>2
    <2>2. ASSUME NEW T \in A \cup B PROVE T \in SUBSET (I \cup {x})
      OBVIOUS
    <2> QED BY <2>1, <2>2
  <1>2. A \cap B = {}
    OBVIOUS
  <1>3. f \in Bijection(A, B)
    <2>1. ASSUME NEW S \in A, NEW T \in A, S \cup {x} = T \cup {x} PROVE S = T
      <3>1. x \notin S /\ x \notin T
        OBVIOUS
      <3>2. \A y : y \in S <=> y \in T
        BY <2>1, <3>1
      <3> QED BY <3>2
    <2> HIDE DEF A
    <2>2. f \in [A -> B] /\ \A T \in B : \E S \in A : f[S] = T
      OBVIOUS
    <2>3. IsInjective(f)
      BY <2>1 DEF IsInjective
    <2> QED BY <2>2, <2>3 DEF Bijection, Injection, Surjection
  <1>4. ExistsBijection(A, B)
    BY <1>3, Zenon DEF ExistsBijection
  <1> HIDE DEF A, B
  <1>5. IsFiniteSet(A)
    BY DEF A
  <1>6. IsFiniteSet(B) /\ Cardinality(B) = Cardinality(A)
    BY <1>4, <1>5, FS_Bijection
  <1>7. Cardinality(A \cup B) = Cardinality(A) + Cardinality(B) - Cardinality(A \cap B)
    BY <1>5, <1>6, FS_Union
  <1>8. Cardinality(A) \in Nat /\ Cardinality(A \cap B) = 0
    BY <1>2, <1>5, FS_CardinalityType, FS_EmptySet
  <1>9. Cardinality(A \cup B) = Cardinality(A) + Cardinality(A)
    BY <1>6, <1>7, <1>8
  <1> QED BY <1>1, <1>9 DEF A

LEMMA PowerDoubles ==
    ASSUME NEW k \in Nat
    PROVE  Power(k) \in Nat /\ Power(k + 1) = Power(k) + Power(k)
  <1> DEFINE I == 1 .. k
             J == 1 .. k + 1
  <1>1. J = I \cup {k + 1} /\ k + 1 \notin I /\ k + 1 \in Nat
    OBVIOUS
  <1>2. /\ IsFiniteSet(SUBSET I) /\ Cardinality(SUBSET I) = Power(k)
        /\ Cardinality(SUBSET J) = Power(k + 1)
    BY <1>1, PowerCounts
  <1> HIDE DEF I, J
  <1>3. Cardinality(SUBSET (I \cup {k + 1})) = Cardinality(SUBSET I) + Cardinality(SUBSET I)
    BY <1>1, <1>2, SubsetsDouble
  <1> QED BY <1>1, <1>2, <1>3, FS_CardinalityType

LEMMA PowerAdds ==
    ASSUME NEW a \in Nat, NEW b \in Nat
    PROVE  Power(a + b) = Power(a) * Power(b)
  <1> DEFINE T == {k \in Nat : Power(a + k) # Power(a) * Power(k)}
  <1>1. SUFFICES ASSUME T # {} PROVE FALSE
    OBVIOUS
  <1>2. PICK x \in T : \A y \in T : x <= y
    BY <1>1, LeastIsIn
  <1>3. x # 0
    <2>1. Power(a) \in Nat /\ a + 0 = a
      BY PowerDoubles
    <2>2. Power(a) * 1 = Power(a)
      BY <2>1
    <2>3. 0 \notin T
      BY <2>1, <2>2, PowerOfZero
    <2> QED BY <1>2, <2>3
  <1> DEFINE k == x - 1
  <1>4. k \in Nat /\ k \notin T /\ k + 1 = x /\ a + k \in Nat /\ a + k + 1 = a + x
    BY <1>2, <1>3
  <1>5. Power(a + k) = Power(a) * Power(k)
    BY <1>4
  <1> HIDE DEF k
  <1>6. Power(x) = Power(k) + Power(k) /\ Power(k) \in Nat
    BY <1>4, PowerDoubles
  <1>7. Power(a + x) = Power(a + k) + Power(a + k)
    BY <1>4, PowerDoubles
  <1>8. Power(a) \in Nat
    BY PowerDoubles
  <1>9. Power(a) * (Power(k) + Power(k)) = (Power(a) * Power(k)) + (Power(a) * Power(k))
    BY <1>6, <1>8
  <1> QED BY <1>2, <1>5, <1>6, <1>7, <1>9

LEMMA PowerGrows ==
    ASSUME NEW a \in Nat, NEW b \in Nat, a <= b
    PROVE  Power(a) <= Power(b) /\ Power(a) >= 1
  <1>1. \A k \in Nat : Power(k) >= 1
    <2> DEFINE T == {k \in Nat : ~(Power(k) >= 1)}
    <2>1. SUFFICES ASSUME T # {} PROVE FALSE
      OBVIOUS
    <2>2. PICK x \in T : \A y \in T : x <= y
      BY <2>1, LeastIsIn
    <2>3. x # 0
      BY <2>2, PowerOfZero
    <2>4. x - 1 \in Nat /\ x - 1 \notin T /\ (x - 1) + 1 = x
      BY <2>2, <2>3
    <2>5. Power(x) = Power(x - 1) + Power(x - 1) /\ Power(x - 1) \in Nat
      <3>1. Power((x - 1) + 1) = Power(x - 1) + Power(x - 1) /\ Power(x - 1) \in Nat
        BY <2>4, PowerDoubles
      <3> QED BY <2>4, <3>1
    <2> QED BY <2>2, <2>4, <2>5
  <1>2. b - a \in Nat /\ a + (b - a) = b
    OBVIOUS
  <1> DEFINE c == b - a
  <1> HIDE DEF c
  <1>3. c \in Nat /\ a + c = b
    BY <1>2 DEF c
  <1>4. Power(b) = Power(a) * Power(c) /\ Power(c) >= 1 /\ Power(c) \in Nat /\ Power(a) \in Nat
    BY <1>1, <1>3, PowerAdds, PowerDoubles
  <1>5. Power(a) * Power(c) = Power(a) + Power(a) * (Power(c) - 1)
    BY <1>4
  <1>6. Power(a) * (Power(c) - 1) \in Nat
    BY <1>4
  <1> QED BY <1>1, <1>4, <1>5, <1>6

-----------------------------------------------------------------------------
(* Shifting by groups of bits, and what division by it leaves. *)

LEMMA ContIsNat == Cont \in Nat /\ Cont >= 2 /\ Cont = Power(GroupBits)
  <1>1. Cont = Power(GroupBits)
    BY Zenon DEF Cont, Power
  <1>2. 1 \in Nat /\ 0 + 1 = 1 /\ GroupBits \in Nat /\ 1 <= GroupBits
    BY ReaderAssumption
  <1>3. Power(1) = 2
    <2>1. Power(0 + 1) = Power(0) + Power(0)
      BY PowerDoubles
    <2> QED BY <1>2, <2>1, PowerOfZero
  <1> QED BY <1>1, <1>2, <1>3, PowerGrows, PowerDoubles

LEMMA ShiftIs ==
    ASSUME NEW k \in Nat
    PROVE  Shift(k) = Power(GroupBits * k) /\ GroupBits * k \in Nat
  <1>1. Shift(k) = Power(GroupBits * k)
    BY Zenon DEF Shift, Power
  <1> QED BY <1>1, ReaderAssumption

LEMMA ShiftGrows ==
    ASSUME NEW k \in Nat
    PROVE  /\ Shift(k) \in Nat /\ Shift(k) >= 1
           /\ Shift(k + 1) = Shift(k) * Cont
           /\ Shift(0) = 1
  <1> DEFINE g == GroupBits * k
  <1>1. g \in Nat /\ GroupBits * (k + 1) = g + GroupBits /\ GroupBits \in Nat
    BY ShiftIs, ReaderAssumption
  <1>2. Shift(k) = Power(g) /\ Shift(k + 1) = Power(g + GroupBits)
    <2>1. k + 1 \in Nat
      OBVIOUS
    <2> QED BY <1>1, <2>1, ShiftIs
  <1> HIDE DEF g
  <1>3. Shift(k + 1) = Shift(k) * Cont
    BY <1>1, <1>2, PowerAdds, ContIsNat
  <1>4. Shift(k) \in Nat /\ Shift(k) >= 1
    BY <1>1, <1>2, PowerDoubles, PowerGrows
  <1>5. Shift(0) = 1
    <2>1. GroupBits * 0 = 0
      BY ReaderAssumption
    <2> QED BY <2>1, ShiftIs, PowerOfZero
  <1> QED BY <1>3, <1>4, <1>5

LEMMA Division ==
    ASSUME NEW a \in Nat, NEW b \in Nat, b >= 1
    PROVE  /\ a \div b \in Nat /\ a % b \in Nat /\ a % b < b
           /\ a = (a \div b) * b + (a % b)
  <1>1. /\ a \div b \in Int /\ a % b \in 0 .. b - 1
        /\ a = (a \div b) * b + (a % b)
    BY SMT
  <1>2. a \div b \in Nat
    <2>1. ASSUME a \div b <= -1 PROVE FALSE
      <3> DEFINE q == a \div b
      <3> HIDE DEF q
      <3>1. q \in Int /\ q <= -1 /\ a = q * b + (a % b)
        BY <1>1, <2>1 DEF q
      <3>2. q * b <= (-1) * b
        <4>1. (-1 - q) \in Nat /\ (-1 - q) * b \in Nat
          BY <3>1
        <4>2. (-1 - q) * b = (-1) * b - q * b
          BY <3>1
        <4> QED BY <3>1, <4>1, <4>2
      <3> QED BY <1>1, <3>1, <3>2
    <2> QED BY <1>1, <2>1
  <1> QED BY <1>1, <1>2

LEMMA Multiples ==
    ASSUME NEW p \in Nat, NEW q \in Nat, NEW b \in Nat, p < q
    PROVE  p * b + b <= q * b
  <1>1. q - p - 1 \in Nat /\ (q - p - 1) * b \in Nat
    OBVIOUS
  <1>2. (q - p - 1) * b = q * b - p * b - b
    OBVIOUS
  <1> QED BY <1>1, <1>2

LEMMA DivisionIsUnique ==
    ASSUME NEW a \in Nat, NEW b \in Nat, b >= 1, NEW q \in Nat, NEW r \in Nat,
           a = q * b + r, r < b
    PROVE  a \div b = q /\ a % b = r
  <1> DEFINE p == a \div b
             s == a % b
  <1>1. p \in Nat /\ s \in Nat /\ s < b /\ a = p * b + s
    BY Division
  <1> HIDE DEF p, s
  <1>2. ~(p < q)
    <2>1. p < q => p * b + b <= q * b
      BY <1>1, Multiples
    <2>2. p * b \in Nat /\ q * b \in Nat
      BY <1>1
    <2> QED BY <1>1, <2>1, <2>2
  <1>3. ~(q < p)
    <2>1. q < p => q * b + b <= p * b
      BY <1>1, Multiples
    <2>2. p * b \in Nat /\ q * b \in Nat
      BY <1>1
    <2> QED BY <1>1, <2>1, <2>2
  <1>4. p = q
    BY <1>1, <1>2, <1>3
  <1>5. s = r
    <2>1. q * b \in Nat
      OBVIOUS
    <2> QED BY <1>1, <1>4, <2>1
  <1> QED BY <1>4, <1>5 DEF p, s

(* What is left by a product is left by its factors in turn. *)
LEMMA DividedTwice ==
    ASSUME NEW a \in Nat, NEW b \in Nat, NEW c \in Nat, b >= 1, c >= 1
    PROVE  a % (b * c) = ((a \div b) % c) * b + (a % b)
  <1> DEFINE q == a \div b
             r == a % b
             p == q \div c
             s == q % c
  <1>1. q \in Nat /\ r \in Nat /\ r < b /\ a = q * b + r
    BY Division
  <1> HIDE DEF q, r
  <1>2. p \in Nat /\ s \in Nat /\ s < c /\ q = p * c + s
    BY <1>1, Division
  <1> HIDE DEF p, s
  <1>3. a = p * (b * c) + (s * b + r)
    <2>1. (p * c + s) * b = p * (b * c) + s * b
      BY <1>2
    <2> QED BY <1>1, <1>2, <2>1
  <1>4. s * b + r < b * c /\ s * b + r \in Nat
    <2>1. s * b + b <= c * b
      BY <1>2, Multiples
    <2>2. s * b \in Nat /\ c * b = b * c
      BY <1>2
    <2> QED BY <1>1, <2>1, <2>2
  <1>5. b * c \in Nat /\ b * c >= 1
    <2>1. b * c \in Nat
      OBVIOUS
    <2> QED BY <1>1, <1>4, <2>1
  <1> DEFINE d == b * c
             t == s * b + r
  <1> HIDE DEF d, t
  <1>6. d \in Nat /\ d >= 1 /\ t \in Nat /\ t < d /\ a = p * d + t
    BY <1>3, <1>4, <1>5 DEF d, t
  <1>7. a % d = t
    BY <1>2, <1>6, DivisionIsUnique
  <1> QED BY <1>7 DEF d, t, s, r, q

-----------------------------------------------------------------------------
(* A variable-length integer is read as it was written. *)

(* The numbers that PacketWriter is given: IDs and lengths. *)
Fits(v) == v \in Nat /\ v < Power(Width - 1)

Digit(v, x) == (v \div Shift(x - 1)) % Cont

LEMMA DigitIs ==
    ASSUME NEW v \in Nat, NEW x \in Nat, x >= 1
    PROVE  /\ Digit(v, x) \in Nat /\ Digit(v, x) < Cont
           /\ v % Shift(x) = (v % Shift(x - 1)) + Digit(v, x) * Shift(x - 1)
           /\ v % Shift(x) \in Nat
  <1> DEFINE s == Shift(x - 1)
  <1>1. /\ x - 1 \in Nat /\ (x - 1) + 1 = x
    OBVIOUS
  <1>2. s \in Nat /\ s >= 1 /\ Shift(x) = s * Cont
    <2>1. /\ Shift(x - 1) \in Nat /\ Shift(x - 1) >= 1
          /\ Shift((x - 1) + 1) = Shift(x - 1) * Cont
      BY <1>1, ShiftGrows
    <2> QED BY <1>1, <2>1
  <1>3. Digit(v, x) = (v \div s) % Cont
    BY DEF Digit
  <1> HIDE DEF s
  <1>4. v \div s \in Nat /\ v % s \in Nat
    BY <1>2, Division
  <1>5. Digit(v, x) \in Nat /\ Digit(v, x) < Cont
    BY <1>3, <1>4, ContIsNat, Division
  <1>6. v % (s * Cont) = ((v \div s) % Cont) * s + (v % s)
    <2> DEFINE c == Cont
    <2>1. c \in Nat /\ c >= 1
      BY ContIsNat
    <2> HIDE DEF c
    <2>2. v % (s * c) = ((v \div s) % c) * s + (v % s)
      BY <1>2, <2>1, DividedTwice
    <2> QED BY <2>2 DEF c
  <1>7. v % Shift(x) = Digit(v, x) * s + (v % s)
    BY <1>2, <1>3, <1>6
  <1>8. Digit(v, x) * s \in Nat
    BY <1>2, <1>5
  <1>9. v % Shift(x) = (v % s) + Digit(v, x) * s /\ v % Shift(x) \in Nat
    BY <1>4, <1>7, <1>8
  <1> QED BY <1>5, <1>9 DEF s

(* The loop gathers a number from the groups of its bits. *)
LEMMA GatheredIs ==
    ASSUME NEW v \in Nat, NEW l \in Nat, NEW d,
           \A x \in 1 .. l : d[x] % Cont = Digit(v, x)
    PROVE  Gathered(d, l) = v % Shift(l)
  <1> DEFINE Eq(f) == f = [x \in 0 .. l |->
                 IF x = 0 THEN 0 ELSE f[x - 1] + (d[x] % Cont) * Shift(x - 1)]
             g == CHOOSE f : Eq(f)
             h == [x \in 0 .. l |-> v % Shift(x)]
  <1>1. Gathered(d, l) = g[l]
    BY DEF Gathered
  <1>2. v % Shift(0) = 0
    <2>1. Shift(0) = 1
      BY ShiftGrows
    <2>2. v = v * 1 + 0 /\ 0 < 1 /\ 1 \in Nat /\ 1 >= 1 /\ 0 \in Nat
      OBVIOUS
    <2> QED BY <2>1, <2>2, DivisionIsUnique
  <1>3. \A x \in 1 .. l : v % Shift(x) = (v % Shift(x - 1)) + (d[x] % Cont) * Shift(x - 1)
    BY DigitIs
  <1>4. Eq(h)
    <2>1. ASSUME NEW x \in 0 .. l
          PROVE  h[x] = IF x = 0 THEN 0 ELSE h[x - 1] + (d[x] % Cont) * Shift(x - 1)
      <3>1. CASE x = 0
        BY <1>2, <3>1
      <3>2. CASE x # 0
        <4>1. x \in 1 .. l /\ x - 1 \in 0 .. l
          BY <3>2
        <4>2. h[x] = v % Shift(x) /\ h[x - 1] = v % Shift(x - 1)
          BY <4>1
        <4> QED BY <1>3, <3>2, <4>1, <4>2, Zenon
      <3> QED BY <3>1, <3>2
    <2> QED BY <2>1, Zenon
  <1> HIDE DEF h
  <1>5. Eq(g)
    BY <1>4, Zenon
  <1> HIDE DEF g
  <1>6. /\ g[0] = 0
        /\ \A x \in 1 .. l : g[x] = g[x - 1] + (d[x] % Cont) * Shift(x - 1)
    <2>1. 0 \in 0 .. l /\ \A x \in 1 .. l : x \in 0 .. l /\ x # 0
      OBVIOUS
    <2> QED BY <1>5, <2>1, Zenon
  <1> DEFINE T == {x \in 0 .. l : g[x] # v % Shift(x)}
  <1>7. T = {}
    <2>1. SUFFICES ASSUME T # {} PROVE FALSE
      OBVIOUS
    <2>2. PICK x \in T : \A y \in T : x <= y
      <3>1. T \subseteq Nat
        OBVIOUS
      <3> QED BY <2>1, <3>1, LeastIsIn
    <2>3. x # 0
      BY <1>2, <1>6, <2>2
    <2>4. x \in 1 .. l /\ x - 1 \in 0 .. l /\ x - 1 \notin T
      BY <2>2, <2>3
    <2>5. g[x - 1] = v % Shift(x - 1)
      BY <2>4
    <2>6. g[x] = v % Shift(x)
      BY <1>3, <1>6, <2>4, <2>5, Zenon
    <2> QED BY <2>2, <2>6
  <1>8. g[l] = v % Shift(l)
    <2>1. l \in 0 .. l
      OBVIOUS
    <2> QED BY <1>7, <2>1
  <1> QED BY <1>1, <1>8

-----------------------------------------------------------------------------
VarintLength(v) ==
    CHOOSE l \in 1 .. MaxVarint : v < Shift(l) /\ \A m \in 1 .. l - 1 : v >= Shift(m)

LEMMA VarintLengthIs ==
    ASSUME NEW v, Fits(v)
    PROVE  /\ VarintLength(v) \in 1 .. MaxVarint
           /\ v < Shift(VarintLength(v))
           /\ \A m \in 1 .. VarintLength(v) - 1 : v >= Shift(m)
  <1> DEFINE T == {l \in 1 .. MaxVarint : v < Shift(l)}
  <1>1. MaxVarint \in T
    <2>1. MaxVarint \in Nat /\ MaxVarint >= 1 /\ GroupBits * MaxVarint \in Nat
          /\ Width - 1 \in Nat /\ Width - 1 <= GroupBits * MaxVarint
      BY ReaderAssumption
    <2>2. Power(Width - 1) <= Shift(MaxVarint)
      BY <2>1, ShiftIs, PowerGrows
    <2>3. Power(Width - 1) \in Nat /\ Shift(MaxVarint) \in Nat /\ v \in Nat
      BY <2>1, PowerDoubles, ShiftGrows DEF Fits
    <2> QED BY <2>1, <2>2, <2>3 DEF Fits
  <1>2. PICK l \in T : \A y \in T : l <= y
    <2>1. T \subseteq Nat
      BY ReaderAssumption
    <2> QED BY <1>1, <2>1, LeastIsIn
  <1>3. \A m \in 1 .. l - 1 : v >= Shift(m)
    <2> SUFFICES ASSUME NEW m \in 1 .. l - 1 PROVE v >= Shift(m)
      OBVIOUS
    <2>1. m \in 1 .. MaxVarint /\ ~(l <= m) /\ m \in Nat
      BY <1>2, ReaderAssumption
    <2>2. ~(v < Shift(m))
      BY <1>2, <2>1
    <2> QED BY <2>1, <2>2, ShiftGrows DEF Fits
  <1>4. \E k \in 1 .. MaxVarint : v < Shift(k) /\ \A m \in 1 .. k - 1 : v >= Shift(m)
    BY <1>2, <1>3
  <1> QED BY <1>4, Zenon DEF VarintLength

LEMMA EncodeIs ==
    ASSUME NEW v, Fits(v)
    PROVE  EncodeVarint(v) = [x \in 1 .. VarintLength(v) |->
                Digit(v, x) + (IF x < VarintLength(v) THEN Cont ELSE 0)]
  <1>1. ~(v < 0)
    BY DEF Fits
  <1>2. Unsigned(v) = v
    BY <1>1, Zenon DEF Unsigned
  <1> QED BY <1>2, Zenon DEF EncodeVarint, Digit, VarintLength

(* Every byte but the last has its highest bit set. *)
LEMMA EncodeFacts ==
    ASSUME NEW v, Fits(v)
    PROVE  LET b == EncodeVarint(v)
               l == Len(b)
           IN /\ b \in Seq(Bytes) /\ l = VarintLength(v) /\ l \in Nat /\ l >= 1 /\ l <= MaxVarint
              /\ \A x \in 1 .. l : b[x] % Cont = Digit(v, x)
              /\ \A x \in 1 .. l : x < l => b[x] >= Cont
              /\ b[l] < Cont
              /\ l >= 2 => v >= Cont
  <1> DEFINE l == VarintLength(v)
             b == EncodeVarint(v)
  <1>1. v \in Nat
    BY DEF Fits
  <1>2. /\ l \in Nat /\ l >= 1 /\ l <= MaxVarint
        /\ \A m \in 1 .. l - 1 : v >= Shift(m)
    BY VarintLengthIs, ReaderAssumption
  <1>3. b = [x \in 1 .. l |-> Digit(v, x) + (IF x < l THEN Cont ELSE 0)]
    BY EncodeIs
  <1> HIDE DEF l, b
  <1>4. ASSUME NEW x \in 1 .. l
        PROVE  /\ b[x] \in Bytes /\ b[x] % Cont = Digit(v, x)
               /\ IF x < l THEN b[x] >= Cont ELSE b[x] < Cont
    <2> DEFINE g == Digit(v, x)
               c == Cont
    <2>1. g \in Nat /\ g < c /\ c \in Nat /\ c >= 1
      <3>1. x \in Nat /\ x >= 1
        BY <1>2
      <3>2. Digit(v, x) \in Nat /\ Digit(v, x) < Cont
        BY <1>1, <3>1, DigitIs
      <3>3. Cont \in Nat /\ Cont >= 1
        BY ContIsNat
      <3> QED BY <3>2, <3>3
    <2>2. b[x] = IF x < l THEN g + c ELSE g
      <3>1. g + 0 = g
        BY <2>1
      <3> QED BY <1>3, <3>1
    <2>3. Bytes = 0 .. 2 * c - 1
      BY Zenon DEF Bytes
    <2> HIDE DEF g, c
    <2>4. CASE x < l
      <3>1. g + c = 1 * c + g /\ 1 \in Nat /\ g + c \in Nat
        BY <2>1
      <3>2. (g + c) % c = g
        BY <2>1, <3>1, DivisionIsUnique
      <3>3. b[x] = g + c /\ b[x] \in Bytes /\ b[x] >= c
        BY <2>1, <2>2, <2>3, <2>4
      <3> QED BY <2>4, <3>2, <3>3 DEF g, c
    <2>5. CASE ~(x < l)
      <3>1. g = 0 * c + g /\ 0 \in Nat
        BY <2>1
      <3>2. g % c = g
        BY <2>1, <3>1, DivisionIsUnique
      <3>3. b[x] = g /\ b[x] \in Bytes /\ b[x] < c
        BY <2>1, <2>2, <2>3, <2>5
      <3> QED BY <2>5, <3>2, <3>3 DEF g, c
    <2> QED BY <2>4, <2>5
  <1>5. b \in Seq(Bytes) /\ Len(b) = l
    <2>1. b \in [1 .. l -> Bytes]
      BY <1>3, <1>4
    <2> QED BY <1>2, <2>1
  <1>6. l >= 2 => v >= Cont
    <2>1. ASSUME l >= 2 PROVE v >= Shift(1)
      BY <1>2, <2>1
    <2>2. Shift(1) = Cont
      <3>1. Shift(0 + 1) = Shift(0) * Cont /\ Shift(0) = 1 /\ 0 + 1 = 1
        BY ShiftGrows
      <3>2. 1 * Cont = Cont
        BY ContIsNat
      <3> QED BY <3>1, <3>2
    <2> QED BY <2>1, <2>2
  <1>7. b[l] < Cont
    <2>1. l \in 1 .. l /\ ~(l < l)
      BY <1>2
    <2> QED BY <1>4, <2>1
  <1> QED BY <1>2, <1>4, <1>5, <1>6, <1>7 DEF b, l

LEMMA SignedIs ==
    ASSUME NEW v, Fits(v)
    PROVE  Signed(v % (2 ^ Width)) = v
  <1>1. Power(Width - 1) \in Nat /\ Power(Width - 1) <= Power(Width) /\ Power(Width) \in Nat
        /\ Power(Width) >= 1
    <2>1. Width - 1 \in Nat /\ Width \in Nat /\ Width - 1 <= Width
      BY ReaderAssumption
    <2>2. Power(Width - 1) <= Power(Width) /\ Power(Width) >= 1
      BY <2>1, PowerGrows
    <2>3. Power(Width - 1) \in Nat /\ Power(Width) \in Nat
      BY <2>1, PowerDoubles
    <2> QED BY <2>2, <2>3
  <1>2. v \in Nat /\ v < Power(Width) /\ ~(v >= Power(Width - 1))
    BY <1>1 DEF Fits
  <1>3. v % Power(Width) = v
    <2>1. v = 0 * Power(Width) + v /\ 0 \in Nat
      BY <1>1, <1>2
    <2> QED BY <1>1, <1>2, <2>1, DivisionIsUnique
  <1>4. v % (2 ^ Width) = v
    BY <1>3, Zenon DEF Power
  <1>5. Signed(v) = v
    BY <1>2, Zenon DEF Signed, Power
  <1> QED BY <1>4, <1>5, Zenon

(* Data that begins with all of it. *)
LEMMA DecodeWhole ==
    ASSUME NEW v, Fits(v), NEW d \in Seq(Nat), Len(EncodeVarint(v)) <= Len(d),
           \A x \in 1 .. Len(EncodeVarint(v)) : d[x] = EncodeVarint(v)[x]
    PROVE  DecodeVarint(d) = Decoded(Len(EncodeVarint(v)), v)
  <1> DEFINE b == EncodeVarint(v)
             l == Len(b)
             last == {x \in 1 .. MaxVarint : x <= Len(d) /\ d[x] < Cont}
  <1>1. /\ l = VarintLength(v) /\ l \in Nat /\ l >= 1 /\ l <= MaxVarint
        /\ \A x \in 1 .. l : b[x] % Cont = Digit(v, x)
        /\ \A x \in 1 .. l : x < l => b[x] >= Cont
        /\ b[l] < Cont
    BY EncodeFacts
  <1>2. l <= Len(d) /\ Len(d) \in Nat /\ \A x \in 1 .. l : d[x] = b[x]
    OBVIOUS
  <1>3. v \in Nat /\ v < Shift(l)
    BY <1>1, VarintLengthIs DEF Fits
  <1> HIDE DEF l, b
  <1>4. l \in last
    BY <1>1, <1>2, ReaderAssumption
  <1>5. \A x \in last : l <= x
    <2> SUFFICES ASSUME NEW x \in last, x < l PROVE FALSE
      BY <1>1, ReaderAssumption
    <2>1. x \in 1 .. l /\ d[x] = b[x] /\ b[x] >= Cont /\ d[x] < Cont /\ d[x] \in Nat
      BY <1>1, <1>2, ReaderAssumption
    <2> QED BY <2>1, ContIsNat
  <1>6. last \subseteq Nat
    BY ReaderAssumption
  <1>7. Min(last) = l
    <2>1. Min(last) \in last /\ \A y \in last : Min(last) <= y
      BY <1>4, <1>6, LeastIsIn
    <2>2. Min(last) <= l /\ l <= Min(last) /\ Min(last) \in Nat
      BY <1>4, <1>5, <1>6, <2>1
    <2> QED BY <1>1, <2>2
  <1>8. Gathered(d, l) = v
    <2>1. \A x \in 1 .. l : d[x] % Cont = Digit(v, x)
      BY <1>1, <1>2
    <2>2. Gathered(d, l) = v % Shift(l)
      BY <1>1, <1>3, <2>1, GatheredIs
    <2>3. v % Shift(l) = v
      <3>1. Shift(l) \in Nat /\ Shift(l) >= 1
        BY <1>1, ShiftGrows
      <3>2. v = 0 * Shift(l) + v /\ 0 \in Nat
        BY <1>3, <3>1
      <3> QED BY <1>3, <3>1, <3>2, DivisionIsUnique
    <2> QED BY <2>2, <2>3
  <1>9. DecodeVarint(d) = Decoded(l, Signed(v % (2 ^ Width)))
    <2>1. last # {}
      BY <1>4
    <2> QED BY <1>7, <1>8, <2>1, Zenon DEF DecodeVarint
  <1> QED BY <1>9, SignedIs, Zenon DEF l, b

(* Data that ends within it. *)
LEMMA DecodePart ==
    ASSUME NEW v, Fits(v), NEW d \in Seq(Nat), Len(d) < Len(EncodeVarint(v)),
           \A x \in 1 .. Len(d) : d[x] = EncodeVarint(v)[x]
    PROVE  DecodeVarint(d) = Incomplete
  <1> DEFINE b == EncodeVarint(v)
             l == Len(b)
             last == {x \in 1 .. MaxVarint : x <= Len(d) /\ d[x] < Cont}
  <1>1. /\ l \in Nat /\ l >= 1 /\ l <= MaxVarint
        /\ \A x \in 1 .. l : x < l => b[x] >= Cont
    BY EncodeFacts
  <1>2. Len(d) < l /\ Len(d) \in Nat /\ \A x \in 1 .. Len(d) : d[x] = b[x]
    OBVIOUS
  <1> HIDE DEF l, b
  <1>3. last = {}
    <2> SUFFICES ASSUME NEW x \in last PROVE FALSE
      OBVIOUS
    <2>1. /\ x \in 1 .. Len(d) /\ x \in 1 .. l /\ x < l /\ d[x] < Cont
          /\ d[x] = b[x] /\ d[x] \in Nat
      BY <1>1, <1>2, ReaderAssumption
    <2> QED BY <1>1, <2>1, ContIsNat
  <1>4. ~(Len(d) >= MaxVarint)
    BY <1>1, <1>2, ReaderAssumption
  <1> QED BY <1>3, <1>4, Zenon DEF DecodeVarint

-----------------------------------------------------------------------------
(* Sequences of bytes. *)

LEMMA BytesAreNat == Bytes \subseteq Nat /\ 0 \in Bytes /\ 1 \in Bytes
  <1> DEFINE c == Cont
  <1>1. c \in Nat /\ c >= 2
    BY ContIsNat
  <1>2. Bytes = 0 .. 2 * c - 1
    BY Zenon DEF Bytes
  <1> HIDE DEF c
  <1> QED BY <1>1, <1>2

LEMMA SequenceIsFunction ==
    ASSUME NEW s \in Seq(Bytes)
    PROVE  s \in [1 .. Len(s) -> Bytes] /\ Len(s) \in Nat
  OBVIOUS

LEMMA BytesAreNumbers == ASSUME NEW s \in Seq(Bytes) PROVE s \in Seq(Nat)
  <1>1. s \in [1 .. Len(s) -> Bytes] /\ Len(s) \in Nat
    BY SequenceIsFunction
  <1>2. s \in [1 .. Len(s) -> Nat]
    BY <1>1, BytesAreNat
  <1> QED BY <1>1, <1>2

LEMMA PartIsSeq ==
    ASSUME NEW s \in Seq(Bytes), NEW a \in Nat, NEW b \in Nat, a <= b, b <= Len(s)
    PROVE  /\ SubSeq(s, a + 1, b) \in Seq(Bytes) /\ Len(SubSeq(s, a + 1, b)) = b - a
           /\ \A x \in 1 .. b - a : SubSeq(s, a + 1, b)[x] = s[a + x]
  <1>1. SubSeq(s, a + 1, b) = [x \in 1 .. b - a |-> s[a + x]]
    OBVIOUS
  <1>2. \A x \in 1 .. b - a : s[a + x] \in Bytes
    OBVIOUS
  <1> DEFINE f == [x \in 1 .. b - a |-> s[a + x]]
  <1>3. f \in Seq(Bytes) /\ Len(f) = b - a /\ \A x \in 1 .. b - a : f[x] = s[a + x]
    BY <1>2
  <1> QED BY <1>1, <1>3, Zenon

LEMMA JoinedIsSeq ==
    ASSUME NEW s \in Seq(Bytes), NEW t \in Seq(Bytes)
    PROVE  /\ s \o t \in Seq(Bytes) /\ Len(s \o t) = Len(s) + Len(t)
           /\ \A x \in 1 .. Len(s) : (s \o t)[x] = s[x]
           /\ \A x \in 1 .. Len(t) : (s \o t)[Len(s) + x] = t[x]
  <1>1. s \o t \in Seq(Bytes) /\ Len(s \o t) = Len(s) + Len(t)
    OBVIOUS
  <1>2. \A x \in 1 .. Len(s) : (s \o t)[x] = s[x]
    OBVIOUS
  <1>3. \A x \in 1 .. Len(t) : (s \o t)[Len(s) + x] = t[x]
    OBVIOUS
  <1> QED BY <1>1, <1>2, <1>3

LEMMA OpaqueIsSeq ==
    ASSUME NEW size \in Nat
    PROVE  Opaque(size) \in Seq(Bytes) /\ Len(Opaque(size)) = size
  <1>1. Opaque(size) = [x \in 1 .. size |-> 1]
    BY DEF Opaque
  <1>2. [x \in 1 .. size |-> 1] \in [1 .. size -> Bytes]
    BY BytesAreNat
  <1> QED BY <1>1, <1>2

-----------------------------------------------------------------------------
(* A packet is decoded when its last byte is there, and not before. *)

LengthOf(m) == Len(EncodeVarint(m.id)) + m.size

LEMMA PacketIs ==
    ASSUME NEW m \in Messages, m.type = "packet", Encodable(m)
    PROVE  /\ Fits(m.id) /\ Fits(LengthOf(m))
           /\ Encode(m) \in Seq(Bytes)
           /\ Len(Encode(m)) = Len(EncodeVarint(LengthOf(m))) + LengthOf(m)
           /\ \A x \in 1 .. Len(EncodeVarint(LengthOf(m))) :
                  Encode(m)[x] = EncodeVarint(LengthOf(m))[x]
           /\ \A x \in 1 .. Len(EncodeVarint(m.id)) :
                  Encode(m)[Len(EncodeVarint(LengthOf(m))) + x] = EncodeVarint(m.id)[x]
           /\ LengthOf(m) >= 1
  <1> DEFINE id == EncodeVarint(m.id)
             len == LengthOf(m)
             head == EncodeVarint(len)
             rest == Opaque(m.size)
  <1>1. m.id \in Nat /\ m.size \in Nat
    BY DEF Messages
  <1>2. Fits(m.id)
    BY <1>1, Zenon DEF Fits, Encodable, Power
  <1>3. id \in Seq(Bytes) /\ Len(id) \in Nat /\ Len(id) >= 1
    BY <1>2, EncodeFacts
  <1>4. len \in Nat /\ len >= 1 /\ len = Len(id) + m.size
    BY <1>1, <1>3 DEF LengthOf
  <1>5. Fits(len)
    BY <1>4, Zenon DEF Fits, Encodable, Power
  <1>6. head \in Seq(Bytes)
    BY <1>5, EncodeFacts
  <1>7. rest \in Seq(Bytes) /\ Len(rest) = m.size
    BY <1>1, OpaqueIsSeq
  <1>8. Encode(m) = (head \o id) \o rest
    BY DEF Encode, EncodePacket, LengthOf
  <1> HIDE DEF id, len, head, rest
  <1>9. /\ head \o id \in Seq(Bytes) /\ Len(head \o id) = Len(head) + Len(id)
        /\ \A x \in 1 .. Len(head) : (head \o id)[x] = head[x]
        /\ \A x \in 1 .. Len(id) : (head \o id)[Len(head) + x] = id[x]
    BY <1>3, <1>6, JoinedIsSeq
  <1> DEFINE both == head \o id
  <1>10. Len(both) = Len(head) + Len(id) /\ both \in Seq(Bytes)
    BY <1>9
  <1> HIDE DEF both
  <1>11. /\ both \o rest \in Seq(Bytes) /\ Len(both \o rest) = Len(both) + Len(rest)
         /\ \A x \in 1 .. Len(both) : (both \o rest)[x] = both[x]
    BY <1>7, <1>10, JoinedIsSeq
  <1>12. Len(both \o rest) = Len(head) + len
    BY <1>1, <1>3, <1>4, <1>6, <1>7, <1>10, <1>11
  <1>13. /\ \A x \in 1 .. Len(head) : x \in 1 .. Len(both)
         /\ \A x \in 1 .. Len(id) : Len(head) + x \in 1 .. Len(both)
    BY <1>3, <1>6, <1>10
  <1>14. /\ \A x \in 1 .. Len(head) : (both \o rest)[x] = head[x]
         /\ \A x \in 1 .. Len(id) : (both \o rest)[Len(head) + x] = id[x]
    BY <1>9, <1>11, <1>13, Zenon DEF both
  <1>15. Encode(m) = both \o rest
    BY <1>8 DEF both
  <1> QED BY <1>2, <1>4, <1>5, <1>11, <1>12, <1>14, <1>15, Zenon DEF id, len, head

(* d begins with what there is of the message. *)
Begins(d, m) == \A x \in 1 .. Len(d) : x <= Len(Encode(m)) => d[x] = Encode(m)[x]

LEMMA PacketLengthDecodes ==
    ASSUME NEW m \in Messages, m.type = "packet", Encodable(m),
           NEW d \in Seq(Bytes), Begins(d, m)
    PROVE  DecodeVarint(d) = IF Len(d) < Len(EncodeVarint(LengthOf(m))) THEN Incomplete
                             ELSE Decoded(Len(EncodeVarint(LengthOf(m))), LengthOf(m))
  <1> DEFINE head == EncodeVarint(LengthOf(m))
  <1>1. /\ Fits(LengthOf(m)) /\ LengthOf(m) \in Nat
        /\ Len(Encode(m)) = Len(head) + LengthOf(m)
        /\ \A x \in 1 .. Len(head) : Encode(m)[x] = head[x]
    BY PacketIs DEF Fits
  <1>2. Len(head) \in Nat
    BY <1>1, EncodeFacts
  <1> HIDE DEF head
  <1>3. d \in Seq(Nat) /\ Len(d) \in Nat
    BY BytesAreNumbers
  <1>4. ASSUME NEW x \in 1 .. Len(d), x <= Len(head) PROVE d[x] = head[x]
    <2>1. x \in 1 .. Len(head) /\ x <= Len(Encode(m))
      BY <1>1, <1>2, <1>3, <1>4
    <2> QED BY <1>1, <2>1 DEF Begins
  <1>5. CASE Len(d) < Len(head)
    <2>1. \A x \in 1 .. Len(d) : d[x] = head[x]
      BY <1>2, <1>3, <1>4, <1>5
    <2>2. DecodeVarint(d) = Incomplete
      BY <1>1, <1>3, <1>5, <2>1, DecodePart DEF head
    <2> QED BY <1>5, <2>2 DEF head
  <1>6. CASE ~(Len(d) < Len(head))
    <2>1. Len(head) <= Len(d) /\ \A x \in 1 .. Len(head) : d[x] = head[x]
      BY <1>2, <1>3, <1>4, <1>6
    <2>2. DecodeVarint(d) = Decoded(Len(head), LengthOf(m))
      BY <1>1, <1>3, <2>1, DecodeWhole DEF head
    <2> QED BY <1>6, <2>2 DEF head
  <1> QED BY <1>5, <1>6

LEMMA PacketDecodes ==
    ASSUME NEW m \in Messages, m.type = "packet", Encodable(m),
           NEW d \in Seq(Bytes), Begins(d, m)
    PROVE  DecodePacket(d) = IF Len(d) < Len(Encode(m)) THEN Incomplete
                             ELSE Decoded(Len(Encode(m)), m)
  <1> DEFINE e == Encode(m)
             l == Len(EncodeVarint(LengthOf(m)))
             g == Len(EncodeVarint(m.id))
             len == LengthOf(m)
             rest == SubSeq(d, l + 1, Len(d))
  <1>1. /\ Fits(m.id) /\ len \in Nat /\ len >= 1 /\ Len(e) = l + len
        /\ \A x \in 1 .. g : e[l + x] = EncodeVarint(m.id)[x]
    BY PacketIs DEF Fits
  <1>2. l \in Nat /\ g \in Nat /\ len = g + m.size /\ m.size \in Nat
    BY PacketIs, EncodeFacts DEF LengthOf, Messages
  <1>3. DecodeVarint(d) = IF Len(d) < l THEN Incomplete ELSE Decoded(l, len)
    BY PacketLengthDecodes
  <1>4. d \in Seq(Nat) /\ Len(d) \in Nat
    BY BytesAreNumbers
  <1> HIDE DEF e, l, g, len
  <1>5. CASE Len(d) < l
    <2>1. DecodeVarint(d) = Incomplete /\ Incomplete.tag # "ok"
      BY <1>3, <1>5 DEF Incomplete
    <2>2. DecodePacket(d) = Incomplete
      BY <2>1 DEF DecodePacket
    <2>3. Len(d) < Len(e)
      BY <1>1, <1>2, <1>4, <1>5
    <2> QED BY <2>2, <2>3 DEF e
  <1>6. CASE ~(Len(d) < l)
    <2> DEFINE length == DecodeVarint(d)
    <2>1. length.tag = "ok" /\ length.consumed = l /\ length.value = len
      BY <1>3, <1>6 DEF Decoded
    <2> HIDE DEF length
    <2>2. CASE Len(d) < Len(e)
      <3>1. DecodePacket(d) = Incomplete
        BY <1>1, <2>1, <2>2 DEF DecodePacket, length
      <3> QED BY <2>2, <3>1 DEF e
    <2>3. CASE ~(Len(d) < Len(e))
      <3>1. /\ rest \in Seq(Bytes) /\ Len(rest) = Len(d) - l
            /\ \A x \in 1 .. Len(d) - l : rest[x] = d[l + x]
        BY <1>2, <1>4, <1>6, PartIsSeq
      <3> HIDE DEF rest
      <3>2. rest \in Seq(Nat) /\ g <= Len(rest)
        BY <1>1, <1>2, <1>4, <2>3, <3>1, BytesAreNumbers
      <3>3. \A x \in 1 .. g : rest[x] = EncodeVarint(m.id)[x]
        <4> TAKE x \in 1 .. g
        <4>1. x \in 1 .. Len(d) - l /\ l + x \in 1 .. Len(d) /\ l + x <= Len(e)
          BY <1>1, <1>2, <1>4, <2>3
        <4>2. rest[x] = d[l + x] /\ d[l + x] = e[l + x]
          BY <3>1, <4>1 DEF Begins, e
        <4> QED BY <1>1, <4>2
      <3>4. DecodeVarint(rest) = Decoded(g, m.id)
        BY <1>1, <3>2, <3>3, DecodeWhole DEF g
      <3>5. DecodePacket(d) = Decoded(l + len, [type |-> "packet", id |-> m.id, size |-> len - g])
        BY <1>1, <2>1, <2>3, <3>4 DEF DecodePacket, Decoded, length, rest
      <3>6. [type |-> "packet", id |-> m.id, size |-> len - g] = m
        <4>1. len - g = m.size
          BY <1>2
        <4> QED BY <4>1 DEF Messages
      <3> QED BY <1>1, <2>3, <3>5, <3>6 DEF e
    <2> QED BY <2>2, <2>3
  <1> QED BY <1>5, <1>6

(* The three bytes that a legacy ping begins with. *)
LEMMA FirstThree ==
    ASSUME NEW d \in Seq(Bytes), Len(d) >= 3
    PROVE  /\ SubSeq(d, 1, 3) \in Seq(Bytes) /\ Len(SubSeq(d, 1, 3)) = 3
           /\ \A x \in 1 .. 3 : SubSeq(d, 1, 3)[x] = d[x]
  <1>1. /\ SubSeq(d, 0 + 1, 3) \in Seq(Bytes) /\ Len(SubSeq(d, 0 + 1, 3)) = 3 - 0
        /\ \A x \in 1 .. 3 - 0 : SubSeq(d, 0 + 1, 3)[x] = d[0 + x]
    BY PartIsSeq
  <1>2. 0 + 1 = 1 /\ 3 - 0 = 3 /\ \A x \in 1 .. 3 : 0 + x = x
    OBVIOUS
  <1> QED BY <1>1, <1>2

LEMMA SameThree ==
    ASSUME NEW s \in Seq(Bytes), NEW t \in Seq(Bytes), Len(s) = 3, Len(t) = 3,
           s[1] = t[1], s[2] = t[2], s[3] = t[3]
    PROVE  s = t
  <1>1. \A x \in 1 .. 3 : s[x] = t[x]
    OBVIOUS
  <1>2. s \in [1 .. 3 -> Bytes] /\ t \in [1 .. 3 -> Bytes]
    <2>1. s \in [1 .. Len(s) -> Bytes] /\ t \in [1 .. Len(t) -> Bytes]
      BY SequenceIsFunction, Zenon
    <2> QED BY <2>1, Zenon
  <1> QED BY <1>1, <1>2

LEMMA HeaderIs ==
    /\ LegacyHeader \in Seq(Bytes) /\ Len(LegacyHeader) = 3
    /\ LegacyHeader[1] = Cont + Cont - 2
  <1> DEFINE c == Cont
  <1>1. LegacyHeader = <<c + c - 2, 1, 2 * c - 1>>
    BY DEF LegacyHeader
  <1>2. c + c - 2 \in Bytes /\ 1 \in Bytes /\ 2 * c - 1 \in Bytes
    <2>1. c \in Nat /\ c >= 2
      BY ContIsNat
    <2>2. Bytes = 0 .. 2 * c - 1
      BY Zenon DEF Bytes
    <2> HIDE DEF c
    <2> QED BY <2>1, <2>2
  <1> HIDE DEF c
  <1>3. /\ LegacyHeader \in Seq(Bytes) /\ Len(LegacyHeader) = 3
        /\ LegacyHeader[1] = c + c - 2
    BY <1>1, <1>2
  <1> QED BY <1>3 DEF c

(* A legacy ping likewise. *)
LEMMA LegacyIs ==
    ASSUME NEW m \in Messages, m.type = "legacy", Encodable(m)
    PROVE  /\ Encode(m) \in Seq(Bytes) /\ Len(Encode(m)) = 4 + m.size /\ m.size \in Nat
           /\ \A x \in 1 .. 3 : Encode(m)[x] = LegacyHeader[x]
           /\ Encode(m)[4] = m.size
           /\ Len(Encode(m)) <= MAX_BUFFER_SIZE
  <1> DEFINE h == LegacyHeader
             one == <<m.size>>
             front == h \o one
             rest == Opaque(m.size)
  <1>1. m.size \in Nat /\ m.size \in Bytes /\ Len(Encode(m)) <= MAX_BUFFER_SIZE
    BY DEF Messages, Encodable
  <1>2. h \in Seq(Bytes) /\ Len(h) = 3
    BY HeaderIs
  <1>3. one \in Seq(Bytes) /\ Len(one) = 1 /\ one[1] = m.size
    BY <1>1
  <1>4. rest \in Seq(Bytes) /\ Len(rest) = m.size
    BY <1>1, OpaqueIsSeq
  <1>5. Encode(m) = front \o rest
    BY DEF Encode
  <1> HIDE DEF h, one, rest
  <1>6. /\ front \in Seq(Bytes) /\ Len(front) = 4
        /\ \A x \in 1 .. 3 : front[x] = h[x]
        /\ front[4] = m.size
    <2>1. /\ front \in Seq(Bytes) /\ Len(front) = Len(h) + Len(one)
          /\ \A x \in 1 .. Len(h) : front[x] = h[x]
          /\ \A x \in 1 .. Len(one) : front[Len(h) + x] = one[x]
      BY <1>2, <1>3, JoinedIsSeq
    <2> HIDE DEF front
    <2>2. 1 \in 1 .. Len(one) /\ Len(h) + 1 = 4 /\ Len(h) + Len(one) = 4
      BY <1>2, <1>3
    <2>3. front[4] = one[1]
      BY <2>1, <2>2
    <2> QED BY <1>2, <1>3, <2>1, <2>2, <2>3
  <1> HIDE DEF front
  <1>7. /\ front \o rest \in Seq(Bytes) /\ Len(front \o rest) = Len(front) + Len(rest)
        /\ \A x \in 1 .. Len(front) : (front \o rest)[x] = front[x]
    BY <1>4, <1>6, JoinedIsSeq
  <1>8. /\ 4 \in 1 .. Len(front) /\ Len(front) + Len(rest) = 4 + m.size
        /\ \A x \in 1 .. 3 : x \in 1 .. Len(front)
    BY <1>1, <1>4, <1>6
  <1> QED BY <1>1, <1>5, <1>6, <1>7, <1>8, Zenon DEF h

LEMMA LegacyDecodes ==
    ASSUME NEW m \in Messages, m.type = "legacy", Encodable(m),
           NEW d \in Seq(Bytes), Begins(d, m)
    PROVE  DecodeLegacy(d) = IF Len(d) < Len(Encode(m)) THEN Incomplete
                             ELSE Decoded(Len(Encode(m)), m)
  <1> DEFINE e == Encode(m)
             h == LegacyHeader
  <1>1. /\ Len(e) = 4 + m.size /\ m.size \in Nat
        /\ e[1] = h[1] /\ e[2] = h[2] /\ e[3] = h[3] /\ e[4] = m.size
        /\ h \in Seq(Bytes) /\ Len(h) = 3
    BY LegacyIs, HeaderIs
  <1>2. Len(d) \in Nat
    OBVIOUS
  <1>3. \A x \in 1 .. Len(d) : x <= Len(e) => d[x] = e[x]
    BY DEF Begins
  <1> HIDE DEF e, h
  <1>4. CASE Len(d) < 1
    <2>1. DecodeLegacy(d) = Incomplete /\ Len(d) < Len(e)
      BY <1>1, <1>2, <1>4 DEF DecodeLegacy
    <2> QED BY <2>1 DEF e
  <1>5. CASE Len(d) >= 1 /\ Len(d) < 3
    <2>1. d[1] = h[1]
      BY <1>1, <1>2, <1>3, <1>5
    <2>2. DecodeLegacy(d) = Incomplete /\ Len(d) < Len(e)
      BY <1>1, <1>2, <1>5, <2>1 DEF DecodeLegacy, h
    <2> QED BY <2>2 DEF e
  <1>6. CASE Len(d) >= 3
    <2>1. d[1] = h[1] /\ d[2] = h[2] /\ d[3] = h[3]
      BY <1>1, <1>2, <1>3, <1>6
    <2>2. SubSeq(d, 1, 3) = h
      <3> DEFINE t == SubSeq(d, 1, 3)
      <3>1. t \in Seq(Bytes) /\ Len(t) = 3 /\ t[1] = d[1] /\ t[2] = d[2] /\ t[3] = d[3]
        BY <1>6, FirstThree
      <3> HIDE DEF t
      <3>2. t = h
        BY <1>1, <2>1, <3>1, SameThree
      <3> QED BY <3>2 DEF t
    <2>3. CASE Len(d) < 4
      <3>1. DecodeLegacy(d) = Incomplete /\ Len(d) < Len(e)
        BY <1>1, <1>2, <1>6, <2>1, <2>2, <2>3 DEF DecodeLegacy, h
      <3> QED BY <3>1 DEF e
    <2>4. CASE ~(Len(d) < 4)
      <3>1. d[4] = m.size
        BY <1>1, <1>2, <1>3, <2>4
      <3>2. DecodeLegacy(d) = IF Len(d) < 4 + m.size THEN Incomplete
                ELSE Decoded(4 + m.size, [type |-> "legacy", id |-> 0, size |-> m.size])
        BY <1>2, <1>6, <2>1, <2>2, <2>4, <3>1 DEF DecodeLegacy, h
      <3>3. [type |-> "legacy", id |-> 0, size |-> m.size] = m
        BY DEF Messages, Encodable
      <3> QED BY <1>1, <3>2, <3>3 DEF e
    <2> QED BY <2>3, <2>4
  <1> QED BY <1>2, <1>4, <1>5, <1>6

(* What is not one is refused as soon as its first bytes differ. *)
LEMMA LegacyRefuses ==
    ASSUME NEW m \in Messages, m.type = "packet", Encodable(m),
           SubSeq(Encode(m), 1, 3) # LegacyHeader,
           NEW d \in Seq(Bytes), Begins(d, m)
    PROVE  \/ DecodeLegacy(d) = Incomplete /\ Len(d) < Len(Encode(m))
           \/ DecodeLegacy(d) = Malformed
  <1> DEFINE e == Encode(m)
             h == LegacyHeader
             b == EncodeVarint(LengthOf(m))
             l == Len(b)
             c == Cont
  <1>1. /\ e \in Seq(Bytes) /\ Len(e) = l + LengthOf(m) /\ Fits(LengthOf(m))
        /\ LengthOf(m) \in Nat /\ LengthOf(m) >= 1
        /\ \A x \in 1 .. l : e[x] = b[x]
    BY PacketIs DEF Fits
  <1>2. /\ l \in Nat /\ l >= 1 /\ b[l] < Cont
        /\ l >= 2 => LengthOf(m) >= Cont
    BY <1>1, EncodeFacts
  <1>3. h[1] = c + c - 2 /\ c \in Nat /\ c >= 2
    BY ContIsNat, HeaderIs
  <1>4. Len(d) \in Nat /\ \A x \in 1 .. Len(d) : x <= Len(e) => d[x] = e[x]
    BY DEF Begins
  <1>5. SubSeq(e, 1, 3) # h
    OBVIOUS
  <1> HIDE DEF e, h, b, l
  <1>6. CASE Len(d) < 1
    <2>1. DecodeLegacy(d) = Incomplete /\ Len(d) < Len(e)
      BY <1>1, <1>2, <1>4, <1>6 DEF DecodeLegacy
    <2> QED BY <2>1 DEF e
  <1>7. CASE Len(d) >= 1 /\ d[1] # h[1]
    BY <1>4, <1>7 DEF DecodeLegacy, h
  <1>8. CASE Len(d) >= 1 /\ d[1] = h[1]
    <2>1. e[1] = h[1] /\ e[1] = b[1]
      <3>1. 1 \in 1 .. Len(d) /\ 1 <= Len(e) /\ 1 \in 1 .. l
        BY <1>1, <1>2, <1>4, <1>8
      <3> QED BY <1>1, <1>4, <1>8, <3>1
    <2>2. l # 1
      <3>1. b[1] = c + c - 2
        BY <1>3, <2>1
      <3>2. ASSUME l = 1 PROVE b[1] < c
        BY <1>2, <3>2
      <3> HIDE DEF c
      <3> QED BY <1>3, <3>1, <3>2
    <2>3. Len(e) >= 4
      <3>1. l >= 2 /\ LengthOf(m) >= c
        BY <1>2, <2>2
      <3> HIDE DEF c
      <3> QED BY <1>1, <1>2, <1>3, <3>1
    <2>4. CASE Len(d) < 3
      <3>1. DecodeLegacy(d) = Incomplete /\ Len(d) < Len(e)
        BY <1>1, <1>4, <1>8, <2>3, <2>4 DEF DecodeLegacy, h
      <3> QED BY <3>1 DEF e
    <2>5. CASE ~(Len(d) < 3)
      <3>1. d[1] = e[1] /\ d[2] = e[2] /\ d[3] = e[3]
        BY <1>4, <2>3, <2>5
      <3>2. SubSeq(d, 1, 3) = SubSeq(e, 1, 3)
        <4> DEFINE t == SubSeq(d, 1, 3)
                   u == SubSeq(e, 1, 3)
        <4>1. t \in Seq(Bytes) /\ Len(t) = 3 /\ t[1] = d[1] /\ t[2] = d[2] /\ t[3] = d[3]
          BY <1>4, <2>5, FirstThree
        <4>2. u \in Seq(Bytes) /\ Len(u) = 3 /\ u[1] = e[1] /\ u[2] = e[2] /\ u[3] = e[3]
          BY <1>1, <2>3, FirstThree
        <4> HIDE DEF t, u
        <4>3. t = u
          BY <3>1, <4>1, <4>2, SameThree
        <4> QED BY <4>3 DEF t, u
      <3>3. DecodeLegacy(d) = Malformed
        BY <1>4, <1>5, <1>8, <2>5, <3>2 DEF DecodeLegacy, h
      <3> QED BY <3>3
    <2> QED BY <2>4, <2>5
  <1> QED BY <1>4, <1>6, <1>7, <1>8

(* Nothing is there. *)
LEMMA NothingDecodes ==
    ASSUME NEW d \in Seq(Bytes), Len(d) = 0
    PROVE  DecodeVarint(d) = Incomplete /\ DecodePacket(d) = Incomplete
           /\ DecodeLegacy(d) = Incomplete
  <1> DEFINE last == {x \in 1 .. MaxVarint : x <= Len(d) /\ d[x] < Cont}
  <1>1. last = {}
    BY ReaderAssumption
  <1>2. ~(Len(d) >= MaxVarint)
    BY ReaderAssumption
  <1>3. DecodeVarint(d) = Incomplete
    BY <1>1, <1>2, Zenon DEF DecodeVarint
  <1>4. DecodePacket(d) = Incomplete
    <2>1. Incomplete.tag # "ok"
      BY DEF Incomplete
    <2> QED BY <1>3, <2>1 DEF DecodePacket
  <1>5. DecodeLegacy(d) = Incomplete
    BY DEF DecodeLegacy
  <1> QED BY <1>3, <1>4, <1>5

-----------------------------------------------------------------------------
(* A stream is the frames of its messages, one after the other. *)

Sendable(s) == s \in Seq(Messages) /\ \A x \in 1 .. Len(s) : Encodable(s[x])

LEMMA FrameIsSeq ==
    ASSUME NEW m \in Messages, Encodable(m)
    PROVE  Encode(m) \in Seq(Bytes) /\ Len(Encode(m)) \in Nat /\ Len(Encode(m)) >= 1
  <1>1. m.type \in {"packet", "legacy"}
    BY DEF Messages
  <1>2. CASE m.type = "packet"
    <2> DEFINE e == Encode(m)
               l == Len(EncodeVarint(LengthOf(m)))
               len == LengthOf(m)
    <2>1. e \in Seq(Bytes) /\ Len(e) = l + len /\ Fits(len) /\ len \in Nat /\ len >= 1
      BY <1>2, PacketIs DEF Fits
    <2>2. l \in Nat
      BY <2>1, EncodeFacts
    <2> HIDE DEF e, l, len
    <2>3. e \in Seq(Bytes) /\ Len(e) \in Nat /\ Len(e) >= 1
      BY <2>1, <2>2
    <2> QED BY <2>3 DEF e
  <1>3. CASE m.type = "legacy"
    <2> DEFINE e == Encode(m)
    <2>1. e \in Seq(Bytes) /\ Len(e) = 4 + m.size /\ m.size \in Nat
      BY <1>3, LegacyIs
    <2> HIDE DEF e
    <2>2. e \in Seq(Bytes) /\ Len(e) \in Nat /\ Len(e) >= 1
      BY <2>1
    <2> QED BY <2>2 DEF e
  <1> QED BY <1>1, <1>2, <1>3

(* f[x] is what the first x messages of s are on the wire. *)
Joins(f, s, k) ==
    /\ f \in [1 .. k -> Seq(Bytes)]
    /\ \A x \in 1 .. k : f[x] = IF x = 1 THEN Encode(s[x]) ELSE f[x - 1] \o Encode(s[x])

Joined(s, k) == \E f : Joins(f, s, k)

LEMMA JoinsExtend ==
    ASSUME NEW s, NEW k \in Nat, NEW f, Joins(f, s, k), Encode(s[k + 1]) \in Seq(Bytes)
    PROVE  Joined(s, k + 1)
  <1> DEFINE e == Encode(s[k + 1])
             last == IF k = 0 THEN e ELSE f[k] \o e
             g == [x \in 1 .. k + 1 |-> IF x = k + 1 THEN last ELSE f[x]]
  <1>1. f \in [1 .. k -> Seq(Bytes)]
    BY DEF Joins
  <1>2. last \in Seq(Bytes)
    <2>1. CASE k = 0
      BY <2>1
    <2>2. CASE k # 0
      <3>1. f[k] \in Seq(Bytes)
        BY <1>1, <2>2
      <3>2. f[k] \o e \in Seq(Bytes)
        BY <3>1, JoinedIsSeq
      <3> QED BY <2>2, <3>2
    <2> QED BY <2>1, <2>2
  <1> HIDE DEF last
  <1>3. g \in [1 .. k + 1 -> Seq(Bytes)]
    <2>1. \A x \in 1 .. k + 1 : x # k + 1 => x \in 1 .. k
      OBVIOUS
    <2> QED BY <1>1, <1>2, <2>1
  <1>4. /\ g[k + 1] = last /\ k + 1 \in 1 .. k + 1 /\ (k + 1) - 1 = k
        /\ \A x \in 1 .. k : g[x] = f[x] /\ x \in 1 .. k + 1
    OBVIOUS
  <1> HIDE DEF g
  <1>5. ASSUME NEW x \in 1 .. k + 1
        PROVE  g[x] = IF x = 1 THEN Encode(s[x]) ELSE g[x - 1] \o Encode(s[x])
    <2>1. CASE x = k + 1
      <3>1. CASE k = 0
        BY <1>4, <2>1, <3>1 DEF last
      <3>2. CASE k # 0
        <4>1. x # 1 /\ x - 1 = k /\ k \in 1 .. k
          BY <2>1, <3>2
        <4>2. g[k] = f[k]
          BY <1>4, <4>1
        <4> QED BY <1>4, <2>1, <3>2, <4>1, <4>2, Zenon DEF last
      <3> QED BY <3>1, <3>2
    <2>2. CASE x # k + 1
      <3>1. x \in 1 .. k
        BY <2>2
      <3>2. f[x] = IF x = 1 THEN Encode(s[x]) ELSE f[x - 1] \o Encode(s[x])
        BY <3>1 DEF Joins
      <3>3. CASE x = 1
        BY <1>4, <3>1, <3>2, <3>3
      <3>4. CASE x # 1
        <4>1. x - 1 \in 1 .. k
          BY <3>1, <3>4
        <4>2. g[x - 1] = f[x - 1] /\ g[x] = f[x]
          BY <1>4, <3>1, <4>1
        <4> QED BY <3>2, <3>4, <4>2, Zenon
      <3> QED BY <3>3, <3>4
    <2> QED BY <2>1, <2>2
  <1>6. Joins(g, s, k + 1)
    BY <1>3, <1>5 DEF Joins
  <1> QED BY <1>6 DEF Joined

LEMMA JoinsExist ==
    ASSUME NEW s, Sendable(s), NEW l \in Nat, l <= Len(s)
    PROVE  Joined(s, l)
  <1>0. s \in Seq(Messages) /\ Len(s) \in Nat
    BY DEF Sendable
  <1> DEFINE T == {k \in 0 .. Len(s) : ~Joined(s, k)}
  <1>1. SUFFICES ASSUME T # {} PROVE FALSE
    BY <1>0
  <1>2. PICK x \in T : \A y \in T : x <= y
    <2>1. T \subseteq Nat
      BY <1>0
    <2> QED BY <1>1, <2>1, LeastIsIn
  <1>3. x # 0
    <2> DEFINE f == [y \in 1 .. 0 |-> <<>>]
    <2>1. Joins(f, s, 0)
      BY DEF Joins
    <2>2. Joined(s, 0)
      BY <2>1 DEF Joined
    <2> QED BY <1>2, <2>2
  <1> DEFINE k == x - 1
  <1>4. k \in Nat /\ k \in 0 .. Len(s) /\ k \notin T /\ k + 1 = x /\ x \in 1 .. Len(s)
    BY <1>0, <1>2, <1>3
  <1> HIDE DEF k
  <1>5. Joined(s, k)
    BY <1>4
  <1>6. PICK f : Joins(f, s, k)
    BY <1>5 DEF Joined
  <1>7. s[k + 1] \in Messages /\ Encodable(s[k + 1])
    BY <1>0, <1>4 DEF Sendable
  <1>8. Joined(s, k + 1)
    BY <1>4, <1>6, <1>7, FrameIsSeq, JoinsExtend
  <1> QED BY <1>2, <1>4, <1>8

LEMMA JoinsAgree ==
    ASSUME NEW s, NEW t, NEW f, NEW g, NEW k \in Nat, NEW l \in Nat, k <= l,
           Joins(f, s, k), Joins(g, t, l), \A x \in 1 .. k : s[x] = t[x]
    PROVE  \A x \in 1 .. k : f[x] = g[x]
  <1> DEFINE T == {x \in 1 .. k : f[x] # g[x]}
  <1>1. SUFFICES ASSUME T # {} PROVE FALSE
    OBVIOUS
  <1>2. PICK x \in T : \A y \in T : x <= y
    <2>1. T \subseteq Nat
      OBVIOUS
    <2> QED BY <1>1, <2>1, LeastIsIn
  <1>3. x \in 1 .. k /\ x \in 1 .. l /\ f[x] # g[x] /\ s[x] = t[x]
    BY <1>2
  <1>4. /\ f[x] = IF x = 1 THEN Encode(s[x]) ELSE f[x - 1] \o Encode(s[x])
        /\ g[x] = IF x = 1 THEN Encode(t[x]) ELSE g[x - 1] \o Encode(t[x])
    BY <1>3 DEF Joins
  <1>5. x # 1
    BY <1>3, <1>4
  <1>6. x - 1 \in 1 .. k /\ x - 1 \notin T
    BY <1>2, <1>3, <1>5
  <1>7. f[x - 1] = g[x - 1]
    BY <1>6
  <1> QED BY <1>3, <1>4, <1>5, <1>7, Zenon

LEMMA StreamIs ==
    ASSUME NEW s, Sendable(s), Len(s) >= 1, NEW f, Joins(f, s, Len(s))
    PROVE  Stream(s) = f[Len(s)]
  <1> DEFINE seqs == [x \in DOMAIN s |-> Encode(s[x])]
             k == Len(s)
             Eq(g) == g = [x \in 1 .. k |->
                              IF x = 1 THEN seqs[x] ELSE g[x - 1] \o seqs[x]]
             h == CHOOSE g : Eq(g)
  <1>1. s \in Seq(Messages) /\ k \in Nat /\ DOMAIN s = 1 .. k /\ k >= 1
    BY DEF Sendable
  <1>2. Len(seqs) = k /\ \A x \in 1 .. k : seqs[x] = Encode(s[x])
    BY <1>1
  <1>3. Stream(s) = h[k]
    <2>1. Len(seqs) # 0
      BY <1>1, <1>2
    <2>2. Stream(s) = FlattenSeq(seqs)
      BY DEF Stream
    <2> HIDE DEF seqs, k
    <2>3. FlattenSeq(seqs) = h[k]
      BY <1>2, <2>1, Zenon DEF FlattenSeq
    <2> QED BY <2>2, <2>3
  <1> HIDE DEF seqs, k
  <1>4. Eq(f)
    <2>1. f \in [1 .. k -> Seq(Bytes)]
      BY Zenon DEF Joins, k
    <2>2. \A x \in 1 .. k : f[x] = IF x = 1 THEN seqs[x] ELSE f[x - 1] \o seqs[x]
      BY <1>2, Zenon DEF Joins, k
    <2> QED BY <2>1, <2>2, Zenon
  <1>5. Eq(h)
    BY <1>4, Zenon
  <1> HIDE DEF h
  <1>6. \A x \in 1 .. k : h[x] = IF x = 1 THEN seqs[x] ELSE h[x - 1] \o seqs[x]
    BY <1>5, Zenon
  <1>7. \A x \in 1 .. k : f[x] = IF x = 1 THEN seqs[x] ELSE f[x - 1] \o seqs[x]
    BY <1>2, Zenon DEF Joins, k
  <1> DEFINE T == {x \in 1 .. k : f[x] # h[x]}
  <1>8. T = {}
    <2>1. SUFFICES ASSUME T # {} PROVE FALSE
      OBVIOUS
    <2>2. PICK x \in T : \A y \in T : x <= y
      <3>1. T \subseteq Nat
        BY <1>1
      <3> QED BY <2>1, <3>1, LeastIsIn
    <2>3. x \in 1 .. k /\ f[x] # h[x]
      BY <2>2
    <2>4. x # 1
      BY <1>6, <1>7, <2>3, Zenon
    <2>5. x - 1 \in 1 .. k /\ x - 1 \notin T
      BY <1>1, <2>2, <2>3, <2>4
    <2>6. f[x - 1] = h[x - 1]
      BY <2>5
    <2> QED BY <1>6, <1>7, <2>3, <2>4, <2>6, Zenon
  <1>9. f[k] = h[k]
    BY <1>1, <1>8
  <1> QED BY <1>3, <1>9 DEF k

-----------------------------------------------------------------------------
(* The bytes of the first k messages. *)
Before(s, k) == Stream(SubSeq(s, 1, k))

LEMMA FirstMessages ==
    ASSUME NEW s, Sendable(s), NEW k \in Nat, k <= Len(s)
    PROVE  /\ Sendable(SubSeq(s, 1, k)) /\ Len(SubSeq(s, 1, k)) = k
           /\ \A x \in 1 .. k : SubSeq(s, 1, k)[x] = s[x]
  <1>1. s \in Seq(Messages) /\ Len(s) \in Nat
    BY DEF Sendable
  <1>2. /\ SubSeq(s, 1, k) \in Seq(Messages) /\ Len(SubSeq(s, 1, k)) = k
        /\ \A x \in 1 .. k : SubSeq(s, 1, k)[x] = s[x]
    BY <1>1
  <1>3. \A x \in 1 .. k : x \in 1 .. Len(s)
    BY <1>1
  <1> QED BY <1>2, <1>3, Zenon DEF Sendable

LEMMA BeforeIs ==
    ASSUME NEW s, Sendable(s), NEW f, Joins(f, s, Len(s)),
           NEW k \in Nat, k >= 1, k <= Len(s)
    PROVE  Before(s, k) = f[k]
  <1> DEFINE t == SubSeq(s, 1, k)
  <1>1. Sendable(t) /\ Len(t) = k /\ \A x \in 1 .. k : t[x] = s[x]
    BY FirstMessages
  <1>2. Len(s) \in Nat
    BY DEF Sendable
  <1> HIDE DEF t
  <1>3. PICK g : Joins(g, t, k)
    <2>1. Joined(t, k)
      BY <1>1, JoinsExist
    <2> QED BY <2>1 DEF Joined
  <1>4. Stream(t) = g[k]
    <2>1. Joins(g, t, Len(t)) /\ Len(t) >= 1
      BY <1>1, <1>3, Zenon
    <2>2. Stream(t) = g[Len(t)]
      BY <1>1, <2>1, StreamIs, Zenon
    <2> QED BY <1>1, <2>2, Zenon
  <1>5. \A x \in 1 .. k : g[x] = f[x]
    BY <1>1, <1>2, <1>3, JoinsAgree
  <1>6. g[k] = f[k]
    BY <1>5
  <1> QED BY <1>4, <1>6 DEF Before, t

LEMMA BeforeNothing ==
    ASSUME NEW s
    PROVE  Before(s, 0) = <<>> /\ Stream(<<>>) = <<>>
  <1> DEFINE seqs == [x \in DOMAIN <<>> |-> Encode(<<>>[x])]
  <1>1. seqs = <<>> /\ Len(seqs) = 0
    OBVIOUS
  <1>2. Stream(<<>>) = FlattenSeq(seqs)
    BY DEF Stream
  <1> HIDE DEF seqs
  <1>3. FlattenSeq(seqs) = seqs
    BY <1>1, Zenon DEF FlattenSeq
  <1>4. SubSeq(s, 1, 0) = <<>>
    OBVIOUS
  <1> QED BY <1>1, <1>2, <1>3, <1>4 DEF Before

LEMMA BeforeGrows ==
    ASSUME NEW s, Sendable(s), NEW k \in Nat, k < Len(s)
    PROVE  /\ Before(s, k) \in Seq(Bytes) /\ Before(s, k + 1) \in Seq(Bytes)
           /\ Before(s, k + 1) = Before(s, k) \o Encode(s[k + 1])
           /\ s[k + 1] \in Messages /\ Encodable(s[k + 1])
           /\ Encode(s[k + 1]) \in Seq(Bytes) /\ Len(Encode(s[k + 1])) \in Nat
           /\ Len(Encode(s[k + 1])) >= 1
  <1>1. Len(s) \in Nat /\ k + 1 \in 1 .. Len(s) /\ k + 1 >= 1 /\ k + 1 <= Len(s)
    BY DEF Sendable
  <1>2. s[k + 1] \in Messages /\ Encodable(s[k + 1])
    BY <1>1 DEF Sendable
  <1>3. /\ Encode(s[k + 1]) \in Seq(Bytes) /\ Len(Encode(s[k + 1])) \in Nat
        /\ Len(Encode(s[k + 1])) >= 1
    BY <1>2, FrameIsSeq
  <1>4. PICK f : Joins(f, s, Len(s))
    <2>1. Joined(s, Len(s))
      BY <1>1, JoinsExist
    <2> QED BY <2>1 DEF Joined
  <1>5. Before(s, k + 1) = f[k + 1] /\ f[k + 1] \in Seq(Bytes)
    <2>1. k + 1 \in Nat
      OBVIOUS
    <2>2. Before(s, k + 1) = f[k + 1]
      BY <1>1, <1>4, <2>1, BeforeIs
    <2>3. f[k + 1] \in Seq(Bytes)
      BY <1>1, <1>4 DEF Joins
    <2> QED BY <2>2, <2>3
  <1>6. f[k + 1] = IF k + 1 = 1 THEN Encode(s[k + 1]) ELSE f[(k + 1) - 1] \o Encode(s[k + 1])
    BY <1>1, <1>4 DEF Joins
  <1>7. CASE k = 0
    <2> DEFINE e == Encode(s[k + 1])
    <2>1. Before(s, k) = <<>>
      BY <1>7, BeforeNothing
    <2>2. Before(s, k + 1) = e
      BY <1>5, <1>6, <1>7
    <2>3. e \in Seq(Bytes)
      BY <1>3
    <2> HIDE DEF e
    <2>4. <<>> \o e = e /\ <<>> \in Seq(Bytes)
      BY <2>3
    <2>5. Before(s, k) \in Seq(Bytes) /\ Before(s, k + 1) = Before(s, k) \o e
      BY <2>1, <2>2, <2>4
    <2> QED BY <1>2, <1>3, <1>5, <2>5 DEF e
  <1>8. CASE k # 0
    <2>1. k \in 1 .. Len(s) /\ k >= 1 /\ k <= Len(s) /\ (k + 1) - 1 = k /\ k + 1 # 1
      BY <1>1, <1>8
    <2>2. Before(s, k) = f[k] /\ f[k] \in Seq(Bytes)
      BY <1>4, <2>1, BeforeIs DEF Joins
    <2>3. Before(s, k + 1) = Before(s, k) \o Encode(s[k + 1])
      BY <1>5, <1>6, <2>1, <2>2, Zenon
    <2> QED BY <1>2, <1>3, <1>5, <2>2, <2>3
  <1> QED BY <1>7, <1>8

StartsWith(b, a) == Len(a) <= Len(b) /\ \A x \in 1 .. Len(a) : b[x] = a[x]

LEMMA BeforeIsSeq ==
    ASSUME NEW s, Sendable(s), NEW k \in Nat, k <= Len(s)
    PROVE  Before(s, k) \in Seq(Bytes)
  <1>1. CASE k = 0
    <2>1. Before(s, k) = <<>> /\ <<>> \in Seq(Bytes)
      BY <1>1, BeforeNothing
    <2> QED BY <2>1
  <1>2. CASE k # 0
    <2> DEFINE l == k - 1
    <2>1. l \in Nat /\ l < Len(s) /\ l + 1 = k
      BY <1>2 DEF Sendable
    <2> HIDE DEF l
    <2>2. Before(s, l + 1) \in Seq(Bytes)
      BY <2>1, BeforeGrows
    <2> QED BY <2>1, <2>2
  <1> QED BY <1>1, <1>2

LEMMA BeforeIsPrefix ==
    ASSUME NEW s, Sendable(s), NEW k \in Nat, NEW l \in Nat, k <= l, l <= Len(s)
    PROVE  StartsWith(Before(s, l), Before(s, k))
  <1>0. Len(s) \in Nat
    BY DEF Sendable
  <1> DEFINE T == {y \in k .. Len(s) : ~StartsWith(Before(s, y), Before(s, k))}
  <1>1. SUFFICES ASSUME T # {} PROVE FALSE
    BY <1>0
  <1>2. PICK x \in T : \A y \in T : x <= y
    <2>1. T \subseteq Nat
      BY <1>0
    <2> QED BY <1>1, <2>1, LeastIsIn
  <1>3. Before(s, k) \in Seq(Bytes)
    BY <1>0, BeforeIsSeq
  <1>4. x # k
    <2>1. StartsWith(Before(s, k), Before(s, k))
      BY <1>3 DEF StartsWith
    <2> QED BY <1>2, <2>1
  <1> DEFINE y == x - 1
  <1>5. y \in Nat /\ y \in k .. Len(s) /\ y \notin T /\ y + 1 = x /\ y < Len(s)
    BY <1>0, <1>2, <1>4
  <1> HIDE DEF y
  <1> DEFINE a == Before(s, k)
             b == Before(s, y)
             e == Encode(s[y + 1])
  <1>6. StartsWith(b, a)
    BY <1>5
  <1>7. b \in Seq(Bytes) /\ e \in Seq(Bytes) /\ Before(s, x) = b \o e
    BY <1>5, BeforeGrows
  <1>8. a \in Seq(Bytes)
    BY <1>3
  <1> HIDE DEF a, b, e
  <1>9. /\ b \o e \in Seq(Bytes) /\ Len(b \o e) = Len(b) + Len(e)
        /\ \A z \in 1 .. Len(b) : (b \o e)[z] = b[z]
    BY <1>7, JoinedIsSeq
  <1>10. Len(a) <= Len(b) /\ Len(a) \in Nat /\ Len(b) \in Nat /\ Len(e) \in Nat
         /\ \A z \in 1 .. Len(a) : b[z] = a[z] /\ z \in 1 .. Len(b)
    BY <1>6, <1>7, <1>8 DEF StartsWith
  <1>11. Len(a) <= Len(b \o e)
    BY <1>9, <1>10
  <1>12. StartsWith(b \o e, a)
    BY <1>9, <1>10, <1>11, Zenon DEF StartsWith
  <1>13. StartsWith(Before(s, x), Before(s, k))
    BY <1>7, <1>12 DEF a
  <1> QED BY <1>2, <1>13

(* Where the frame of message k + 1 is in the stream. *)
LEMMA FrameIsThere ==
    ASSUME NEW s, Sendable(s), NEW k \in Nat, k < Len(s)
    PROVE  /\ Stream(s) \in Seq(Bytes)
           /\ Len(Before(s, k)) \in Nat
           /\ Len(Before(s, k + 1)) = Len(Before(s, k)) + Len(Encode(s[k + 1]))
           /\ Len(Before(s, k)) + Len(Encode(s[k + 1])) <= Len(Stream(s))
           /\ \A x \in 1 .. Len(Encode(s[k + 1])) :
                  Stream(s)[Len(Before(s, k)) + x] = Encode(s[k + 1])[x]
  <1> DEFINE a == Before(s, k)
             e == Encode(s[k + 1])
             b == Before(s, k + 1)
             w == Stream(s)
  <1>1. Len(s) \in Nat /\ k + 1 \in Nat /\ k + 1 <= Len(s)
    BY DEF Sendable
  <1>2. a \in Seq(Bytes) /\ e \in Seq(Bytes) /\ b = a \o e
    BY BeforeGrows
  <1>3. Before(s, Len(s)) = w
    <2>1. SubSeq(s, 1, Len(s)) = s
      BY DEF Sendable
    <2> QED BY <2>1 DEF Before
  <1>4. w \in Seq(Bytes) /\ StartsWith(w, b)
    <2>1. Before(s, Len(s)) \in Seq(Bytes)
      BY <1>1, BeforeIsSeq
    <2>2. StartsWith(Before(s, Len(s)), Before(s, k + 1))
      BY <1>1, BeforeIsPrefix
    <2> QED BY <1>3, <2>1, <2>2
  <1> HIDE DEF a, e, b, w
  <1>5. /\ b \in Seq(Bytes) /\ Len(b) = Len(a) + Len(e)
        /\ \A x \in 1 .. Len(e) : b[Len(a) + x] = e[x]
    BY <1>2, JoinedIsSeq
  <1>6. Len(a) \in Nat /\ Len(e) \in Nat /\ Len(w) \in Nat
    BY <1>2, <1>4
  <1>7. Len(b) <= Len(w) /\ \A x \in 1 .. Len(b) : w[x] = b[x]
    BY <1>4 DEF StartsWith
  <1>8. \A x \in 1 .. Len(e) : w[Len(a) + x] = e[x]
    <2>1. \A x \in 1 .. Len(e) : Len(a) + x \in 1 .. Len(b)
      BY <1>5, <1>6
    <2> QED BY <1>5, <1>7, <2>1
  <1>9. Len(a) + Len(e) <= Len(w)
    BY <1>5, <1>7
  <1> QED BY <1>4, <1>5, <1>6, <1>8, <1>9 DEF a, e, b, w

LEMMA StreamIsSeq ==
    ASSUME NEW s, Sendable(s)
    PROVE  Stream(s) \in Seq(Bytes) /\ Before(s, Len(s)) = Stream(s)
  <1>1. Len(s) \in Nat /\ SubSeq(s, 1, Len(s)) = s
    BY DEF Sendable
  <1>2. Before(s, Len(s)) = Stream(s)
    BY <1>1 DEF Before
  <1>3. Before(s, Len(s)) \in Seq(Bytes)
    BY <1>1, BeforeIsSeq
  <1> QED BY <1>2, <1>3

-----------------------------------------------------------------------------
(* The inductive invariant, of a buffer buf whose bytes from + 1 .. to are *)
(* unparsed, after k messages.                                             *)

(* The unparsed bytes go on where the pr parsed bytes of the stream end,   *)
(* up to the tk that were taken.                                           *)
Holds(buf, from, to, tk, pr) ==
    /\ buf \in Seq(Bytes) /\ from \in Nat /\ to \in Nat /\ pr \in Nat
    /\ from <= to /\ to <= Len(buf)
    /\ tk = pr + (to - from) /\ tk <= Len(wire)
    /\ \A x \in 1 .. to - from : buf[from + x] = wire[pr + x]

(* The messages returned are the first ones sent. *)
Returned(messages, pr) ==
    /\ messages = SubSeq(sent, 1, Len(messages))
    /\ Len(messages) \in Nat /\ Len(messages) <= Len(sent)
    /\ pr = Len(Before(sent, Len(messages)))

Limit == DEFAULT_BUFFER_SIZE - MIN_READ_SIZE

(* No message has made the buffer grow. *)
Small(k) == \A x \in 1 .. k : FrameLength(x) <= Limit

Large(k, least) == k < Len(sent) /\ FrameLength(k + 1) > least

(* As long as none has, the buffer has its first size, unless the message  *)
(* at its beginning is about to be the first.                              *)
Sized(buf, from, k) ==
    /\ DEFAULT_BUFFER_SIZE <= Len(buf) /\ Len(buf) <= MAX_BUFFER_SIZE
    /\ Small(k) => \/ Len(buf) = DEFAULT_BUFFER_SIZE
                   \/ from = 0 /\ Large(k, Limit)

(* The length that is known is that of the packet begun. *)
Known(length, k) ==
    length # Unknown => /\ k < Len(sent) /\ sent[k + 1].type = "packet"
                        /\ length = LengthOf(sent[k + 1])

(* A legacy ping can only be the first message, and is tried first then. *)
Due(lg, k) ==
    /\ lg \in BOOLEAN
    /\ lg => k = 0
    /\ k < Len(sent) /\ sent[k + 1].type = "legacy" => lg

Turn(rd, lg, fl) ==
    /\ rd \in {"no", "legacy", "packet"} /\ fl \in {"no", "reset", "full", "shrink"}
    /\ rd # "no" => fl = "no" /\ rd = IF lg THEN "legacy" ELSE "packet"

Excused(fl, k) == fl \in {"full", "shrink"} => Large(k, MAX_BUFFER_SIZE) \/ ~Small(k)

SentIs ==
    /\ sent \in Sent /\ wire = Stream(sent)
    /\ \A x \in DOMAIN sent : sent[x].type = "legacy" => x = 1

Inv ==
    /\ SentIs
    /\ Returned(got, parsed)
    /\ Holds(data, i, j, taken, parsed)
    /\ Sized(data, i, Len(got))
    /\ Known(packet_length, Len(got))
    /\ Due(legacy, Len(got))
    /\ Turn(reading, legacy, failed)
    /\ Excused(failed, Len(got))

LEMMA SentFacts ==
    ASSUME SentIs
    PROVE  /\ Sendable(sent) /\ sent \in Seq(Messages) /\ Len(sent) \in Nat
           /\ wire \in Seq(Bytes) /\ wire = Before(sent, Len(sent))
           /\ Len(sent) >= 1 /\ sent[1].type = "packet" =>
                  SubSeq(Encode(sent[1]), 1, 3) # LegacyHeader
           /\ DOMAIN sent = 1 .. Len(sent)
  <1>1. sent \in Seq(Messages)
    BY ReaderAssumption DEF SentIs
  <1>2. Len(sent) \in Nat /\ DOMAIN sent = 1 .. Len(sent)
    BY <1>1
  <1>3. \A x \in 1 .. Len(sent) :
           /\ Encodable(sent[x])
           /\ sent[x].type = "packet" /\ x = 1 => SubSeq(Encode(sent[x]), 1, 3) # LegacyHeader
    BY <1>2, SentAssumption, Zenon DEF SentIs
  <1>4. Sendable(sent)
    BY <1>1, <1>3 DEF Sendable
  <1>5. Len(sent) >= 1 => 1 \in 1 .. Len(sent)
    BY <1>2
  <1>6. Len(sent) >= 1 /\ sent[1].type = "packet" =>
            SubSeq(Encode(sent[1]), 1, 3) # LegacyHeader
    BY <1>3, <1>5, Zenon
  <1>7. wire \in Seq(Bytes) /\ wire = Before(sent, Len(sent))
    BY <1>4, StreamIsSeq, Zenon DEF SentIs
  <1> QED BY <1>1, <1>2, <1>4, <1>6, <1>7

-----------------------------------------------------------------------------
(* What the decoders say of the unparsed bytes. *)

(* The hypotheses under which a call goes on. *)
Ready(message, buf, from, to, tk) ==
    /\ SentIs
    /\ Returned(got, parsed)
    /\ Holds(buf, from, to, tk, parsed)
    /\ Sized(buf, from, Len(got))
    /\ Known(packet_length, Len(got))
    /\ Due(legacy, Len(got))
    /\ message = IF legacy THEN "legacy" ELSE "packet"
    /\ failed = "no"

LEMMA UnparsedBegins ==
    ASSUME NEW message, NEW buf, NEW from, NEW to, NEW tk,
           Ready(message, buf, from, to, tk),
           NEW d, d = SubSeq(buf, from + 1, to)
    PROVE  /\ d \in Seq(Bytes) /\ Len(d) = to - from /\ Len(d) \in Nat
           /\ Len(got) < Len(sent) => Begins(d, sent[Len(got) + 1])
           /\ Len(got) = Len(sent) => Len(d) = 0
  <1> DEFINE k == Len(got)
  <1>1. /\ buf \in Seq(Bytes) /\ from \in Nat /\ to \in Nat /\ parsed \in Nat
        /\ from <= to /\ to <= Len(buf)
        /\ tk = parsed + (to - from) /\ tk <= Len(wire)
        /\ \A x \in 1 .. to - from : buf[from + x] = wire[parsed + x]
    BY DEF Ready, Holds
  <1>2. SentIs /\ k \in Nat /\ k <= Len(sent) /\ parsed = Len(Before(sent, k))
    BY DEF Ready, Returned
  <1>3. Sendable(sent) /\ wire \in Seq(Bytes) /\ wire = Before(sent, Len(sent))
    BY <1>2, SentFacts
  <1>4. /\ d \in Seq(Bytes) /\ Len(d) = to - from
        /\ \A x \in 1 .. to - from : d[x] = buf[from + x]
    BY <1>1, PartIsSeq
  <1> HIDE DEF k
  <1>5. ASSUME k < Len(sent) PROVE Begins(d, sent[k + 1])
    <2>1. \A x \in 1 .. Len(Encode(sent[k + 1])) :
              wire[parsed + x] = Encode(sent[k + 1])[x]
      <3>1. \A x \in 1 .. Len(Encode(sent[k + 1])) :
                Stream(sent)[Len(Before(sent, k)) + x] = Encode(sent[k + 1])[x]
        BY <1>2, <1>3, <1>5, FrameIsThere
      <3> QED BY <1>2, <3>1, Zenon DEF SentIs
    <2>2. Len(Encode(sent[k + 1])) \in Nat
      BY <1>2, <1>3, <1>5, BeforeGrows
    <2> DEFINE e == Encode(sent[k + 1])
    <2> HIDE DEF e
    <2>3. \A x \in 1 .. Len(d) : x <= Len(e) => d[x] = e[x]
      <3> SUFFICES ASSUME NEW x \in 1 .. Len(d), x <= Len(e) PROVE d[x] = e[x]
        OBVIOUS
      <3>1. x \in 1 .. to - from /\ x \in 1 .. Len(e)
        BY <1>1, <1>4, <2>2 DEF e
      <3>2. wire[parsed + x] = e[x]
        BY <2>1, <3>1 DEF e
      <3> QED BY <1>1, <1>4, <3>1, <3>2
    <2> QED BY <2>3 DEF Begins, e
  <1>6. ASSUME k = Len(sent) PROVE Len(d) = 0
    BY <1>1, <1>2, <1>3, <1>4, <1>6
  <1>7. Len(d) \in Nat
    BY <1>4
  <1> QED BY <1>4, <1>5, <1>6, <1>7 DEF k

(* All of the next message is there, not all of it, or it is not what the  *)
(* call is for.                                                            *)
Complete(result, k, used) ==
    /\ k < Len(sent) /\ result = Decoded(FrameLength(k + 1), sent[k + 1])
    /\ used >= FrameLength(k + 1)

Lacking(k, used) == IF k < Len(sent) THEN used < FrameLength(k + 1) ELSE used = 0

Other(result, message, k) ==
    /\ result = Malformed /\ message = "legacy"
    /\ k < Len(sent) => sent[k + 1].type = "packet"

LEMMA ParseCases ==
    ASSUME NEW message, NEW buf, NEW from, NEW to, NEW tk,
           Ready(message, buf, from, to, tk),
           NEW d, d = SubSeq(buf, from + 1, to)
    PROVE  \/ Complete(Parse(message, d), Len(got), to - from)
           \/ Parse(message, d) = Incomplete /\ Lacking(Len(got), to - from)
           \/ Other(Parse(message, d), message, Len(got))
  <1> DEFINE k == Len(got)
             m == sent[k + 1]
             f == FrameLength(k + 1)
  <1>1. /\ d \in Seq(Bytes) /\ Len(d) = to - from /\ Len(d) \in Nat
        /\ k < Len(sent) => Begins(d, m)
        /\ k = Len(sent) => Len(d) = 0
    <2> DEFINE u == SubSeq(buf, from + 1, to)
    <2>1. /\ u \in Seq(Bytes) /\ Len(u) = to - from /\ Len(u) \in Nat
          /\ k < Len(sent) => Begins(u, m)
          /\ k = Len(sent) => Len(u) = 0
      BY UnparsedBegins
    <2>2. d = u
      OBVIOUS
    <2> HIDE DEF u, k, m
    <2> QED BY <2>1, <2>2
  <1>2. /\ SentIs /\ k \in Nat /\ k <= Len(sent)
        /\ message = IF legacy THEN "legacy" ELSE "packet"
        /\ legacy \in BOOLEAN /\ (legacy => k = 0)
        /\ (k < Len(sent) /\ m.type = "legacy" => legacy)
    BY Zenon DEF Ready, Returned, Due
  <1>3. Sendable(sent) /\ Len(sent) \in Nat
    BY <1>2, SentFacts
  <1> HIDE DEF k, m, f
  <1>4. CASE k < Len(sent)
    <2>1. m \in Messages /\ Encodable(m) /\ f = Len(Encode(m)) /\ f \in Nat
      BY <1>2, <1>3, <1>4, BeforeGrows DEF m, f, FrameLength
    <2>2. m.type \in {"packet", "legacy"}
      BY <2>1 DEF Messages
    <2>3. CASE m.type = "legacy"
      <3>1. Parse(message, d) = DecodeLegacy(d)
        BY <1>2, <1>4, <2>3 DEF Parse
      <3>2. DecodeLegacy(d) = IF Len(d) < f THEN Incomplete ELSE Decoded(f, m)
        BY <1>1, <1>4, <2>1, <2>3, LegacyDecodes
      <3>3. CASE Len(d) < f
        BY <1>1, <1>4, <3>1, <3>2, <3>3 DEF Lacking, k, f
      <3>4. CASE ~(Len(d) < f)
        <4>1. to - from >= f
          BY <1>1, <2>1, <3>4
        <4> QED BY <1>4, <3>1, <3>2, <3>4, <4>1 DEF Complete, k, f, m
      <3> QED BY <3>3, <3>4
    <2>4. CASE m.type = "packet" /\ message = "packet"
      <3>1. Parse(message, d) = DecodePacket(d)
        BY <2>4 DEF Parse
      <3>2. DecodePacket(d) = IF Len(d) < f THEN Incomplete ELSE Decoded(f, m)
        BY <1>1, <1>4, <2>1, <2>4, PacketDecodes
      <3>3. CASE Len(d) < f
        BY <1>1, <1>4, <3>1, <3>2, <3>3 DEF Lacking, k, f
      <3>4. CASE ~(Len(d) < f)
        <4>1. to - from >= f
          BY <1>1, <2>1, <3>4
        <4> QED BY <1>4, <3>1, <3>2, <3>4, <4>1 DEF Complete, k, f, m
      <3> QED BY <3>3, <3>4
    <2>5. CASE m.type = "packet" /\ message = "legacy"
      <3>1. Parse(message, d) = DecodeLegacy(d) /\ legacy
        BY <1>2, <2>5 DEF Parse
      <3>2. k = 0 /\ k + 1 = 1 /\ Len(sent) >= 1
        BY <1>2, <1>3, <1>4, <3>1
      <3>3. SubSeq(Encode(m), 1, 3) # LegacyHeader
        <4>1. m = sent[1]
          BY <3>2 DEF m
        <4> QED BY <1>2, <2>5, <3>2, <4>1, SentFacts
      <3>4. \/ DecodeLegacy(d) = Incomplete /\ Len(d) < f
            \/ DecodeLegacy(d) = Malformed
        BY <1>1, <1>4, <2>1, <2>5, <3>3, LegacyRefuses
      <3>5. CASE DecodeLegacy(d) = Incomplete /\ Len(d) < f
        BY <1>1, <1>4, <3>1, <3>5 DEF Lacking, k, f
      <3>6. CASE DecodeLegacy(d) = Malformed
        BY <2>5, <3>1, <3>6 DEF Other, k, m
      <3> QED BY <3>4, <3>5, <3>6
    <2> QED BY <1>2, <2>2, <2>3, <2>4, <2>5
  <1>5. CASE ~(k < Len(sent))
    <2>1. k = Len(sent) /\ Len(d) = 0
      BY <1>1, <1>2, <1>3, <1>5
    <2>2. Parse(message, d) = Incomplete
      BY <1>1, <2>1, NothingDecodes DEF Parse
    <2>3. Lacking(k, to - from)
      BY <1>1, <1>5, <2>1 DEF Lacking
    <2> QED BY <2>2, <2>3 DEF k
  <1> QED BY <1>4, <1>5

LEMMA KnownIs ==
    ASSUME NEW message, NEW buf, NEW from, NEW to, NEW tk,
           Ready(message, buf, from, to, tk),
           NEW d, d = SubSeq(buf, from + 1, to)
    PROVE  Known(IF message = "packet" /\ packet_length = Unknown /\ DecodeVarint(d).tag = "ok"
                 THEN DecodeVarint(d).value ELSE packet_length, Len(got))
  <1> DEFINE k == Len(got)
             m == sent[k + 1]
             new == message = "packet" /\ packet_length = Unknown /\ DecodeVarint(d).tag = "ok"
  <1>1. /\ d \in Seq(Bytes) /\ Len(d) \in Nat
        /\ k < Len(sent) => Begins(d, m)
        /\ k = Len(sent) => Len(d) = 0
    BY UnparsedBegins, Zenon
  <1>2. /\ SentIs /\ k \in Nat /\ k <= Len(sent)
        /\ message = IF legacy THEN "legacy" ELSE "packet"
        /\ (k < Len(sent) /\ m.type = "legacy" => legacy)
        /\ Known(packet_length, k)
    BY DEF Ready, Returned, Due
  <1>3. Sendable(sent) /\ Len(sent) \in Nat
    BY <1>2, SentFacts
  <1> HIDE DEF k, m
  <1>4. CASE ~new
    BY <1>2, <1>4 DEF k
  <1>5. CASE new
    <2>1. k < Len(sent)
      <3>1. k = Len(sent) => DecodeVarint(d) = Incomplete
        BY <1>1, NothingDecodes
      <3>2. DecodeVarint(d) # Incomplete
        BY <1>5 DEF Incomplete
      <3> QED BY <1>2, <1>3, <3>1, <3>2
    <2>2. m \in Messages /\ Encodable(m)
      BY <1>2, <1>3, <2>1, BeforeGrows DEF m
    <2>3. m.type = "packet"
      <3>1. m.type \in {"packet", "legacy"}
        BY <2>2 DEF Messages
      <3> QED BY <1>2, <1>5, <2>1, <3>1
    <2>4. \/ DecodeVarint(d) = Incomplete
          \/ DecodeVarint(d) = Decoded(Len(EncodeVarint(LengthOf(m))), LengthOf(m))
      BY <1>1, <2>1, <2>2, <2>3, PacketLengthDecodes
    <2>5. DecodeVarint(d).value = LengthOf(m)
      BY <1>5, <2>4 DEF Incomplete, Decoded
    <2>6. Known(LengthOf(m), k)
      BY <2>1, <2>3 DEF Known, m
    <2> QED BY <1>5, <2>5, <2>6 DEF k
  <1> QED BY <1>4, <1>5

-----------------------------------------------------------------------------
(* The sizes of the buffer. *)

LEMMA EmptyIsSeq ==
    ASSUME NEW size \in Nat
    PROVE  Empty(size) \in Seq(Bytes) /\ Len(Empty(size)) = size
  <1>1. [x \in 1 .. size |-> 0] \in [1 .. size -> Bytes]
    BY BytesAreNat
  <1> QED BY <1>1 DEF Empty

LEMMA TwoNumbers ==
    ASSUME NEW a \in Nat, NEW b \in Nat
    PROVE  /\ Min({a, b}) = IF a <= b THEN a ELSE b
           /\ Max({a, b}) = IF a >= b THEN a ELSE b
  <1>1. \E x \in {a, b} : \A y \in {a, b} : x <= y
    OBVIOUS
  <1>2. \E x \in {a, b} : \A y \in {a, b} : x >= y
    OBVIOUS
  <1>3. Min({a, b}) \in {a, b} /\ \A y \in {a, b} : Min({a, b}) <= y
    BY <1>1 DEF Min
  <1>4. Max({a, b}) \in {a, b} /\ \A y \in {a, b} : Max({a, b}) >= y
    BY <1>2 DEF Max
  <1> QED BY <1>3, <1>4

(* The new buffer, when there is little space in one of the first size or  *)
(* in one that begins with what is unparsed.                               *)
LEMMA NewSizeIs ==
    ASSUME NEW used \in Nat, NEW size \in Nat, NEW new, new = NewSize(used, size),
           used <= size, DEFAULT_BUFFER_SIZE <= size, size <= MAX_BUFFER_SIZE
    PROVE  /\ new \in Nat /\ DEFAULT_BUFFER_SIZE <= new /\ new <= MAX_BUFFER_SIZE
           /\ size = DEFAULT_BUFFER_SIZE => new = DEFAULT_BUFFER_SIZE \/ used > Limit
           /\ size = DEFAULT_BUFFER_SIZE \/ used > size - MIN_READ_SIZE =>
                  new >= used /\ (new = used => used = MAX_BUFFER_SIZE)
  <1> DEFINE D == DEFAULT_BUFFER_SIZE
             M == MAX_BUFFER_SIZE
             R == MIN_READ_SIZE
             half == size \div 2
             quarter == size \div 4
  <1>1. /\ D \in Nat /\ M \in Nat /\ R \in Nat /\ R >= 1 /\ 4 * R <= D /\ D <= M
        /\ Limit = D - R
    BY ReaderAssumption DEF Limit
  <1>2. half \in Nat /\ quarter \in Nat /\ half <= size /\ quarter >= R
    BY <1>1
  <1>3. new = IF used < size - quarter THEN Max({half, D})
              ELSE IF used > size - R THEN Min({2 * size, M}) ELSE size
    BY DEF NewSize
  <1>4. 2 * size \in Nat
    OBVIOUS
  <1>5. /\ Max({half, D}) = IF half >= D THEN half ELSE D
        /\ Min({2 * size, M}) = IF 2 * size <= M THEN 2 * size ELSE M
    <2> DEFINE twice == 2 * size
    <2> HIDE DEF D, M, half, twice
    <2>1. Max({half, D}) = IF half >= D THEN half ELSE D
      BY <1>1, <1>2, TwoNumbers
    <2>2. Min({twice, M}) = IF twice <= M THEN twice ELSE M
      <3>1. twice \in Nat
        BY <1>4 DEF twice
      <3> QED BY <1>1, <3>1, TwoNumbers
    <2> QED BY <2>1, <2>2, Zenon DEF twice
  <1> HIDE DEF D, M, R, half, quarter
  <1>6. DEFAULT_BUFFER_SIZE = D /\ MAX_BUFFER_SIZE = M /\ MIN_READ_SIZE = R
    BY DEF D, M, R
  <1>7. 2 * half <= size
    BY DEF half
  <1>8. CASE used < size - quarter
    <2>1. new = IF half >= D THEN half ELSE D
      BY <1>3, <1>5, <1>8
    <2>2. size = D => half < D
      BY <1>1, <1>2, <1>7
    <2>3. ~(used > size - R)
      BY <1>1, <1>2, <1>8
    <2> QED BY <1>1, <1>2, <1>6, <1>8, <2>1, <2>2, <2>3
  <1>9. CASE ~(used < size - quarter) /\ used > size - R
    <2>1. new = IF 2 * size <= M THEN 2 * size ELSE M
      BY <1>3, <1>5, <1>9
    <2> QED BY <1>1, <1>6, <1>9, <2>1
  <1>10. CASE ~(used < size - quarter) /\ ~(used > size - R)
    <2>1. new = size
      BY <1>3, <1>10
    <2> QED BY <1>1, <1>6, <1>10, <2>1
  <1> QED BY <1>8, <1>9, <1>10

LEMMA WantedIs ==
    ASSUME SentIs, NEW k \in Nat, NEW length, Known(length, k), NEW wanted,
           wanted = IF length = Unknown THEN MIN_READ_SIZE ELSE Min({MIN_READ_SIZE, length})
    PROVE  wanted \in Nat /\ wanted >= 1 /\ wanted <= MIN_READ_SIZE
  <1>1. MIN_READ_SIZE \in Nat /\ MIN_READ_SIZE >= 1
    BY ReaderAssumption
  <1>2. CASE length = Unknown
    BY <1>1, <1>2
  <1>3. CASE length # Unknown
    <2>1. k < Len(sent) /\ sent[k + 1].type = "packet" /\ length = LengthOf(sent[k + 1])
      BY <1>3 DEF Known
    <2>2. sent[k + 1] \in Messages /\ Encodable(sent[k + 1])
      BY <2>1, SentFacts, BeforeGrows
    <2>3. length \in Nat /\ length >= 1
      BY <2>1, <2>2, PacketIs DEF Fits
    <2> HIDE DEF Unknown
    <2>4. wanted = IF MIN_READ_SIZE <= length THEN MIN_READ_SIZE ELSE length
      BY <1>1, <1>3, <2>3, TwoNumbers
    <2> QED BY <1>1, <2>3, <2>4
  <1> QED BY <1>2, <1>3

-----------------------------------------------------------------------------
(* To compact a buffer keeps what it holds. *)
LEMMA CompactedHolds ==
    ASSUME NEW buf, NEW from, NEW to, NEW tk, NEW pr, NEW size \in Nat,
           Holds(buf, from, to, tk, pr), to - from <= size
    PROVE  /\ Holds(Compacted(buf, from, to, size), 0, to - from, tk, pr)
           /\ Len(Compacted(buf, from, to, size)) = size
  <1> DEFINE front == SubSeq(buf, from + 1, to)
             back == Empty(size - (to - from))
  <1>1. /\ front \in Seq(Bytes) /\ Len(front) = to - from
        /\ \A x \in 1 .. to - from : front[x] = buf[from + x]
    BY PartIsSeq DEF Holds
  <1>2. back \in Seq(Bytes) /\ Len(back) = size - (to - from)
    <2>1. size - (to - from) \in Nat
      BY DEF Holds
    <2> QED BY <2>1, EmptyIsSeq
  <1> HIDE DEF front, back
  <1>3. /\ front \o back \in Seq(Bytes) /\ Len(front \o back) = size
        /\ \A x \in 1 .. to - from : (front \o back)[x] = front[x]
    <2>1. Len(front) + Len(back) = size
      BY <1>1, <1>2 DEF Holds
    <2>2. /\ front \o back \in Seq(Bytes) /\ Len(front \o back) = Len(front) + Len(back)
          /\ \A x \in 1 .. Len(front) : (front \o back)[x] = front[x]
      BY <1>1, <1>2, JoinedIsSeq
    <2>3. Len(front) = to - from
      BY <1>1
    <2> QED BY <2>1, <2>2, <2>3, Zenon
  <1>4. Compacted(buf, from, to, size) = front \o back
    BY DEF Compacted, front, back
  <1> DEFINE new == front \o back
  <1> HIDE DEF new
  <1>5. /\ new \in Seq(Bytes) /\ Len(new) = size
        /\ \A x \in 1 .. to - from : new[0 + x] = buf[from + x]
    BY <1>1, <1>3 DEF new
  <1>6. Holds(new, 0, to - from, tk, pr)
    <2>1. /\ 0 \in Nat /\ to - from \in Nat /\ pr \in Nat /\ 0 <= to - from
          /\ (to - from) - 0 = to - from /\ tk = pr + (to - from) /\ tk <= Len(wire)
      BY DEF Holds
    <2>2. \A x \in 1 .. to - from : new[0 + x] = wire[pr + x]
      BY <1>5 DEF Holds
    <2>3. to - from <= Len(new)
      BY <1>5
    <2> QED BY <1>5, <2>1, <2>2, <2>3, Zenon DEF Holds
  <1> QED BY <1>4, <1>5, <1>6 DEF new

(* How a call ends up that has not got all of its message. *)
Waits(message) == reading' = message /\ legacy' = legacy /\ failed' = failed

ShrinkFails(k) ==
    /\ reading' = "no" /\ failed' = "shrink" /\ legacy' = legacy
    /\ ~Small(k)

Full(message, k) == Refuse(message, "full") /\ (Large(k, MAX_BUFFER_SIZE) \/ ~Small(k))

LEMMA AwaitCases ==
    ASSUME NEW message, NEW buf, NEW from, NEW to, NEW tk, NEW k \in Nat, NEW length,
           SentIs, Holds(buf, from, to, tk, parsed), Sized(buf, from, k), k <= Len(sent),
           Lacking(k, to - from), Known(length, k),
           Await(message, length, buf, from, to)
    PROVE  /\ Holds(data', i', j', tk, parsed)
           /\ Sized(data', i', k)
           /\ Waits(message) \/ ShrinkFails(k) \/ Full(message, k)
  <1> DEFINE used == to - from
             size == Len(buf)
             new == NewSize(used, size)
             wanted == IF length = Unknown THEN MIN_READ_SIZE ELSE Min({MIN_READ_SIZE, length})
             scarce == size - to < wanted
  <1>1. /\ used \in Nat /\ size \in Nat /\ to \in Nat /\ from \in Nat /\ to <= size
        /\ used <= size /\ (from = 0 => used = to)
    BY DEF Holds
  <1>2. wanted \in Nat /\ wanted >= 1 /\ wanted <= MIN_READ_SIZE
    BY WantedIs
  <1>3. DEFAULT_BUFFER_SIZE <= size /\ size <= MAX_BUFFER_SIZE
    BY DEF Sized
  <1>4. /\ new \in Nat /\ DEFAULT_BUFFER_SIZE <= new /\ new <= MAX_BUFFER_SIZE
        /\ size = DEFAULT_BUFFER_SIZE => new = DEFAULT_BUFFER_SIZE \/ used > Limit
        /\ size = DEFAULT_BUFFER_SIZE \/ used > size - MIN_READ_SIZE =>
               new >= used /\ (new = used => used = MAX_BUFFER_SIZE)
    BY <1>1, <1>3, NewSizeIs
  <1>5. IF scarce /\ new < used
        THEN /\ data' = buf /\ i' = from /\ j' = to
             /\ reading' = "no" /\ failed' = "shrink" /\ legacy' = legacy
        ELSE /\ data' = IF scarce THEN Compacted(buf, from, to, new) ELSE buf
             /\ i' = IF scarce THEN 0 ELSE from
             /\ j' = IF scarce THEN used ELSE to
             /\ IF j' < Len(data') THEN Waits(message) ELSE Refuse(message, "full")
    BY Zenon DEF Await, Waits
  <1>6. Len(sent) \in Nat /\ \A x \in Nat : x < Len(sent) => FrameLength(x + 1) \in Nat
    BY SentFacts, BeforeGrows DEF FrameLength
  <1>7. /\ DEFAULT_BUFFER_SIZE \in Nat /\ MAX_BUFFER_SIZE \in Nat /\ MIN_READ_SIZE \in Nat
        /\ Limit \in Nat /\ MAX_BUFFER_SIZE >= 1 /\ Limit >= 1
    BY ReaderAssumption DEF Limit
  <1>8. Small(k) => size = DEFAULT_BUFFER_SIZE \/ (from = 0 /\ Large(k, Limit))
    BY DEF Sized
  <1> HIDE DEF used, size, new, wanted
  <1>9. ASSUME NEW least \in Nat, least >= 0, used > least PROVE Large(k, least)
    <2>1. k < Len(sent) /\ used < FrameLength(k + 1)
      <3>1. IF k < Len(sent) THEN used < FrameLength(k + 1) ELSE used = 0
        BY Zenon DEF Lacking, used
      <3> QED BY <1>1, <1>9, <3>1
    <2>2. FrameLength(k + 1) \in Nat
      BY <1>6, <2>1
    <2> QED BY <1>1, <1>9, <2>1, <2>2 DEF Large
  <1>10. Small(k) /\ scarce => new >= used /\ (new = used => used = MAX_BUFFER_SIZE)
    <2> SUFFICES ASSUME Small(k), scarce
                 PROVE  new >= used /\ (new = used => used = MAX_BUFFER_SIZE)
      OBVIOUS
    <2>1. CASE size = DEFAULT_BUFFER_SIZE
      BY <1>4, <2>1
    <2>2. CASE from = 0
      <3>1. used > size - MIN_READ_SIZE
        BY <1>1, <1>2, <1>7, <2>2
      <3> QED BY <1>4, <3>1
    <2> QED BY <1>8, <2>1, <2>2
  <1>11. CASE ~scarce
    <2>1. data' = buf /\ i' = from /\ j' = to
      BY <1>5, <1>11
    <2>2. j' < Len(data')
      <3>1. to < size
        BY <1>1, <1>2, <1>11
      <3> QED BY <2>1, <3>1 DEF size
    <2>3. Waits(message)
      BY <1>5, <1>11, <2>2
    <2> QED BY <2>1, <2>3
  <1>12. CASE scarce /\ new < used
    <2>1. /\ data' = buf /\ i' = from /\ j' = to
          /\ reading' = "no" /\ failed' = "shrink" /\ legacy' = legacy
      BY <1>5, <1>12
    <2>2. ~Small(k)
      BY <1>1, <1>4, <1>10, <1>12
    <2> QED BY <2>1, <2>2 DEF ShrinkFails
  <1>13. CASE scarce /\ ~(new < used)
    <2>1. /\ data' = Compacted(buf, from, to, new) /\ i' = 0 /\ j' = used
          /\ IF j' < Len(data') THEN Waits(message) ELSE Refuse(message, "full")
      BY <1>5, <1>13
    <2>2. used <= new
      BY <1>1, <1>4, <1>13
    <2>3. Holds(data', i', j', tk, parsed) /\ Len(data') = new
      <3>1. to - from <= new
        BY <2>2 DEF used
      <3>2. /\ Holds(Compacted(buf, from, to, new), 0, to - from, tk, parsed)
            /\ Len(Compacted(buf, from, to, new)) = new
        BY <1>4, <3>1, CompactedHolds
      <3> QED BY <2>1, <3>2 DEF used
    <2>4. Sized(data', i', k)
      <3>1. Small(k) => new = DEFAULT_BUFFER_SIZE \/ Large(k, Limit)
        BY <1>4, <1>7, <1>8, <1>9
      <3> QED BY <1>4, <2>1, <2>3, <3>1 DEF Sized
    <2>5. Waits(message) \/ Full(message, k)
      <3>1. CASE j' < Len(data')
        BY <2>1, <3>1
      <3>2. CASE ~(j' < Len(data'))
        <4>1. new = used
          BY <1>1, <1>4, <2>1, <2>2, <2>3, <3>2
        <4>2. Small(k) => Large(k, MAX_BUFFER_SIZE)
          <5> SUFFICES ASSUME Small(k) PROVE Large(k, MAX_BUFFER_SIZE)
            OBVIOUS
          <5>1. used = MAX_BUFFER_SIZE
            BY <1>10, <1>13, <4>1
          <5>2. k < Len(sent) /\ used < FrameLength(k + 1)
            <6>1. IF k < Len(sent) THEN used < FrameLength(k + 1) ELSE used = 0
              BY Zenon DEF Lacking, used
            <6> QED BY <1>7, <5>1, <6>1
          <5>3. FrameLength(k + 1) \in Nat
            BY <1>6, <5>2
          <5> QED BY <1>7, <5>1, <5>2, <5>3 DEF Large
        <4> QED BY <2>1, <3>2, <4>2 DEF Full
      <3> QED BY <3>1, <3>2
    <2> QED BY <2>3, <2>4, <2>5
  <1> QED BY <1>11, <1>12, <1>13

-----------------------------------------------------------------------------
(* A call goes on up to its await or its end. *)

(* What the invariant says of the values once the call waits or has ended. *)
Settled(messages, pr, buf, from, to, tk, length, rd, lg, fl) ==
    /\ Returned(messages, pr)
    /\ Holds(buf, from, to, tk, pr)
    /\ Sized(buf, from, Len(messages))
    /\ Known(length, Len(messages))
    /\ Due(lg, Len(messages))
    /\ Turn(rd, lg, fl)
    /\ Excused(fl, Len(messages))

(* It is returned. *)
LEMMA CompleteSettles ==
    ASSUME NEW message, NEW buf, NEW from, NEW to, NEW tk,
           Ready(message, buf, from, to, tk),
           NEW result, Complete(result, Len(got), to - from),
           data' = buf, i' = from + result.consumed, j' = to,
           packet_length' = Unknown, reading' = "no", legacy' = FALSE, failed' = failed,
           got' = Append(got, result.value), parsed' = parsed + result.consumed
    PROVE  Settled(got', parsed', data', i', j', tk, packet_length', reading', legacy', failed')
  <1> DEFINE k == Len(got)
             m == sent[k + 1]
             f == FrameLength(k + 1)
  <1>1. /\ SentIs /\ k \in Nat /\ k <= Len(sent) /\ got = SubSeq(sent, 1, k)
        /\ parsed = Len(Before(sent, k)) /\ failed = "no"
        /\ Holds(buf, from, to, tk, parsed) /\ Sized(buf, from, k)
    BY Zenon DEF Ready, Returned
  <1>2. /\ k < Len(sent) /\ result.consumed = f /\ result.value = m /\ to - from >= f
    BY DEF Complete, Decoded
  <1>3. /\ Sendable(sent) /\ Len(sent) \in Nat /\ sent \in Seq(Messages)
        /\ DOMAIN sent = 1 .. Len(sent)
    BY <1>1, SentFacts
  <1>4. f \in Nat /\ f >= 1
    BY <1>1, <1>2, <1>3, BeforeGrows DEF FrameLength
  <1>5. Len(Before(sent, k + 1)) = Len(Before(sent, k)) + f
    BY <1>1, <1>2, <1>3, FrameIsThere DEF FrameLength
  <1>6. got' = SubSeq(sent, 1, k + 1) /\ Len(got') = k + 1
    <2>1. Append(SubSeq(sent, 1, k), sent[k + 1]) = SubSeq(sent, 1, k + 1)
      BY <1>1, <1>2, <1>3
    <2>2. Len(SubSeq(sent, 1, k + 1)) = k + 1
      BY <1>1, <1>2, <1>3, FirstMessages
    <2> HIDE DEF k
    <2> QED BY <1>1, <1>2, <2>1, <2>2
  <1> HIDE DEF k, m, f
  <1>7. Returned(got', parsed')
    <2>1. parsed' = Len(Before(sent, k + 1))
      BY <1>1, <1>2, <1>5
    <2>2. k + 1 \in Nat /\ k + 1 <= Len(sent)
      BY <1>1, <1>2, <1>3
    <2> QED BY <1>6, <2>1, <2>2, Zenon DEF Returned
  <1>8. Holds(data', i', j', tk, parsed')
    <2>1. /\ buf \in Seq(Bytes) /\ from \in Nat /\ to \in Nat /\ parsed \in Nat
          /\ from <= to /\ to <= Len(buf)
          /\ tk = parsed + (to - from) /\ tk <= Len(wire)
          /\ \A x \in 1 .. to - from : buf[from + x] = wire[parsed + x]
      BY <1>1 DEF Holds
    <2>2. /\ from + f \in Nat /\ parsed + f \in Nat /\ from + f <= to
          /\ tk = (parsed + f) + (to - (from + f))
      <3>1. /\ from \in Nat /\ to \in Nat /\ parsed \in Nat /\ f \in Nat
            /\ to - from >= f /\ tk = parsed + (to - from)
        BY <1>2, <1>4, <2>1
      <3>2. from + f \in Nat /\ parsed + f \in Nat /\ from + f <= to
        BY <3>1
      <3>3. parsed + (to - from) = (parsed + f) + (to - (from + f))
        BY <3>1
      <3> QED BY <3>1, <3>2, <3>3
    <2>3. \A x \in 1 .. to - (from + f) : buf[(from + f) + x] = wire[(parsed + f) + x]
      <3> TAKE x \in 1 .. to - (from + f)
      <3>1. /\ f + x \in 1 .. to - from
            /\ from + (f + x) = (from + f) + x /\ parsed + (f + x) = (parsed + f) + x
        BY <1>2, <1>4, <2>1
      <3>2. buf[from + (f + x)] = wire[parsed + (f + x)]
        BY <2>1, <3>1
      <3> QED BY <3>1, <3>2
    <2>4. i' = from + f /\ parsed' = parsed + f
      BY <1>2
    <2> QED BY <2>1, <2>2, <2>3, <2>4, Zenon DEF Holds
  <1>9. Sized(data', i', Len(got'))
    <2>1. DEFAULT_BUFFER_SIZE <= Len(buf) /\ Len(buf) <= MAX_BUFFER_SIZE
      BY <1>1 DEF Sized
    <2>2. ASSUME Small(k + 1) PROVE Len(buf) = DEFAULT_BUFFER_SIZE
      <3>1. Small(k) /\ f <= Limit
        <4>1. k + 1 \in 1 .. k + 1 /\ \A x \in 1 .. k : x \in 1 .. k + 1
          BY <1>1
        <4> QED BY <2>2, <4>1 DEF Small, f
      <3>2. ~Large(k, Limit)
        <4>1. Limit \in Int
          BY ReaderAssumption DEF Limit
        <4>2. ~(f > Limit)
          BY <1>4, <3>1, <4>1
        <4> QED BY <4>2 DEF Large, f
      <3> QED BY <1>1, <3>1, <3>2 DEF Sized
    <2> QED BY <1>6, <2>1, <2>2 DEF Sized
  <1>10. Known(packet_length', Len(got'))
    BY DEF Known
  <1>11. Due(legacy', Len(got'))
    <2> SUFFICES ASSUME k + 1 < Len(sent), sent[(k + 1) + 1].type = "legacy" PROVE FALSE
      BY <1>6 DEF Due
    <2>1. (k + 1) + 1 \in DOMAIN sent /\ (k + 1) + 1 # 1
      BY <1>1, <1>3
    <2> QED BY <1>1, <2>1 DEF SentIs
  <1>12. Turn(reading', legacy', failed')
    BY <1>1 DEF Turn
  <1>13. Excused(failed', Len(got'))
    BY <1>1 DEF Excused
  <1> QED BY <1>7, <1>8, <1>9, <1>10, <1>11, <1>12, <1>13 DEF Settled

(* More bytes are needed. *)
LEMMA LackingSettles ==
    ASSUME NEW message, NEW buf, NEW from, NEW to, NEW tk,
           Ready(message, buf, from, to, tk),
           Lacking(Len(got), to - from), NEW length, Known(length, Len(got)),
           Await(message, length, buf, from, to), packet_length' = length,
           got' = got, parsed' = parsed
    PROVE  Settled(got', parsed', data', i', j', tk, packet_length', reading', legacy', failed')
  <1> DEFINE k == Len(got)
  <1>1. /\ SentIs /\ k \in Nat /\ k <= Len(sent)
        /\ Returned(got, parsed) /\ failed = "no" /\ Due(legacy, k)
        /\ Holds(buf, from, to, tk, parsed) /\ Sized(buf, from, k)
        /\ message = IF legacy THEN "legacy" ELSE "packet"
    BY Zenon DEF Ready, Returned
  <1>2. /\ Holds(data', i', j', tk, parsed)
        /\ Sized(data', i', k)
        /\ Waits(message) \/ ShrinkFails(k) \/ Full(message, k)
    BY <1>1, AwaitCases
  <1>3. /\ legacy \in BOOLEAN /\ (legacy => k = 0)
        /\ (k < Len(sent) /\ sent[k + 1].type = "legacy" => legacy)
    BY <1>1 DEF Due
  <1>4. Len(got') = k
    OBVIOUS
  <1> HIDE DEF k
  <1>5. Returned(got', parsed')
    BY <1>1
  <1>6. Holds(data', i', j', tk, parsed')
    BY <1>2, Zenon
  <1>7. Sized(data', i', Len(got'))
    BY <1>2, <1>4
  <1>9. Known(packet_length', Len(got'))
    BY Zenon DEF k
  <1>10. /\ legacy' \in BOOLEAN /\ (legacy' => k = 0)
         /\ (k < Len(sent) /\ sent[k + 1].type = "legacy" => legacy')
         /\ Turn(reading', legacy', failed')
         /\ failed' \in {"full", "shrink"} => Large(k, MAX_BUFFER_SIZE) \/ ~Small(k)
    <2>1. CASE Waits(message)
      BY <1>1, <1>3, <2>1 DEF Waits, Turn
    <2>2. CASE ShrinkFails(k)
      BY <1>1, <1>3, <2>2 DEF ShrinkFails, Turn
    <2>3. CASE Full(message, k)
      <3>1. /\ reading' = "no" /\ legacy' = FALSE
            /\ failed' = (IF message = "legacy" THEN failed ELSE "full")
            /\ Large(k, MAX_BUFFER_SIZE) \/ ~Small(k)
        BY <2>3 DEF Full, Refuse
      <3>2. ~(k < Len(sent) /\ sent[k + 1].type = "legacy")
        <4> SUFFICES ASSUME k < Len(sent), sent[k + 1].type = "legacy" PROVE FALSE
          OBVIOUS
        <4>1. k = 0
          BY <1>3
        <4>2. Small(k)
          BY <4>1 DEF Small
        <4>3. FrameLength(k + 1) > MAX_BUFFER_SIZE
          BY <3>1, <4>2 DEF Large
        <4>4. sent[k + 1] \in Messages /\ Encodable(sent[k + 1])
          BY <1>1, SentFacts, BeforeGrows
        <4>5. FrameLength(k + 1) <= MAX_BUFFER_SIZE /\ FrameLength(k + 1) \in Nat
          BY <4>4, LegacyIs, FrameIsSeq DEF FrameLength
        <4> QED BY <4>3, <4>5, ReaderAssumption
      <3> QED BY <1>1, <3>1, <3>2 DEF Turn
    <2> QED BY <1>2, <2>1, <2>2, <2>3
  <1>11. Due(legacy', Len(got'))
    BY <1>4, <1>10, Zenon DEF Due
  <1>12. Turn(reading', legacy', failed')
    BY <1>10, Zenon
  <1>13. Excused(failed', Len(got'))
    BY <1>4, <1>10, Zenon DEF Excused
  <1> QED BY <1>5, <1>6, <1>7, <1>9, <1>11, <1>12, <1>13 DEF Settled

(* It is a packet, and the call was for a legacy ping. *)
LEMMA OtherSettles ==
    ASSUME NEW message, NEW buf, NEW from, NEW to, NEW tk,
           Ready(message, buf, from, to, tk),
           NEW result, Other(result, message, Len(got)),
           NEW length, Known(length, Len(got)), packet_length' = length,
           Refuse(message, "malformed"), data' = buf, i' = from, j' = to,
           got' = got, parsed' = parsed
    PROVE  Settled(got', parsed', data', i', j', tk, packet_length', reading', legacy', failed')
  <1>1. /\ SentIs /\ Returned(got, parsed) /\ failed = "no"
        /\ Holds(buf, from, to, tk, parsed) /\ Sized(buf, from, Len(got))
    BY Zenon DEF Ready
  <1>2. /\ reading' = "no" /\ legacy' = FALSE /\ failed' = failed
        /\ Len(got) < Len(sent) => sent[Len(got) + 1].type = "packet"
    BY DEF Refuse, Other
  <1>3. Returned(got', parsed')
    BY <1>1
  <1>4. Holds(data', i', j', tk, parsed')
    BY <1>1, Zenon
  <1>5. Sized(data', i', Len(got'))
    BY <1>1, Zenon
  <1>6. Known(packet_length', Len(got'))
    BY Zenon
  <1>7. Due(legacy', Len(got'))
    BY <1>2 DEF Due
  <1>8. Turn(reading', legacy', failed') /\ Excused(failed', Len(got'))
    BY <1>1, <1>2 DEF Turn, Excused
  <1> QED BY <1>3, <1>4, <1>5, <1>6, <1>7, <1>8 DEF Settled

LEMMA ProceedSettles ==
    ASSUME NEW message, NEW buf, NEW from, NEW to, NEW tk,
           Ready(message, buf, from, to, tk),
           Proceed(message, buf, from, to)
    PROVE  Settled(got', parsed', data', i', j', tk, packet_length', reading', legacy', failed')
  <1> DEFINE d == SubSeq(buf, from + 1, to)
             result == Parse(message, d)
             length == DecodeVarint(d)
             known == IF message = "packet" /\ packet_length = Unknown /\ length.tag = "ok"
                      THEN length.value ELSE packet_length
  <1>1. \/ Complete(result, Len(got), to - from)
        \/ result = Incomplete /\ Lacking(Len(got), to - from)
        \/ Other(result, message, Len(got))
    BY ParseCases
  <1>2. Known(known, Len(got))
    BY KnownIs
  <1>3. /\ result.tag = "incomplete" => /\ Await(message, known, buf, from, to)
                                        /\ packet_length' = known /\ UNCHANGED history
        /\ result.tag = "malformed" => /\ Refuse(message, "malformed")
                                       /\ data' = buf /\ i' = from /\ j' = to
                                       /\ packet_length' = known /\ UNCHANGED history
        /\ result.tag = "ok" => /\ data' = buf /\ i' = from + result.consumed /\ j' = to
                                /\ packet_length' = Unknown
                                /\ reading' = "no" /\ legacy' = FALSE
                                /\ got' = Append(got, result.value)
                                /\ parsed' = parsed + result.consumed
                                /\ UNCHANGED failed
    <2> HIDE DEF result, known
    <2> QED BY DEF Proceed, result, known
  <1> HIDE DEF result, known
  <1>4. CASE Complete(result, Len(got), to - from)
    <2>1. result.tag = "ok"
      BY <1>4 DEF Complete, Decoded
    <2> QED BY <1>3, <1>4, <2>1, CompleteSettles
  <1>5. CASE result = Incomplete /\ Lacking(Len(got), to - from)
    <2>1. result.tag = "incomplete"
      BY <1>5 DEF Incomplete
    <2>2. /\ Await(message, known, buf, from, to) /\ packet_length' = known
          /\ got' = got /\ parsed' = parsed
      BY <1>3, <2>1 DEF history
    <2> QED BY <1>2, <1>5, <2>2, LackingSettles
  <1>6. CASE Other(result, message, Len(got))
    <2>1. result.tag = "malformed"
      BY <1>6 DEF Other, Malformed
    <2>2. /\ Refuse(message, "malformed") /\ packet_length' = known
          /\ data' = buf /\ i' = from /\ j' = to
          /\ got' = got /\ parsed' = parsed
      BY <1>3, <2>1 DEF history
    <2> QED BY <1>2, <1>6, <2>2, OtherSettles
  <1> QED BY <1>1, <1>4, <1>5, <1>6

-----------------------------------------------------------------------------
(* What a read puts into the free space goes on where the buffer ends. *)
LEMMA FilledHolds ==
    ASSUME Holds(data, i, j, taken, parsed), wire \in Seq(Bytes),
           NEW count \in Nat, j + count <= Len(data), taken + count <= Len(wire)
    PROVE  /\ Holds(Filled(count), i, j + count, taken + count, parsed)
           /\ Len(Filled(count)) = Len(data)
  <1> DEFINE front == SubSeq(data, 1, j)
             middle == SubSeq(wire, taken + 1, taken + count)
             back == SubSeq(data, j + count + 1, Len(data))
  <1>0. /\ data \in Seq(Bytes) /\ i \in Nat /\ j \in Nat /\ parsed \in Nat
        /\ taken \in Nat /\ i <= j /\ j <= Len(data) /\ taken = parsed + (j - i)
    BY DEF Holds
  <1>1. /\ front \in Seq(Bytes) /\ Len(front) = j
        /\ \A x \in 1 .. j : front[x] = data[x]
    <2>1. SubSeq(data, 0 + 1, j) = front /\ j - 0 = j /\ \A x \in 1 .. j : 0 + x = x
      BY <1>0
    <2>2. /\ SubSeq(data, 0 + 1, j) \in Seq(Bytes) /\ Len(SubSeq(data, 0 + 1, j)) = j - 0
          /\ \A x \in 1 .. j - 0 : SubSeq(data, 0 + 1, j)[x] = data[0 + x]
      BY <1>0, PartIsSeq
    <2> HIDE DEF front
    <2> QED BY <2>1, <2>2
  <1>2. /\ middle \in Seq(Bytes) /\ Len(middle) = count
        /\ \A x \in 1 .. count : middle[x] = wire[taken + x]
    <2> DEFINE end == taken + count
    <2>1. end \in Nat /\ taken <= end /\ end <= Len(wire) /\ end - taken = count
      BY <1>0
    <2> HIDE DEF end
    <2>2. /\ SubSeq(wire, taken + 1, end) \in Seq(Bytes)
          /\ Len(SubSeq(wire, taken + 1, end)) = end - taken
          /\ \A x \in 1 .. end - taken : SubSeq(wire, taken + 1, end)[x] = wire[taken + x]
      BY <1>0, <2>1, PartIsSeq
    <2>3. SubSeq(wire, taken + 1, end) = middle
      BY DEF end
    <2> HIDE DEF middle
    <2> QED BY <2>1, <2>2, <2>3, Zenon
  <1>3. back \in Seq(Bytes) /\ Len(back) = Len(data) - (j + count)
    <2> DEFINE start == j + count
    <2>1. start \in Nat /\ Len(data) \in Nat /\ start <= Len(data)
      BY <1>0
    <2> HIDE DEF start
    <2>2. /\ SubSeq(data, start + 1, Len(data)) \in Seq(Bytes)
          /\ Len(SubSeq(data, start + 1, Len(data))) = Len(data) - start
      BY <1>0, <2>1, PartIsSeq
    <2>3. SubSeq(data, start + 1, Len(data)) = back
      BY DEF start
    <2> HIDE DEF back
    <2> QED BY <2>2, <2>3, Zenon DEF start
  <1> HIDE DEF front, middle, back
  <1>4. /\ (front \o middle) \o back \in Seq(Bytes)
        /\ Len((front \o middle) \o back) = Len(data)
        /\ \A x \in 1 .. j : ((front \o middle) \o back)[x] = front[x]
        /\ \A x \in 1 .. count : ((front \o middle) \o back)[j + x] = middle[x]
    <2>1. /\ front \o middle \in Seq(Bytes) /\ Len(front \o middle) = j + count
          /\ \A x \in 1 .. j : (front \o middle)[x] = front[x]
          /\ \A x \in 1 .. count : (front \o middle)[j + x] = middle[x]
      BY <1>0, <1>1, <1>2, JoinedIsSeq
    <2> DEFINE most == front \o middle
    <2> HIDE DEF most
    <2>2. /\ most \o back \in Seq(Bytes) /\ Len(most \o back) = Len(data)
          /\ \A x \in 1 .. j + count : (most \o back)[x] = most[x]
      <3>1. most \in Seq(Bytes) /\ Len(most) = j + count
        BY <2>1 DEF most
      <3>2. Len(most) + Len(back) = Len(data)
        BY <1>0, <1>3, <3>1
      <3> QED BY <1>3, <3>1, <3>2, JoinedIsSeq
    <2>3. \A x \in 1 .. j : x \in 1 .. j + count
      BY <1>0
    <2>4. \A x \in 1 .. count : j + x \in 1 .. j + count
      BY <1>0
    <2> DEFINE all == most \o back
    <2> HIDE DEF all
    <2>5. /\ all \in Seq(Bytes) /\ Len(all) = Len(data)
          /\ \A x \in 1 .. j : all[x] = front[x]
          /\ \A x \in 1 .. count : all[j + x] = middle[x]
      BY <2>1, <2>2, <2>3, <2>4, Zenon DEF most, all
    <2> QED BY <2>5 DEF most, all
  <1>5. Filled(count) = (front \o middle) \o back
    BY DEF Filled, front, middle, back, n
  <1> DEFINE buf == Filled(count)
  <1> HIDE DEF buf
  <1>6. /\ buf \in Seq(Bytes) /\ Len(buf) = Len(data)
        /\ \A x \in 1 .. j : buf[x] = data[x]
        /\ \A x \in 1 .. count : buf[j + x] = wire[taken + x]
    BY <1>0, <1>1, <1>2, <1>4, <1>5 DEF buf
  <1>7. \A x \in 1 .. (j + count) - i : buf[i + x] = wire[parsed + x]
    <2> TAKE x \in 1 .. (j + count) - i
    <2>1. CASE x <= j - i
      <3>1. i + x \in 1 .. j /\ x \in 1 .. j - i
        BY <1>0, <2>1
      <3>2. data[i + x] = wire[parsed + x]
        BY <3>1 DEF Holds
      <3> QED BY <1>6, <3>1, <3>2
    <2>2. CASE x > j - i
      <3> DEFINE y == x - (j - i)
      <3>1. y \in 1 .. count /\ i + x = j + y /\ parsed + x = taken + y
        BY <1>0, <2>2
      <3> QED BY <1>6, <3>1
    <2> QED BY <1>0, <2>1, <2>2
  <1>8. /\ j + count \in Nat /\ i <= j + count /\ j + count <= Len(buf)
        /\ taken + count = parsed + ((j + count) - i)
    BY <1>0, <1>6
  <1>9. Holds(buf, i, j + count, taken + count, parsed)
    BY <1>0, <1>6, <1>7, <1>8 DEF Holds
  <1> QED BY <1>6, <1>9 DEF buf

-----------------------------------------------------------------------------
LEMMA InitHolds == ASSUME Init PROVE Inv
  <1>1. DEFAULT_BUFFER_SIZE \in Nat /\ DEFAULT_BUFFER_SIZE <= MAX_BUFFER_SIZE
    BY ReaderAssumption
  <1>2. SentIs
    <2>1. \A x \in DOMAIN sent : sent[x].type = "legacy" => x = 1
      BY DEF Init
    <2> QED BY <2>1 DEF Init, SentIs
  <1>3. Sendable(sent) /\ wire \in Seq(Bytes) /\ Len(sent) \in Nat /\ DOMAIN sent = 1 .. Len(sent)
    BY <1>2, SentFacts
  <1>4. got = <<>> /\ parsed = 0 /\ Len(got) = 0
    BY DEF Init
  <1>5. Returned(got, parsed)
    <2>1. SubSeq(sent, 1, 0) = <<>>
      OBVIOUS
    <2>2. Before(sent, 0) = <<>> /\ Len(<<>>) = 0
      BY BeforeNothing
    <2> QED BY <1>3, <1>4, <2>1, <2>2 DEF Returned
  <1>6. data \in Seq(Bytes) /\ Len(data) = DEFAULT_BUFFER_SIZE
    BY <1>1, EmptyIsSeq DEF Init
  <1>7. Holds(data, i, j, taken, parsed)
    BY <1>1, <1>3, <1>6 DEF Init, Holds
  <1>8. Sized(data, i, Len(got))
    BY <1>1, <1>6 DEF Sized
  <1>9. Known(packet_length, Len(got))
    BY DEF Init, Known
  <1>10. Due(legacy, Len(got))
    <2>1. legacy \in BOOLEAN /\ \A x \in DOMAIN sent : sent[x].type = "legacy" => legacy
      BY DEF Init
    <2>2. 0 < Len(sent) => 0 + 1 \in DOMAIN sent
      BY <1>3
    <2> QED BY <1>4, <2>1, <2>2 DEF Due
  <1>11. Turn(reading, legacy, failed) /\ Excused(failed, Len(got))
    BY DEF Init, Turn, Excused
  <1> QED BY <1>2, <1>5, <1>7, <1>8, <1>9, <1>10, <1>11 DEF Inv

LEMMA SettledIsInv ==
    ASSUME SentIs, sent' = sent, wire' = wire,
           Settled(got', parsed', data', i', j', taken', packet_length', reading', legacy', failed')
    PROVE  Inv'
  <1>1. SentIs'
    BY Zenon DEF SentIs
  <1>2. Returned(got', parsed') => Returned(got, parsed)'
    BY Zenon DEF Returned, Before
  <1>3. Holds(data', i', j', taken', parsed') => Holds(data, i, j, taken, parsed)'
    BY Zenon DEF Holds
  <1>4. Sized(data', i', Len(got')) => Sized(data, i, Len(got))'
    BY Zenon DEF Sized, Small, Large, FrameLength, Limit
  <1>5. Known(packet_length', Len(got')) => Known(packet_length, Len(got))'
    BY Zenon DEF Known
  <1>6. Due(legacy', Len(got')) => Due(legacy, Len(got))'
    BY Zenon DEF Due
  <1>7. Turn(reading', legacy', failed') => Turn(reading, legacy, failed)'
    BY Zenon DEF Turn
  <1>8. Excused(failed', Len(got')) => Excused(failed, Len(got))'
    BY Zenon DEF Excused, Small, Large, FrameLength, Limit
  <1> QED BY <1>1, <1>2, <1>3, <1>4, <1>5, <1>6, <1>7, <1>8, Zenon DEF Settled, Inv

LEMMA NextKeeps == ASSUME Inv, [Next]_vars PROVE Inv'
  <1>1. CASE Call
    <2> DEFINE message == IF legacy THEN "legacy" ELSE "packet"
    <2>1. /\ failed = "no" /\ Proceed(message, data, i, j)
          /\ sent' = sent /\ wire' = wire /\ taken' = taken
      BY <1>1 DEF Call, MayCall, stream
    <2>2. Ready(message, data, i, j, taken)
      BY <2>1, Zenon DEF Inv, Ready
    <2> HIDE DEF message
    <2>3. Settled(got', parsed', data', i', j', taken, packet_length', reading', legacy', failed')
      BY <2>1, <2>2, ProceedSettles
    <2> QED BY <2>1, <2>3, SettledIsInv DEF Inv
  <1>2. ASSUME NEW count \in 1 .. MAX_BUFFER_SIZE, Fill(count)
        PROVE  Inv'
    <2>1. /\ reading # "no" /\ count \in 1 .. n - j /\ taken + count <= Len(wire)
          /\ taken' = taken + count /\ sent' = sent /\ wire' = wire
          /\ Proceed(reading, Filled(count), i, j + count)
      BY <1>2 DEF Fill, stream
    <2>2. count \in Nat /\ j + count <= Len(data) /\ wire \in Seq(Bytes)
      <3>1. j \in Nat /\ Len(data) \in Nat
        BY DEF Inv, Holds
      <3>2. n = Len(data)
        BY DEF n
      <3>3. wire \in Seq(Bytes)
        BY SentFacts DEF Inv
      <3> QED BY <2>1, <3>1, <3>2, <3>3
    <2> DEFINE buf == Filled(count)
    <2>3. Holds(buf, i, j + count, taken + count, parsed) /\ Len(buf) = Len(data)
      BY <2>1, <2>2, FilledHolds DEF Inv
    <2>4. Sized(buf, i, Len(got))
      <3>1. Sized(data, i, Len(got))
        BY DEF Inv
      <3> HIDE DEF buf
      <3> QED BY <2>3, <3>1 DEF Sized
    <2>5. reading = (IF legacy THEN "legacy" ELSE "packet") /\ failed = "no"
      BY <2>1 DEF Inv, Turn
    <2>6. Ready(reading, buf, i, j + count, taken + count)
      BY <2>3, <2>4, <2>5, Zenon DEF Inv, Ready
    <2>7. Settled(got', parsed', data', i', j', taken + count, packet_length', reading', legacy',
                  failed')
      BY <2>1, <2>6, ProceedSettles
    <2> QED BY <2>1, <2>7, SettledIsInv DEF Inv
  <1>3. CASE EndOfStream
    <2>1. /\ sent' = sent /\ wire' = wire /\ taken' = taken /\ data' = data /\ i' = i /\ j' = j
          /\ packet_length' = packet_length /\ legacy' = legacy /\ got' = got /\ parsed' = parsed
          /\ reading' = "no" /\ failed' = "reset"
      BY <1>3 DEF EndOfStream, stream, buffer, history
    <2>2. Turn(reading', legacy', failed') /\ Excused(failed', Len(got'))
      BY <2>1 DEF Turn, Excused
    <2> QED BY <2>1, <2>2, SettledIsInv, Zenon DEF Inv, Settled
  <1>4. CASE TimesOut
    <2>1. /\ sent' = sent /\ wire' = wire /\ taken' = taken /\ data' = data /\ i' = i /\ j' = j
          /\ packet_length' = packet_length /\ legacy' = legacy /\ got' = got /\ parsed' = parsed
          /\ reading' = "no" /\ failed' = failed
      BY <1>4 DEF TimesOut, stream, buffer, history
    <2>2. Turn(reading', legacy', failed')
      BY <2>1 DEF Inv, Turn
    <2> QED BY <2>1, <2>2, SettledIsInv, Zenon DEF Inv, Settled
  <1>5. CASE UNCHANGED vars
    <2>1. /\ sent' = sent /\ wire' = wire /\ taken' = taken /\ data' = data /\ i' = i /\ j' = j
          /\ packet_length' = packet_length /\ legacy' = legacy /\ got' = got /\ parsed' = parsed
          /\ reading' = reading /\ failed' = failed
      BY <1>5 DEF vars, stream, buffer, history
    <2> QED BY <2>1, SettledIsInv, Zenon DEF Inv, Settled
  <1> QED BY <1>1, <1>2, <1>3, <1>4, <1>5 DEF Next

LEMMA InvIsKept == Spec => []Inv
  <1>1. Init => Inv
    BY InitHolds
  <1>2. Inv /\ [Next]_vars => Inv'
    BY NextKeeps
  <1> QED BY <1>1, <1>2, PTL DEF Spec

-----------------------------------------------------------------------------
LEMMA FirstAre ==
    ASSUME Inv
    PROVE  /\ got \in Seq(Messages) /\ DOMAIN got = 1 .. Len(got) /\ Len(got) \in Nat
           /\ FirstOnes
  <1>1. /\ SentIs /\ got = SubSeq(sent, 1, Len(got)) /\ Len(got) \in Nat
        /\ Len(got) <= Len(sent) /\ parsed = Len(Before(sent, Len(got)))
    BY DEF Inv, Returned
  <1>2. got \in Seq(Messages)
    <2> DEFINE t == SubSeq(sent, 1, Len(got))
    <2>1. t \in Seq(Messages)
      BY <1>1, SentFacts, FirstMessages DEF Sendable
    <2>2. got = t
      BY <1>1
    <2> HIDE DEF t
    <2> QED BY <2>1, <2>2
  <1>3. Before(sent, Len(got)) = Stream(got)
    BY <1>1, Zenon DEF Before
  <1>4. FirstOnes
    BY <1>1, <1>3, Zenon DEF FirstOnes
  <1> QED BY <1>1, <1>2, <1>4

(* Every reachable state is well typed: the buffer holds bytes, and its    *)
(* indices are in order and within it, for any sizes and messages.         *)
THEOREM TypeCorrect == Spec => []TypeOK
  <1>1. Inv => TypeOK
    <2> SUFFICES ASSUME Inv PROVE TypeOK
      OBVIOUS
    <2>1. sent \in Sent /\ wire \in Seq(Bytes)
      BY SentFacts DEF Inv, SentIs
    <2>2. /\ taken \in Nat /\ data \in Seq(Bytes) /\ i \in Nat /\ j \in Nat
          /\ i <= j /\ j <= n /\ parsed \in Nat
      BY DEF Inv, Holds, n
    <2>3. packet_length \in Int
      <3>1. CASE packet_length = Unknown
        BY <3>1 DEF Unknown
      <3>2. CASE packet_length # Unknown
        <4> DEFINE k == Len(got)
        <4>1. /\ k < Len(sent) /\ sent[k + 1].type = "packet"
              /\ packet_length = LengthOf(sent[k + 1]) /\ k \in Nat
          BY <3>2, Zenon DEF Inv, Known, Returned
        <4>2. sent[k + 1] \in Messages /\ Encodable(sent[k + 1])
          BY <4>1, SentFacts, BeforeGrows DEF Inv
        <4> QED BY <4>1, <4>2, PacketIs DEF Fits
      <3> QED BY <3>1, <3>2
    <2>4. got \in Seq(Messages)
      BY FirstAre
    <2>5. /\ reading \in {"no", "legacy", "packet"} /\ legacy \in BOOLEAN
          /\ failed \in {"no", "reset", "full", "shrink", "malformed"}
      BY DEF Inv, Turn, Due
    <2> QED BY <2>1, <2>2, <2>3, <2>4, <2>5, Zenon DEF TypeOK
  <1> QED BY <1>1, InvIsKept, PTL

(* Whatever times out, however the stream is divided into reads and        *)
(* whenever _allocate_buffer moves the bytes: the messages returned are    *)
(* the first ones sent, and the unparsed bytes those that follow them.     *)
THEOREM NothingIsLost == Spec => []NothingLost
  <1>1. Inv => NothingLost
    <2> SUFFICES ASSUME Inv PROVE NothingLost
      OBVIOUS
    <2>1. BytesKept
      BY DEF Inv, Holds, BytesKept
    <2> QED BY <2>1, FirstAre DEF NothingLost
  <1> QED BY <1>1, InvIsKept, PTL

(* The reader gives up only for a message that does not fit into the       *)
(* largest buffer, or after one that made the buffer grow.                 *)
THEOREM FailsOnlyWhenFull == Spec => []FailsWhenFull
  <1>1. Inv => FailsWhenFull
    <2> SUFFICES ASSUME Inv, failed \in {"full", "shrink"}
                 PROVE  \/ FrameLength(Len(got) + 1) > MAX_BUFFER_SIZE
                        \/ \E x \in DOMAIN got :
                               FrameLength(x) > DEFAULT_BUFFER_SIZE - MIN_READ_SIZE
      BY DEF FailsWhenFull
    <2> DEFINE k == Len(got)
    <2>1. Large(k, MAX_BUFFER_SIZE) \/ ~Small(k)
      BY DEF Inv, Excused
    <2>2. CASE Large(k, MAX_BUFFER_SIZE)
      BY <2>2 DEF Large
    <2>3. CASE ~Small(k)
      <3>1. PICK x \in 1 .. k : ~(FrameLength(x) <= Limit)
        BY <2>3 DEF Small
      <3>2. x \in DOMAIN got
        BY <3>1, FirstAre
      <3>3. FrameLength(x) \in Nat /\ Limit \in Int
        <4> DEFINE y == x - 1
        <4>1. y \in Nat /\ y + 1 = x /\ y < Len(sent) /\ SentIs
          BY <3>1, SentFacts DEF Inv, Returned
        <4> HIDE DEF y
        <4>2. Len(Encode(sent[y + 1])) \in Nat
          BY <4>1, SentFacts, BeforeGrows
        <4> QED BY <4>1, <4>2, ReaderAssumption DEF FrameLength, Limit
      <3>4. FrameLength(x) > Limit
        BY <3>1, <3>3
      <3> QED BY <3>2, <3>4, Zenon DEF Limit
    <2> QED BY <2>1, <2>2, <2>3
  <1> QED BY <1>1, InvIsKept, PTL

(* What PacketWriter encodes is never refused as malformed, unless it was  *)
(* tried as a legacy ping.                                                 *)
THEOREM NeverMalformed == Spec => [](failed # "malformed")
  <1>1. Inv => failed # "malformed"
    BY DEF Inv, Turn
  <1> QED BY <1>1, InvIsKept, PTL
=============================================================================
