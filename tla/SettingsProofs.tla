---------------------------- MODULE SettingsProofs ----------------------------
(***************************************************************************)
(* The configuration and the printing of numbers, proved for every text,   *)
(* every width of a word and every default.  What a recursive function     *)
(* computes is proved by induction on a set of numbers: one that holds 0   *)
(* and the successor of each of its elements holds them all.               *)
(***************************************************************************)
EXTENDS Settings, FiniteSetTheorems, TLAPS

(* A set of natural numbers has a least element. *)
LEMMA LeastNumber ==
  ASSUME NEW T, T \subseteq Nat, T # {}
  PROVE  \E x \in T : \A y \in T : x <= y
<1>1. PICK x \in T : \A y \in T : <<y, x>> \notin OpToRel(<, Nat)
  BY WFMin, NatLessThanWellFounded, Zenon
<1>2. \A y \in T : ~(y < x)
  BY <1>1, Zenon DEF OpToRel
<1>3. QED
  BY <1>2

(* A set that holds 0 and the successor of each of its numbers holds them  *)
(* all.                                                                    *)
LEMMA Induction ==
  ASSUME NEW S, 0 \in S, \A n \in Nat : n \in S => n + 1 \in S
  PROVE  Nat \subseteq S
<1>1. SUFFICES ASSUME Nat \ S # {} PROVE FALSE
  OBVIOUS
<1>2. PICK x \in Nat \ S : \A y \in Nat \ S : x <= y
  BY <1>1, LeastNumber
<1>3. x # 0 /\ x - 1 \in Nat /\ x - 1 \in S
  BY <1>2
<1>4. QED
  BY <1>2, <1>3

(* f runs from 0 to n, and each value but the first follows from the one   *)
(* before it.                                                              *)
Recurs(f, n, S, start, step) ==
  /\ f \in [0..n -> S]
  /\ f[0] = start
  /\ \A k \in 1..n : f[k] = step[<<k, f[k - 1]>>]

(* A set that holds a number if it holds those below it holds them all. *)
LEMMA StrongInduction ==
  ASSUME NEW S, \A n \in Nat : (\A m \in 0..(n - 1) : m \in S) => n \in S
  PROVE  Nat \subseteq S
<1>1. SUFFICES ASSUME Nat \ S # {} PROVE FALSE
  OBVIOUS
<1>2. PICK x \in Nat \ S : \A y \in Nat \ S : x <= y
  BY <1>1, LeastNumber
<1>3. \A m \in 0..(x - 1) : m \in S
  BY <1>2
<1>4. QED
  BY <1>2, <1>3

(* A function defined from 0 to n by what it is at 0 and by a step exists. *)
LEMMA Recursion ==
  ASSUME NEW S, NEW start \in S, NEW n \in Nat, NEW step \in [(1..n) \X S -> S]
  PROVE  \E f : Recurs(f, n, S, start, step)
<1> DEFINE Good(f, m) == /\ f \in [0..m -> S]
                         /\ f[0] = start
                         /\ \A k \in 1..m : f[k] = step[<<k, f[k - 1]>>]
           G == {m \in Nat : m <= n => \E f \in [0..m -> S] : Good(f, m)}
<1>1. 0 \in G
  <2> DEFINE g == [k \in 0..0 |-> start]
  <2>1. g \in [0..0 -> S] /\ Good(g, 0)
    OBVIOUS
  <2>2. \E f \in [0..0 -> S] : Good(f, 0)
    BY <2>1
  <2>3. QED
    BY <2>2
<1>2. ASSUME NEW m \in Nat, m \in G PROVE m + 1 \in G
  <2>1. SUFFICES ASSUME m + 1 <= n PROVE \E f \in [0..(m + 1) -> S] : Good(f, m + 1)
    OBVIOUS
  <2>2. PICK f \in [0..m -> S] : Good(f, m)
    BY <1>2, <2>1
  <2>3. DEFINE g == [k \in 0..(m + 1) |-> IF k <= m THEN f[k] ELSE step[<<k, f[m]>>]]
  <2>4. f[m] \in S /\ step[<<m + 1, f[m]>>] \in S
    BY <2>1, <2>2
  <2>5. g \in [0..(m + 1) -> S]
    BY <2>2, <2>4
  <2>6. g[0] = start
    BY <2>2
  <2>7. \A k \in 1..(m + 1) : g[k] = step[<<k, g[k - 1]>>]
    BY <2>2
  <2>8. QED
    BY <2>5, <2>6, <2>7
<1>3. n \in G
  <2>1. \A m \in Nat : m \in G => m + 1 \in G
    BY <1>2
  <2>2. HIDE DEF G
  <2>3. QED
    BY <1>1, <2>1, Induction
<1>4. PICK f \in [0..n -> S] : Good(f, n)
  BY <1>3
<1>5. QED
  BY <1>4 DEF Recurs

(* f and g agree at 0, and at each k if they agree at k - 1. *)
Alike(f, g, n) ==
  /\ f[0] = g[0]
  /\ \A k \in 1..n : f[k - 1] = g[k - 1] => f[k] = g[k]

(* Then they agree on 0..n. *)
LEMMA Agreement ==
  ASSUME NEW n \in Nat, NEW f, NEW g, Alike(f, g, n)
  PROVE  \A k \in 0..n : f[k] = g[k]
<1> DEFINE G == {k \in Nat : k <= n => f[k] = g[k]}
<1>1. 0 \in G
  BY DEF Alike
<1>2. \A k \in Nat : k \in G => k + 1 \in G
  <2>1. ASSUME NEW k \in Nat, k + 1 <= n, f[k] = g[k] PROVE f[k + 1] = g[k + 1]
    <3>1. k + 1 \in 1..n /\ (k + 1) - 1 = k
      BY <2>1
    <3>2. QED
      BY <2>1, <3>1 DEF Alike
  <2>2. QED
    BY <2>1
<1>3. Nat \subseteq G
  <2>1. HIDE DEF G
  <2>2. QED
    BY <1>1, <1>2, Induction
<1>4. QED
  BY <1>3
-----------------------------------------------------------------------------
(* Powers of two, as the numbers of subsets. *)

(* A set of n elements has 2^n subsets. *)
LEMMA PowerIsCount ==
  ASSUME NEW n \in Nat
  PROVE  /\ IsFiniteSet(SUBSET (1..n))
         /\ 2 ^ n = Cardinality(SUBSET (1..n))
<1>1. IsFiniteSet(1..n) /\ Cardinality(1..n) = n
  BY FS_Interval
<1>2. QED
  BY <1>1, FS_SUBSET, Zenon

(* A power of two is a positive number. *)
LEMMA PowerType ==
  ASSUME NEW n \in Nat
  PROVE  2 ^ n \in Nat \ {0}
<1>1. IsFiniteSet(SUBSET (1..n)) /\ SUBSET (1..n) # {}
  BY PowerIsCount
<1>2. Cardinality(SUBSET (1..n)) \in Nat /\ Cardinality(SUBSET (1..n)) # 0
  BY <1>1, FS_CardinalityType, FS_EmptySet
<1>3. QED
  BY <1>2, PowerIsCount

(* Every subset of 1..n occurs twice in those of 1..(n + 1). *)
LEMMA PowerDoubles ==
  ASSUME NEW n \in Nat
  PROVE  2 ^ (n + 1) = 2 * 2 ^ n
<1> DEFINE A == SUBSET (1..n)
           B == {s \in SUBSET (1..(n + 1)) : n + 1 \in s}
           f == [s \in A |-> s \cup {n + 1}]
<1>1. IsFiniteSet(A) /\ 2 ^ n = Cardinality(A)
  BY PowerIsCount
<1>2. f \in Bijection(A, B)
  <2>1. f \in [A -> B]
    OBVIOUS
  <2>2. \A s, r \in A : f[s] = f[r] => s = r
    <3>1. ASSUME NEW s \in A, NEW r \in A, f[s] = f[r], NEW x \in s PROVE x \in r
      BY <3>1
    <3>2. QED
      BY <3>1
  <2>3. \A b \in B : \E s \in A : f[s] = b
    <3>1. ASSUME NEW b \in B PROVE b \ {n + 1} \in A /\ f[b \ {n + 1}] = b
      OBVIOUS
    <3>2. QED
      BY <3>1
  <2>4. QED
    BY <2>1, <2>2, <2>3 DEF Bijection, Injection, Surjection, IsInjective
<1>3. IsFiniteSet(B) /\ Cardinality(B) = Cardinality(A)
  BY <1>1, <1>2, FS_Bijection DEF ExistsBijection
<1>4. SUBSET (1..(n + 1)) = A \cup B /\ A \cap B = {}
  OBVIOUS
<1>5. Cardinality(A \cup B) = Cardinality(A) + Cardinality(B) - Cardinality(A \cap B)
  BY <1>1, <1>3, FS_Union
<1>6. 2 ^ (n + 1) = Cardinality(A \cup B)
  <2>1. n + 1 \in Nat
    OBVIOUS
  <2>2. 2 ^ (n + 1) = Cardinality(SUBSET (1..(n + 1)))
    BY <2>1, PowerIsCount
  <2>3. QED
    BY <1>4, <2>2
<1>7. Cardinality(A \cap B) = 0
  BY <1>4, FS_EmptySet
<1>8. Cardinality(A) \in Nat
  BY <1>1, FS_CardinalityType
<1>9. QED
  BY <1>1, <1>3, <1>5, <1>6, <1>7, <1>8

(* The powers of two grow. *)
LEMMA PowersGrow ==
  ASSUME NEW m \in Nat, NEW n \in Nat, m <= n
  PROVE  2 ^ m <= 2 ^ n
<1> DEFINE G == {d \in Nat : 2 ^ m <= 2 ^ (m + d)}
<1>1. 0 \in G
  <2>1. 2 ^ m \in Nat /\ m + 0 = m
    BY PowerType
  <2>2. 2 ^ m <= 2 ^ m
    BY <2>1
  <2>3. QED
    BY <2>1, <2>2
<1>2. \A d \in Nat : d \in G => d + 1 \in G
  <2>1. ASSUME NEW d \in Nat, 2 ^ m <= 2 ^ (m + d) PROVE 2 ^ m <= 2 ^ (m + (d + 1))
    <3>1. m + d \in Nat /\ m + (d + 1) = (m + d) + 1
      OBVIOUS
    <3>2. 2 ^ m \in Nat /\ 2 ^ (m + d) \in Nat /\ 2 ^ ((m + d) + 1) = 2 * 2 ^ (m + d)
      BY <3>1, PowerType, PowerDoubles
    <3>3. 2 ^ m <= 2 ^ ((m + d) + 1)
      BY <2>1, <3>2
    <3>4. QED
      BY <3>1, <3>3
  <2>2. QED
    BY <2>1
<1>3. n - m \in G
  <2>1. n - m \in Nat
    OBVIOUS
  <2> HIDE DEF G
  <2>2. QED
    BY <1>1, <1>2, <2>1, Induction
<1>4. 2 ^ m <= 2 ^ (m + (n - m)) /\ m + (n - m) = n
  BY <1>3
<1>5. QED
  BY <1>4

(* The largest word. *)
LEMMA MaxWordIs ==
  /\ MaxWord \in Nat \ {0}
  /\ 2 ^ Bits = MaxWord + 1
  /\ 2 ^ (Bits - 1) \in 1..MaxWord
<1>1. Bits \in Nat /\ Bits - 1 \in Nat /\ (Bits - 1) + 1 = Bits
  BY SettingsAssumption
<1>2. 2 ^ Bits \in Nat \ {0} /\ 2 ^ (Bits - 1) \in Nat \ {0} /\ 2 ^ ((Bits - 1) + 1) = 2 * 2 ^ (Bits - 1)
  BY <1>1, PowerType, PowerDoubles
<1>3. 2 ^ Bits = 2 * 2 ^ (Bits - 1)
  BY <1>1, <1>2
<1>4. QED
  BY <1>2, <1>3 DEF MaxWord

(* The number of bits of a word is well defined. *)
LEMMA BitLengthIs ==
  ASSUME NEW x \in 0..MaxWord
  PROVE  /\ BitLength(x) \in 0..Bits
         /\ x < 2 ^ BitLength(x)
         /\ \A m \in 0..(BitLength(x) - 1) : x >= 2 ^ m
<1> DEFINE T == {n \in 0..Bits : x < 2 ^ n}
<1>1. Bits \in T /\ T \subseteq Nat
  BY MaxWordIs, SettingsAssumption
<1>2. PICK n \in T : \A y \in T : n <= y
  <2> HIDE DEF T
  <2>1. QED
    BY <1>1, LeastNumber
<1>3. \A m \in 0..(n - 1) : x >= 2 ^ m
  <2>1. ASSUME NEW m \in 0..(n - 1) PROVE x >= 2 ^ m
    <3>1. m \in 0..Bits /\ m \notin T /\ m \in Nat
      BY <1>2, SettingsAssumption
    <3>2. 2 ^ m \in Nat
      BY <3>1, PowerType
    <3>3. ~(x < 2 ^ m)
      BY <3>1
    <3>4. x \in Nat
      BY MaxWordIs
    <3>5. QED
      BY <3>2, <3>3, <3>4
  <2>2. QED
    BY <2>1
<1>4. \E k \in 0..Bits : x < 2 ^ k /\ \A m \in 0..(k - 1) : x >= 2 ^ m
  BY <1>2, <1>3
<1>5. QED
  BY <1>4, Zenon DEF BitLength

(* Rounded up to a power of two, a number that is at most half the range   *)
(* of a word becomes the least power of two that is not less.              *)
LEMMA NextPow2Is ==
  ASSUME NEW x \in 0..MaxWord
  PROVE  /\ NextPow2(x) \in 1..MaxWord
         /\ x \in 1..(2 ^ (Bits - 1)) => NextPow2(x) = Least({p \in Powers : p >= x})
<1>1. Bits \in Nat \ {0} /\ x \in Nat /\ Bits - 1 \in Nat
  BY SettingsAssumption, MaxWordIs
<1>2. \A b \in 0..(Bits - 1) : 2 ^ b \in 1..MaxWord
  <2>1. ASSUME NEW b \in 0..(Bits - 1) PROVE 2 ^ b \in 1..MaxWord
    <3>1. b \in Nat /\ b <= Bits - 1
      BY <1>1
    <3>2. 2 ^ b \in Nat \ {0} /\ 2 ^ b <= 2 ^ (Bits - 1)
      BY <1>1, <3>1, PowerType, PowersGrow
    <3>3. QED
      BY <3>2, MaxWordIs
  <2>2. QED
    BY <2>1
<1>3. ASSUME NEW S, NEW n \in S, S \subseteq Nat, \A m \in S : n <= m PROVE Least(S) = n
  <2>1. Least(S) \in S /\ \A m \in S : Least(S) <= m
    BY <1>3, Zenon DEF Least
  <2>2. PICK l : l = Least(S)
    OBVIOUS
  <2>3. l \in Nat /\ n \in Nat /\ l <= n /\ n <= l
    BY <1>3, <2>1, <2>2
  <2>4. QED
    BY <2>2, <2>3
<1>4. CASE x <= 1
  <2>1. NextPow2(x) = 1
    BY <1>4 DEF NextPow2
  <2>2. 2 ^ 0 = 1
    OBVIOUS
  <2>3. ASSUME x \in 1..(2 ^ (Bits - 1)) PROVE Least({p \in Powers : p >= x}) = 1
    <3> DEFINE S == {p \in Powers : p >= x}
    <3>1. 1 \in S
      <4>1. 0 \in 0..(Bits - 1)
        BY <1>1
      <4>2. 2 ^ 0 \in Powers
        BY <4>1, Zenon DEF Powers
      <4>3. QED
        BY <1>1, <1>4, <2>2, <4>2
    <3>2. \A p \in S : p \in 1..MaxWord
      BY <1>2 DEF Powers
    <3>3. S \subseteq Nat /\ \A p \in S : 1 <= p
      BY <3>2
    <3> HIDE DEF S
    <3>4. Least(S) = 1
      BY <1>3, <3>1, <3>3
    <3>5. QED
      BY <3>4 DEF S
  <2>4. QED
    BY <2>1, <2>3, MaxWordIs
<1>5. CASE x > 1
  <2> DEFINE b == BitLength(x - 1)
  <2>1. x - 1 \in 0..MaxWord /\ x - 1 \in Nat
    BY <1>1, <1>5, MaxWordIs
  <2>2. b \in 0..Bits /\ x - 1 < 2 ^ b /\ \A m \in 0..(b - 1) : x - 1 >= 2 ^ m
    BY <2>1, BitLengthIs
  <2> HIDE DEF b
  <2>3. NextPow2(x) = 2 ^ (b % Bits)
    BY <1>1, <1>5 DEF NextPow2, b
  <2>4. b % Bits \in 0..(Bits - 1)
    BY <1>1, <2>2
  <2>5. NextPow2(x) \in 1..MaxWord
    BY <1>2, <2>3, <2>4
  <2>6. ASSUME x \in 1..(2 ^ (Bits - 1)) PROVE NextPow2(x) = Least({p \in Powers : p >= x})
    <3> DEFINE S == {p \in Powers : p >= x}
    <3>1. b <= Bits - 1
      <4>1. SUFFICES ASSUME b = Bits PROVE FALSE
        BY <1>1, <2>2
      <4>2. x - 1 >= 2 ^ (Bits - 1)
        BY <1>1, <2>2, <4>1
      <4>3. QED
        BY <1>1, <2>6, <4>2, MaxWordIs
    <3>2. b \in 0..(Bits - 1) /\ b % Bits = b
      BY <1>1, <2>2, <3>1
    <3>3. 2 ^ b \in S
      <4>1. 2 ^ b \in 1..MaxWord /\ 2 ^ b \in Powers
        BY <1>2, <3>2 DEF Powers
      <4>2. QED
        BY <1>1, <2>2, <4>1, MaxWordIs
    <3>4. ASSUME NEW p \in S PROVE p \in Nat /\ 2 ^ b <= p
      <4>1. PICK m \in 0..(Bits - 1) : p = 2 ^ m
        BY DEF Powers
      <4>2. p \in 1..MaxWord /\ p >= x /\ m \in Nat /\ b \in Nat
        BY <1>1, <1>2, <3>2, <4>1
      <4>3. ~(m <= b - 1)
        <5>1. SUFFICES ASSUME m <= b - 1 PROVE FALSE
          OBVIOUS
        <5>2. x - 1 >= p
          BY <2>2, <4>1, <4>2, <5>1
        <5>3. QED
          BY <1>1, <4>2, <5>2, MaxWordIs
      <4>4. b <= m
        BY <4>2, <4>3
      <4>5. QED
        BY <4>1, <4>2, <4>4, PowersGrow, MaxWordIs
    <3>5. S \subseteq Nat /\ \A p \in S : 2 ^ b <= p
      BY <3>4
    <3> HIDE DEF S
    <3>6. Least(S) = 2 ^ b
      BY <1>3, <3>3, <3>5
    <3>7. QED
      BY <2>3, <3>2, <3>6 DEF S
  <2>7. QED
    BY <2>5, <2>6
<1>6. QED
  BY <1>1, <1>4, <1>5
-----------------------------------------------------------------------------
(* Numerals. *)

(* f is the function that Number defines. *)
IsValue(f, base, digits, n) ==
  f = [k \in 0..n |-> IF k = 0 THEN 0 ELSE base * f[k - 1] + digits[k]]

(* There is such a function. *)
LEMMA ValueExists ==
  ASSUME NEW base \in Nat, NEW n \in Nat, NEW digits, \A k \in 1..n : digits[k] \in Nat
  PROVE  \E f : f \in [0..n -> Nat] /\ IsValue(f, base, digits, n)
<1> DEFINE step == [a \in (1..n) \X Nat |-> base * a[2] + digits[a[1]]]
<1>1. step \in [(1..n) \X Nat -> Nat]
  OBVIOUS
<1>2. PICK f : Recurs(f, n, Nat, 0, step)
  <2>1. 0 \in Nat
    OBVIOUS
  <2>2. HIDE DEF step
  <2>3. QED
    BY <1>1, <2>1, Recursion
<1>3. f \in [0..n -> Nat] /\ f[0] = 0 /\ \A k \in 1..n : f[k] = step[<<k, f[k - 1]>>]
  BY <1>2 DEF Recurs
<1>4. \A k \in 1..n : f[k - 1] \in Nat
  BY <1>3
<1>5. \A k \in 1..n : step[<<k, f[k - 1]>>] = base * f[k - 1] + digits[k]
  BY <1>4
<1>6. \A k \in 0..n : f[k] = IF k = 0 THEN 0 ELSE base * f[k - 1] + digits[k]
  <2>1. \A k \in 0..n : k = 0 \/ k \in 1..n
    OBVIOUS
  <2>2. HIDE DEF step
  <2>3. QED
    BY <1>3, <1>5, <2>1, Zenon
<1>7. f = [k \in 0..n |-> f[k]]
  BY <1>3
<1>8. [k \in 0..n |-> f[k]] = [k \in 0..n |-> IF k = 0 THEN 0 ELSE base * f[k - 1] + digits[k]]
  BY <1>6, Zenon
<1>9. IsValue(f, base, digits, n)
  BY <1>7, <1>8, Zenon DEF IsValue
<1>10. QED
  BY <1>3, <1>9

(* The number that one more digit makes. *)
LEMMA NumberStep ==
  ASSUME NEW base \in Nat, NEW n \in Nat, NEW digits, \A k \in 1..n : digits[k] \in Nat
  PROVE  /\ Number(base, digits, n) \in Nat
         /\ Number(base, digits, n) = IF n = 0 THEN 0 ELSE base * Number(base, digits, n - 1) + digits[n]
<1> DEFINE value(m) == CHOOSE f : IsValue(f, base, digits, m)
<1>1. ASSUME NEW m \in Nat, m <= n
      PROVE  /\ Number(base, digits, m) = value(m)[m]
             /\ value(m) \in [0..m -> Nat]
             /\ value(m)[0] = 0
             /\ \A k \in 1..m : value(m)[k] = base * value(m)[k - 1] + digits[k]
  <2>1. PICK f : f \in [0..m -> Nat] /\ IsValue(f, base, digits, m)
    <3>1. \A k \in 1..m : digits[k] \in Nat
      BY <1>1
    <3>2. QED
      BY <1>1, <3>1, ValueExists
  <2>2. IsValue(value(m), base, digits, m)
    BY <2>1, Zenon
  <2>3. PICK g : g = value(m)
    OBVIOUS
  <2>4. /\ g = [k \in 0..m |-> IF k = 0 THEN 0 ELSE base * g[k - 1] + digits[k]]
        /\ f = [k \in 0..m |-> IF k = 0 THEN 0 ELSE base * f[k - 1] + digits[k]]
    BY <2>1, <2>2, <2>3, Zenon DEF IsValue
  <2>5. g[0] = 0 /\ \A k \in 1..m : g[k] = base * g[k - 1] + digits[k]
    <3>1. 0 \in 0..m /\ \A k \in 1..m : k \in 0..m /\ k # 0
      OBVIOUS
    <3>2. QED
      BY <2>4, <3>1
  <2>6. f = g
    <3>1. f[0] = 0 /\ \A k \in 1..m : f[k] = base * f[k - 1] + digits[k]
      <4>1. 0 \in 0..m /\ \A k \in 1..m : k \in 0..m /\ k # 0
        OBVIOUS
      <4>2. QED
        BY <2>4, <4>1
    <3>2. \A k \in 0..m : f[k] = g[k]
      <4>1. Alike(f, g, m)
        BY <2>5, <3>1 DEF Alike
      <4>2. QED
        BY <4>1, Agreement
    <3>3. f = [k \in 0..m |-> f[k]] /\ g = [k \in 0..m |-> g[k]]
      BY <2>4
    <3>4. QED
      BY <3>2, <3>3, Zenon
  <2>7. Number(base, digits, m) = value(m)[m]
    BY Zenon DEF Number, IsValue
  <2>8. QED
    BY <2>1, <2>3, <2>5, <2>6, <2>7
<1> HIDE DEF value
<1>2. CASE n = 0
  BY <1>1, <1>2
<1>3. CASE n # 0
  <2>1. n - 1 \in Nat /\ n - 1 <= n
    BY <1>3
  <2>2. PICK f, g : f = value(n) /\ g = value(n - 1)
    OBVIOUS
  <2>3. /\ f \in [0..n -> Nat] /\ f[0] = 0
        /\ \A k \in 1..n : f[k] = base * f[k - 1] + digits[k]
        /\ Number(base, digits, n) = f[n]
    <3>1. n <= n
      OBVIOUS
    <3>2. QED
      BY <1>1, <2>2, <3>1, Zenon
  <2>4. /\ g \in [0..(n - 1) -> Nat] /\ g[0] = 0
        /\ \A k \in 1..(n - 1) : g[k] = base * g[k - 1] + digits[k]
        /\ Number(base, digits, n - 1) = g[n - 1]
    BY <1>1, <2>1, <2>2, Zenon
  <2>5. f[n - 1] = g[n - 1]
    <3>1. \A k \in 1..(n - 1) : k \in 1..n
      OBVIOUS
    <3>2. \A k \in 1..(n - 1) : f[k - 1] = g[k - 1] => f[k] = g[k]
      BY <2>3, <2>4, <3>1
    <3>3. \A k \in 0..(n - 1) : f[k] = g[k]
      <4>1. Alike(f, g, n - 1)
        BY <2>3, <2>4, <3>2 DEF Alike
      <4>2. QED
        BY <2>1, <4>1, Agreement
    <3>4. QED
      BY <2>1, <3>3
  <2>6. f[n] \in Nat /\ f[n] = base * f[n - 1] + digits[n]
    <3>1. n \in 1..n /\ n \in 0..n
      BY <1>3
    <3>2. QED
      BY <2>3, <3>1
  <2>7. QED
    BY <1>3, <2>3, <2>4, <2>5, <2>6
<1>4. QED
  BY <1>2, <1>3

(* The leading digits are well defined. *)
LEMMA LeadingIs ==
  ASSUME NEW text \in Seq(Nat)
  PROVE  /\ Leading(text) \in 0..Len(text)
         /\ \A i \in 1..Leading(text) : text[i] \in Digit
         /\ Leading(text) < Len(text) => text[Leading(text) + 1] \notin Digit
<1> DEFINE T == {m \in 0..Len(text) : m < Len(text) => text[m + 1] \notin Digit}
<1>1. Len(text) \in T /\ T \subseteq Nat
  OBVIOUS
<1>2. PICK m \in T : \A y \in T : m <= y
  <2>1. HIDE DEF T
  <2>2. QED
    BY <1>1, LeastNumber
<1>3. ASSUME NEW i \in 1..m PROVE text[i] \in Digit
  <2>1. i - 1 \in 0..Len(text) /\ i - 1 \notin T /\ (i - 1) + 1 = i
    BY <1>2
  <2>2. QED
    BY <2>1
<1>4. \E l \in 0..Len(text) :
        /\ \A i \in 1..l : text[i] \in Digit
        /\ l < Len(text) => text[l + 1] \notin Digit
  BY <1>2, <1>3
<1>5. QED
  BY <1>4, Zenon DEF Leading

(* Saturating digit by digit is saturating once. *)
LEMMA AccumulateIs ==
  ASSUME NEW max \in Nat, NEW n \in Nat, NEW d \in Digit
  PROVE  Accumulate(AtMost(max, n), d, max) = AtMost(max, 10 * n + d)
BY DEF Accumulate, AtMost, Digit

(* scan is the function that ScanDigits defines. *)
IsScan(scan, text, max) ==
  scan = [k \in 0..Len(text) |->
            IF k = 0 THEN [n |-> 0, seen |-> FALSE, stopped |-> FALSE]
            ELSE LET acc == scan[k - 1]
                 IN  IF acc.stopped \/ text[k] \notin Digit THEN [acc EXCEPT !.stopped = TRUE]
                     ELSE [n |-> Accumulate(acc.n, text[k], max), seen |-> TRUE, stopped |-> FALSE]]

(* The loop over the bytes computes what the leading digits spell. *)
LEMMA ScanIs ==
  ASSUME NEW text \in Seq(Nat), NEW max \in Nat
  PROVE  /\ Spelt(text) \in Nat
         /\ ScanDigits(text, max) =
              [n       |-> AtMost(max, Spelt(text)),
               seen    |-> Leading(text) > 0,
               stopped |-> Leading(text) < Len(text)]
<1> DEFINE len == Len(text)
           lead == Leading(text)
           Read(k) == IF k <= lead THEN k ELSE lead
           Acc(k) == [n |-> AtMost(max, Number(10, text, Read(k))), seen |-> Read(k) > 0, stopped |-> k > lead]
           After(acc, k) ==
             IF acc.stopped \/ text[k] \notin Digit THEN [acc EXCEPT !.stopped = TRUE]
             ELSE [n |-> Accumulate(acc.n, text[k], max), seen |-> TRUE, stopped |-> FALSE]
           g == [k \in 0..len |-> Acc(k)]
           scan == CHOOSE f : IsScan(f, text, max)
<1>1. /\ lead \in 0..len /\ len \in Nat /\ lead \in Nat
      /\ \A i \in 1..lead : text[i] \in Digit
      /\ lead < len => text[lead + 1] \notin Digit
  BY LeadingIs
<1>2. \A k \in 0..lead : /\ Number(10, text, k) \in Nat
                         /\ Number(10, text, k) = IF k = 0 THEN 0 ELSE 10 * Number(10, text, k - 1) + text[k]
  <2>1. ASSUME NEW k \in 0..lead
        PROVE  /\ Number(10, text, k) \in Nat
               /\ Number(10, text, k) = IF k = 0 THEN 0 ELSE 10 * Number(10, text, k - 1) + text[k]
    <3>1. k \in Nat /\ 10 \in Nat /\ \A i \in 1..k : text[i] \in Nat
      BY <1>1
    <3>2. QED
      BY <3>1, NumberStep
  <2>2. QED
    BY <2>1
<1>3. Acc(0) = [n |-> 0, seen |-> FALSE, stopped |-> FALSE]
  <2>1. Read(0) = 0 /\ Number(10, text, 0) = 0
    BY <1>1, <1>2
  <2>2. AtMost(max, Number(10, text, Read(0))) = 0
    BY <2>1 DEF AtMost
  <2>3. (Read(0) > 0) = FALSE /\ (0 > lead) = FALSE
    BY <1>1, <2>1
  <2> HIDE DEF Read, lead
  <2>4. QED
    BY <2>2, <2>3, Zenon
<1> HIDE DEF len, lead, scan
<1>4. ASSUME NEW k \in 1..len PROVE Acc(k) = After(g[k - 1], k)
  <2>1. k - 1 \in 0..len /\ k \in Nat /\ g[k - 1] = Acc(k - 1)
    BY <1>1
  <2>2. CASE k <= lead
    <3>1. Read(k) = k /\ Read(k - 1) = k - 1 /\ k \in 1..lead /\ k \in 0..lead /\ k - 1 \in 0..lead
      BY <1>1, <2>1, <2>2
    <3>2. text[k] \in Digit /\ ~g[k - 1].stopped /\ g[k - 1].n = AtMost(max, Number(10, text, k - 1))
      <4>1. text[k] \in Digit
        BY <1>1, <3>1
      <4>2. (k - 1 > lead) = FALSE
        BY <1>1, <2>1, <2>2
      <4>3. g[k - 1].stopped = (k - 1 > lead) /\ g[k - 1].n = AtMost(max, Number(10, text, Read(k - 1)))
        <5> HIDE DEF Read, g
        <5>1. QED
          BY <2>1
      <4> HIDE DEF g
      <4>4. QED
        BY <3>1, <4>1, <4>2, <4>3
    <3>3. Accumulate(g[k - 1].n, text[k], max) = AtMost(max, Number(10, text, k))
      <4>1. Number(10, text, k - 1) \in Nat
        BY <1>2, <3>1
      <4>2. Number(10, text, k) = 10 * Number(10, text, k - 1) + text[k]
        BY <1>2, <2>1, <3>1
      <4>3. QED
        BY <3>2, <4>1, <4>2, AccumulateIs
    <3>4. (Read(k) > 0) = TRUE /\ (k > lead) = FALSE
      BY <1>1, <2>1, <2>2
    <3>5. Acc(k) = [n |-> AtMost(max, Number(10, text, k)), seen |-> TRUE, stopped |-> FALSE]
      <4> HIDE DEF Read
      <4>1. QED
        BY <3>1, <3>4, Zenon
    <3> HIDE DEF Acc, g, Read
    <3>6. QED
      BY <3>2, <3>3, <3>5
  <2>3. CASE k = lead + 1
    <3>1. Read(k) = lead /\ Read(k - 1) = lead /\ k > lead /\ ~(k - 1 > lead)
      BY <1>1, <2>1, <2>3
    <3>2. text[k] \notin Digit
      BY <1>1, <2>1, <2>3
    <3>3. QED
      BY <2>1, <3>1, <3>2
  <2>4. CASE k > lead + 1
    <3>1. Read(k) = lead /\ Read(k - 1) = lead /\ k > lead /\ k - 1 > lead
      BY <1>1, <2>1, <2>4
    <3>2. QED
      BY <2>1, <3>1
  <2>5. QED
    BY <1>1, <2>1, <2>2, <2>3, <2>4
<1>5. IsScan(g, text, max)
  <2>1. \A k \in 0..len : k = 0 \/ k \in 1..len
    BY <1>1
  <2>2. \A k \in 0..len : Acc(k) = IF k = 0 THEN [n |-> 0, seen |-> FALSE, stopped |-> FALSE]
                                   ELSE After(g[k - 1], k)
    <3> HIDE DEF Acc, After, g
    <3>1. QED
      BY <1>3, <1>4, <2>1
  <2>3. g = [k \in 0..len |-> IF k = 0 THEN [n |-> 0, seen |-> FALSE, stopped |-> FALSE]
                              ELSE After(g[k - 1], k)]
    <3> HIDE DEF Acc, After
    <3>1. QED
      BY <2>2, Zenon
  <2> HIDE DEF g
  <2>4. QED
    BY <2>3, Zenon DEF IsScan, len
<1>6. /\ scan[0] = [n |-> 0, seen |-> FALSE, stopped |-> FALSE]
      /\ \A k \in 1..len : scan[k] = After(scan[k - 1], k)
  <2> HIDE DEF g
  <2>1. IsScan(scan, text, max)
    BY <1>5, Zenon DEF scan
  <2>2. scan = [k \in 0..len |-> IF k = 0 THEN [n |-> 0, seen |-> FALSE, stopped |-> FALSE]
                                 ELSE After(scan[k - 1], k)]
    BY <2>1, Zenon DEF IsScan, len
  <2> HIDE DEF After
  <2>3. 0 \in 0..len /\ \A k \in 1..len : k \in 0..len /\ k # 0
    BY <1>1
  <2>4. QED
    BY <2>2, <2>3
<1>7. scan[len] = Acc(len)
  <2>1. g[0] = Acc(0) /\ len \in 0..len /\ g[len] = Acc(len) /\ \A k \in 1..len : g[k] = Acc(k)
    <3> HIDE DEF Acc
    <3>1. QED
      BY <1>1
  <2> HIDE DEF g, Acc, After
  <2>2. scan[0] = g[0]
    BY <1>3, <1>6, <2>1
  <2>3. \A k \in 1..len : scan[k - 1] = g[k - 1] => scan[k] = g[k]
    <3>1. ASSUME NEW k \in 1..len, scan[k - 1] = g[k - 1] PROVE scan[k] = g[k]
      <4>1. g[k] = After(g[k - 1], k)
        BY <1>4, <2>1
      <4>2. scan[k] = After(scan[k - 1], k)
        BY <1>6
      <4>3. QED
        BY <3>1, <4>1, <4>2, Zenon
    <3>2. QED
      BY <3>1
  <2>4. \A k \in 0..len : scan[k] = g[k]
    <3>1. Alike(scan, g, len)
      BY <2>2, <2>3, Zenon DEF Alike
    <3>2. len \in Nat
      BY <1>1
    <3>3. QED
      BY <3>1, <3>2, Agreement
  <2>5. QED
    BY <2>1, <2>4
<1>8. ScanDigits(text, max) = scan[len]
  BY Zenon DEF ScanDigits, IsScan, scan, len
<1>9. Read(len) = lead /\ Spelt(text) = Number(10, text, lead) /\ lead \in 0..lead
  BY <1>1 DEF Spelt, lead
<1>10. Acc(len) = [n |-> AtMost(max, Spelt(text)), seen |-> lead > 0, stopped |-> lead < len]
  BY <1>1, <1>9
<1>11. QED
  BY <1>2, <1>7, <1>8, <1>9, <1>10 DEF lead, len
-----------------------------------------------------------------------------
(* The settings. *)

Numerals == {"max_live", "quarantine"}

(* What each numeral that a getter reads becomes. *)
LEMMA ParseIs ==
  ASSUME NEW text, text = Unset \/ text \in Seq(Nat), NEW default \in 1..MaxWord
  PROVE  /\ ParseUsize(text, default) \in 1..MaxWord
         /\ text # Unset =>
              /\ Spelt(text) \in Nat
              /\ ParseUsize(text, default) = IF Spelt(text) = 0 THEN default ELSE AtMost(MaxWord, Spelt(text))
<1>1. CASE text = Unset
  BY <1>1 DEF ParseUsize
<1>2. CASE text # Unset
  <2>1. text \in Seq(Nat) /\ MaxWord \in Nat \ {0}
    BY <1>2, MaxWordIs
  <2>2. PICK r : r = ScanDigits(text, MaxWord)
    OBVIOUS
  <2>3. Spelt(text) \in Nat /\ r.n = AtMost(MaxWord, Spelt(text)) /\ r.seen = (Leading(text) > 0)
    <3>1. /\ Spelt(text) \in Nat
          /\ r = [n |-> AtMost(MaxWord, Spelt(text)), seen |-> Leading(text) > 0,
                  stopped |-> Leading(text) < Len(text)]
      BY <2>1, <2>2, ScanIs
    <3>2. QED
      BY <3>1
  <2>4. ParseUsize(text, default) = IF r.seen /\ r.n > 0 THEN r.n ELSE default
    BY <1>2, <2>2 DEF ParseUsize
  <2>5. Spelt(text) > 0 => Leading(text) > 0
    <3>1. SUFFICES ASSUME Leading(text) = 0 PROVE Spelt(text) = 0
      BY <2>1, <2>3, LeadingIs
    <3>2. 10 \in Nat /\ 0 \in Nat /\ \A k \in 1..0 : text[k] \in Nat
      OBVIOUS
    <3>3. Number(10, text, 0) = 0
      BY <3>2, NumberStep
    <3>4. QED
      BY <3>1, <3>3 DEF Spelt
  <2>6. CASE Spelt(text) = 0
    <3>1. r.n = 0
      BY <2>1, <2>3, <2>6 DEF AtMost
    <3>2. ParseUsize(text, default) = default
      BY <2>4, <3>1
    <3>3. QED
      BY <2>3, <2>6, <3>2
  <2>7. CASE Spelt(text) # 0
    <3>1. r.n \in 1..MaxWord
      BY <2>1, <2>3, <2>7 DEF AtMost
    <3>2. r.seen /\ r.n > 0
      <4>1. Spelt(text) > 0
        BY <2>3, <2>7
      <4>2. Leading(text) > 0
        BY <2>5, <4>1
      <4>3. r.seen
        BY <2>3, <4>2, Zenon
      <4>4. QED
        BY <2>1, <3>1, <4>3
    <3>3. ParseUsize(text, default) = r.n
      BY <2>4, <3>2
    <3>4. ParseUsize(text, default) = AtMost(MaxWord, Spelt(text))
      BY <2>3, <3>3, Zenon
    <3>5. ParseUsize(text, default) \in 1..MaxWord
      BY <3>1, <3>3, Zenon
    <3>6. QED
      BY <2>3, <2>7, <3>4, <3>5, Zenon
  <2>8. QED
    BY <2>6, <2>7
<1>3. QED
  BY <1>1, <1>2

(* What the closures of the three settings with numerals compute. *)
LEMMA Values ==
  /\ Value("max_live") = NextPow2(ParseUsize(env["max_live"], DefaultMaxLive))
  /\ Value("quarantine") = LET n == ParseUsize(env["quarantine"], DefaultQuarantine) IN IF n > 1 THEN n ELSE 1
  /\ Value("on_fault") = OnFault(env["on_fault"])
BY DEF Value

(* The numbers that the closures compute fit in a word. *)
LEMMA ValueTypes ==
  ASSUME EnvInv
  PROVE  \A k \in Numerals : Value(k) \in 1..MaxWord
<1>1. DefaultMaxLive \in 1..MaxWord /\ DefaultQuarantine \in 1..MaxWord
  BY SettingsAssumption
<1>2. Value("max_live") \in 1..MaxWord
  <2>1. ParseUsize(env["max_live"], DefaultMaxLive) \in 1..MaxWord
    BY <1>1, ParseIs DEF EnvInv
  <2>2. ParseUsize(env["max_live"], DefaultMaxLive) \in 0..MaxWord
    BY <2>1, MaxWordIs
  <2>3. QED
    BY <2>2, NextPow2Is, Values
<1>3. Value("quarantine") \in 1..MaxWord
  <2>1. ParseUsize(env["quarantine"], DefaultQuarantine) \in 1..MaxWord
    BY <1>1, ParseIs DEF EnvInv
  <2>2. QED
    BY <2>1, MaxWordIs, Values
<1>4. QED
  BY <1>2, <1>3 DEF Numerals

(* The value of a setting depends on its own variable only. *)
LEMMA ValueKept ==
  ASSUME NEW k, k = "page_size" \/ env'[k] = env[k]
  PROVE  Value(k)' = Value(k)
<1>1. CASE k = "page_size"
  BY <1>1 DEF Value
<1>2. CASE env'[k] = env[k]
  BY <1>2 DEF Value
<1>3. QED
  BY <1>1, <1>2

(* The invariant holds before anything is asked for. *)
LEMMA InitSettings ==
  SInit => SettingsInv
<1> SUFFICES ASSUME SInit PROVE SettingsInv
  OBVIOUS
<1>1. EnvInv
  BY EnvsAssumption DEF SInit, EnvInv
<1>2. CacheInv
  <2>1. {"max_live", "quarantine"} \subseteq Cached
    BY DEF Cached, Keys
  <2>2. cache = [k \in Cached |-> Unset]
    BY DEF SInit
  <2>3. DOMAIN cache = Cached /\ \A k \in Cached : cache[k] = Unset
    BY <2>2
  <2>4. QED
    BY <2>1, <2>3 DEF CacheInv
<1>3. ArenaInv
  BY DEF SInit, ArenaInv, NoArena
<1>4. QED
  BY <1>1, <1>2, <1>3 DEF SettingsInv

(* The environment only loses variables. *)
LEMMA EnvStep ==
  ASSUME EnvInv, [SNext]_settingsVars
  PROVE  EnvInv'
<1>1. CASE UNCHANGED settingsVars
  BY <1>1 DEF EnvInv, settingsVars
<1>2. ASSUME NEW k \in Keys, RemoveVar(k) PROVE EnvInv'
  BY <1>2 DEF EnvInv, RemoveVar, Keys
<1>3. ASSUME NEW k \in Cached, Get(k) PROVE EnvInv'
  BY <1>3 DEF EnvInv, Get
<1>4. CASE NewArena
  BY <1>4 DEF EnvInv, NewArena
<1>5. QED
  BY <1>1, <1>2, <1>3, <1>4 DEF SNext

(* No step changes what a setting was resolved to. *)
LEMMA CacheStep ==
  ASSUME EnvInv, CacheInv, [SNext]_settingsVars
  PROVE  CacheInv'
<1>1. \A k \in Numerals : k \in Cached /\ Value(k) \in 1..MaxWord
  BY ValueTypes DEF Numerals, Cached, Keys
<1>2. CASE UNCHANGED settingsVars
  <2>1. \A k \in Cached : Value(k)' = Value(k)
    BY <1>2, ValueKept DEF settingsVars
  <2>2. QED
    BY <1>2, <2>1 DEF CacheInv, settingsVars
<1>3. ASSUME NEW k \in Keys, RemoveVar(k) PROVE CacheInv'
  <2>1. /\ cache' = cache
        /\ \A j \in Keys : j # k => env'[j] = env[j]
        /\ env'[k] = Unset
    BY <1>3 DEF RemoveVar, EnvInv
  <2>2. \A j \in Cached : j = "page_size" \/ j \in Keys
    BY DEF Cached
  <2>3. \A j \in Cached : j = "page_size" \/ j # k => Value(j)' = Value(j)
    BY <2>1, <2>2, ValueKept
  <2>4. k # "page_size"
    BY DEF Keys
  <2>5. ASSUME NEW j \in Cached, cache'[j] # Unset, j = "page_size" \/ env'[j] # Unset
        PROVE  cache'[j] = Value(j)'
    <3>1. j = "page_size" \/ j # k
      BY <2>1, <2>5
    <3>2. j = "page_size" \/ env[j] # Unset
      BY <2>1, <2>2, <2>5, <3>1
    <3>3. cache[j] = Value(j)
      BY <2>1, <2>5, <3>2 DEF CacheInv
    <3>4. QED
      BY <2>1, <2>3, <3>1, <3>3
  <2>6. QED
    BY <2>1, <2>5 DEF CacheInv
<1>4. ASSUME UNCHANGED env, DOMAIN cache' = Cached,
             \A k \in Cached : cache'[k] = cache[k] \/ cache'[k] = GetOrInit(k)
      PROVE  CacheInv'
  <2>1. \A k \in Cached : Value(k)' = Value(k) /\ env'[k] = env[k]
    BY <1>4, ValueKept
  <2>2. \A k \in Cached : cache'[k] = cache[k] \/ cache'[k] = Value(k)
    BY <1>4 DEF GetOrInit
  <2>3. ASSUME NEW k \in Cached, cache'[k] # Unset, k = "page_size" \/ env'[k] # Unset
        PROVE  cache'[k] = Value(k)'
    BY <2>1, <2>2, <2>3 DEF CacheInv
  <2>4. \A k \in Numerals : cache'[k] \in {Unset} \cup 1..MaxWord
    BY <1>1, <2>2 DEF CacheInv, Numerals
  <2>5. QED
    BY <1>4, <2>3, <2>4 DEF CacheInv, Numerals
<1>5. ASSUME NEW k \in Cached, Get(k) PROVE CacheInv'
  <2>1. cache' = [cache EXCEPT ![k] = GetOrInit(k)] /\ UNCHANGED env
    BY <1>5 DEF Get
  <2>2. DOMAIN cache' = Cached /\ \A j \in Cached : cache'[j] = cache[j] \/ cache'[j] = GetOrInit(j)
    BY <2>1 DEF CacheInv
  <2>3. QED
    BY <1>4, <2>1, <2>2
<1>6. CASE NewArena
  <2>1. /\ cache' = [cache EXCEPT !["max_live"] = GetOrInit("max_live"),
                                 !["quarantine"] = GetOrInit("quarantine")]
        /\ UNCHANGED env
    BY <1>6 DEF NewArena
  <2>2. DOMAIN cache' = Cached /\ \A j \in Cached : cache'[j] = cache[j] \/ cache'[j] = GetOrInit(j)
    BY <2>1 DEF CacheInv
  <2>3. QED
    BY <1>4, <2>1, <2>2
<1>7. QED
  BY <1>2, <1>3, <1>5, <1>6 DEF SNext

(* No step changes an arena in use, nor the settings it was made from. *)
LEMMA ArenaStep ==
  ASSUME EnvInv, CacheInv, ArenaInv, [SNext]_settingsVars
  PROVE  ArenaInv'
<1>1. \A k \in Numerals : /\ k \in Cached /\ Value(k) \in 1..MaxWord
                         /\ cache[k] \in {Unset} \cup 1..MaxWord
                         /\ GetOrInit(k) \in 1..MaxWord
  <2>1. \A k \in Numerals : k \in Cached /\ Value(k) \in 1..MaxWord /\ cache[k] \in {Unset} \cup 1..MaxWord
    BY ValueTypes DEF Numerals, Cached, Keys, CacheInv
  <2>2. QED
    BY <2>1 DEF GetOrInit
<1>2. CASE UNCHANGED settingsVars
  BY <1>2 DEF ArenaInv, settingsVars
<1>3. ASSUME NEW k \in Keys, RemoveVar(k) PROVE ArenaInv'
  BY <1>3 DEF ArenaInv, RemoveVar
<1>4. ASSUME NEW k \in Cached, Get(k) PROVE ArenaInv'
  <2>1. UNCHANGED arena /\ cache' = [cache EXCEPT ![k] = GetOrInit(k)]
    BY <1>4 DEF Get
  <2>2. \A j \in Numerals : cache[j] # Unset => cache'[j] = cache[j]
    BY <1>1, <2>1 DEF GetOrInit, CacheInv
  <2>3. SUFFICES ASSUME arena.phase = "mapped" PROVE ArenaInv'
    BY <2>1 DEF ArenaInv
  <2>4. cache["max_live"] # Unset /\ cache["quarantine"] # Unset
    <3>1. {cache["max_live"], cache["quarantine"]} \subseteq 1..MaxWord
      BY <2>3 DEF ArenaInv
    <3>2. \A n \in 1..MaxWord : n # Unset
      BY SettingsAssumption, MaxWordIs
    <3>3. QED
      BY <3>1, <3>2
  <2>5. cache'["max_live"] = cache["max_live"] /\ cache'["quarantine"] = cache["quarantine"]
    BY <2>2, <2>4 DEF Numerals
  <2>6. QED
    BY <2>1, <2>5 DEF ArenaInv
<1>5. CASE NewArena
  <2> DEFINE cap   == GetOrInit("max_live")
             q_cap == GetOrInit("quarantine")
  <2>1. cap \in 1..MaxWord /\ q_cap \in 1..MaxWord
    BY <1>1 DEF Numerals
  <2>2. cache'["max_live"] = cap /\ cache'["quarantine"] = q_cap
    BY <1>1, <1>5 DEF NewArena, Numerals, CacheInv
  <2>3. SUFFICES ASSUME arena'.phase = "mapped" PROVE ArenaInv'
    BY DEF ArenaInv
  <2>4. /\ Checked(cap)
        /\ arena' = [phase |-> "mapped", cap |-> cap, q_cap |-> q_cap,
                      slots_bytes |-> (cap * RegionSize) % (MaxWord + 1),
                      ring_bytes |-> (q_cap * WordSize) % (MaxWord + 1)]
    BY <1>5, <2>3 DEF NewArena
  <2> HIDE DEF cap, q_cap
  <2>5. /\ arena'.cap = cap /\ arena'.q_cap = q_cap
        /\ arena'.slots_bytes = (cap * RegionSize) % (MaxWord + 1)
        /\ arena'.ring_bytes = (q_cap * WordSize) % (MaxWord + 1)
    BY <2>4
  <2>6. Checked(arena'.cap)
    BY <2>4, <2>5
  <2>7. QED
    BY <2>1, <2>2, <2>5, <2>6 DEF ArenaInv, Checked
<1>6. QED
  BY <1>2, <1>3, <1>4, <1>5 DEF SNext

(* The inductive invariant of the configuration (src/config.rs, Arena::new  *)
(* in src/registry.rs): each setting keeps the value its variable had when  *)
(* it was first asked for, whatever happens to the environment since.       *)
THEOREM SettingsInvariance == SSpec => []SettingsInv
<1>1. SettingsInv /\ [SNext]_settingsVars => SettingsInv'
  BY EnvStep, CacheStep, ArenaStep DEF SettingsInv
<1>2. QED
  BY InitSettings, <1>1, PTL DEF SSpec

(* Whatever the text, COFFIN_QUARANTINE is the number its leading digits    *)
(* spell, or the largest word if that is larger, or the default if they     *)
(* spell none or zero: parse_usize saturates at each digit, and that is     *)
(* saturating once, for every width of a word.                              *)
THEOREM NumeralsAreRead == SSpec => []NumeralIsRead
<1>1. SettingsInv => NumeralIsRead
  <2> SUFFICES ASSUME SettingsInv, cache["quarantine"] # Unset, Numeral("quarantine")
               PROVE  NumeralIsRead
    BY DEF NumeralIsRead
  <2>1. "quarantine" \in Cached /\ env["quarantine"] # Unset
    BY DEF Cached, Keys, Numeral
  <2>2. cache["quarantine"] = Value("quarantine")
    BY <2>1 DEF SettingsInv, CacheInv
  <2>3. env["quarantine"] = Unset \/ env["quarantine"] \in Seq(Nat)
    BY DEF SettingsInv, EnvInv
  <2>4. DefaultQuarantine \in 1..MaxWord
    BY SettingsAssumption
  <2> DEFINE n == ParseUsize(env["quarantine"], DefaultQuarantine)
  <2>5. /\ n \in 1..MaxWord
        /\ n = IF Spelt(env["quarantine"]) = 0 THEN DefaultQuarantine
               ELSE AtMost(MaxWord, Spelt(env["quarantine"]))
    BY <2>1, <2>3, <2>4, ParseIs
  <2>6. Value("quarantine") = IF n > 1 THEN n ELSE 1
    BY Values
  <2> HIDE DEF n
  <2>7. Value("quarantine") = n
    BY <2>5, <2>6, MaxWordIs
  <2>8. QED
    BY <2>2, <2>5, <2>7 DEF NumeralIsRead
<1>2. QED
  BY SettingsInvariance, <1>1, PTL

(* Up to half the range of a word, the table has the least power of two of  *)
(* slots that is not less than COFFIN_MAX_LIVE (next_pow2 of parse_usize).  *)
THEOREM SlotsAreEnough == SSpec => []SlotsCover
<1>1. SettingsInv => SlotsCover
  <2> SUFFICES ASSUME SettingsInv, cache["max_live"] # Unset, Numeral("max_live"),
                      Spelt(env["max_live"]) \in 1..(2 ^ (Bits - 1))
               PROVE  cache["max_live"] = Least({p \in Powers : p >= Spelt(env["max_live"])})
    BY DEF SlotsCover
  <2>1. "max_live" \in Cached /\ env["max_live"] # Unset
    BY DEF Cached, Keys, Numeral
  <2>2. cache["max_live"] = Value("max_live")
    BY <2>1 DEF SettingsInv, CacheInv
  <2>3. env["max_live"] = Unset \/ env["max_live"] \in Seq(Nat)
    BY DEF SettingsInv, EnvInv
  <2>4. DefaultMaxLive \in 1..MaxWord
    BY SettingsAssumption
  <2>5. PICK n : n = Spelt(env["max_live"])
    OBVIOUS
  <2>6. n \in 1..(2 ^ (Bits - 1)) /\ n \in 1..MaxWord /\ n \in 0..MaxWord
    BY <2>5, MaxWordIs
  <2>7. ParseUsize(env["max_live"], DefaultMaxLive) = n
    <3>1. ParseUsize(env["max_live"], DefaultMaxLive)
            = IF n = 0 THEN DefaultMaxLive ELSE AtMost(MaxWord, n)
      BY <2>1, <2>3, <2>4, <2>5, ParseIs
    <3>2. n # 0 /\ AtMost(MaxWord, n) = n
      BY <2>6, MaxWordIs DEF AtMost
    <3>3. QED
      BY <3>1, <3>2
  <2>8. NextPow2(n) = Least({p \in Powers : p >= n})
    BY <2>6, NextPow2Is
  <2>9. QED
    BY <2>2, <2>5, <2>7, <2>8, Values, Zenon
<1>2. QED
  BY SettingsInvariance, <1>1, PTL

(* An arena that comes into use has mapped every slot the index mask can    *)
(* reach, and every position of its ring unless the size of the ring wraps  *)
(* around, and the public getters agree with it (Arena::new; config.rs).    *)
THEOREM ArenasAreWhole == SSpec => []ArenaIsWhole
<1>1. SettingsInv => ArenaIsWhole
  <2> SUFFICES ASSUME SettingsInv, arena.phase = "mapped" PROVE ArenaIsWhole
    BY DEF ArenaIsWhole
  <2>1. PICK cap, q_cap : cap = arena.cap /\ q_cap = arena.q_cap
    OBVIOUS
  <2>2. /\ cap \in 1..MaxWord /\ q_cap \in 1..MaxWord
        /\ cap = cache["max_live"] /\ q_cap = cache["quarantine"]
        /\ cap * RegionSize <= MaxWord
        /\ arena.slots_bytes = (cap * RegionSize) % (MaxWord + 1)
        /\ arena.ring_bytes = (q_cap * WordSize) % (MaxWord + 1)
    BY <2>1 DEF SettingsInv, ArenaInv, Checked
  <2>3. cap * RegionSize \in Nat /\ q_cap * WordSize \in Nat /\ MaxWord \in Nat
    BY <2>2, SettingsAssumption, MaxWordIs
  <2>4. \A a \in Nat, b \in Nat : a <= b => a % (b + 1) = a
    OBVIOUS
  <2>5. arena.slots_bytes = cap * RegionSize
    BY <2>2, <2>3, <2>4
  <2>6. q_cap * WordSize <= MaxWord => arena.ring_bytes = q_cap * WordSize
    BY <2>2, <2>3, <2>4
  <2>7. QED
    BY <2>1, <2>2, <2>5, <2>6 DEF ArenaIsWhole
<1>2. QED
  BY SettingsInvariance, <1>1, PTL

(* The status a parent sees after exit:<N> is N for every N that a status   *)
(* can hold, and a failure for every N too large for an i32 (on_fault).     *)
THEOREM ExitsAreSeen == SSpec => []ExitIsSeen
<1>1. SettingsInv => ExitIsSeen
  <2> SUFFICES ASSUME SettingsInv, cache["on_fault"] # Unset, env["on_fault"] # Unset, cache["on_fault"].exit
               PROVE  LET n == Spelt(env["on_fault"].rest)
                      IN  /\ n < Statuses => cache["on_fault"].code % Statuses = n
                          /\ n > IntMax => cache["on_fault"].code % Statuses # 0
    BY DEF ExitIsSeen
  <2>1. "on_fault" \in Cached
    BY DEF Cached, Keys
  <2>2. cache["on_fault"] = OnFault(env["on_fault"])
    BY <2>1, Values DEF SettingsInv, CacheInv
  <2>3. PICK text : text = env["on_fault"]
    OBVIOUS
  <2>4. text \in [exit : BOOLEAN, rest : Seq(Nat)] /\ text.rest \in Seq(Nat) /\ IntMax \in Nat
    BY <2>3, SettingsAssumption DEF SettingsInv, EnvInv
  <2>5. PICK r, n : r = ScanDigits(text.rest, IntMax) /\ n = Spelt(text.rest)
    OBVIOUS
  <2>6. n \in Nat /\ r.n = AtMost(IntMax, n)
    <3>1. /\ n \in Nat
          /\ r = [n |-> AtMost(IntMax, n), seen |-> Leading(text.rest) > 0,
                  stopped |-> Leading(text.rest) < Len(text.rest)]
      BY <2>4, <2>5, ScanIs
    <3>2. QED
      BY <3>1
  <2>7. cache["on_fault"].code = r.n
    <3>1. OnFault(text) = IF text = Unset \/ ~text.exit THEN [exit |-> FALSE, code |-> 0]
                          ELSE IF r.seen THEN [exit |-> TRUE, code |-> r.n] ELSE [exit |-> FALSE, code |-> 0]
      BY <2>5 DEF OnFault
    <3>2. OnFault(text).exit
      BY <2>2, <2>3
    <3>3. OnFault(text) = [exit |-> TRUE, code |-> r.n]
      BY <3>1, <3>2
    <3>4. QED
      BY <2>2, <2>3, <3>3
  <2>8. /\ n < Statuses => r.n % Statuses = n
        /\ n > IntMax => r.n % Statuses # 0
    <3>1. CASE n < Statuses
      <4>1. r.n = n /\ ~(n > IntMax)
        BY <2>6, <3>1, SettingsAssumption, StatusAssumption DEF AtMost
      <4>2. n % Statuses = n
        BY <2>6, <3>1, SettingsAssumption
      <4>3. QED
        BY <4>1, <4>2
    <3>2. CASE ~(n < Statuses)
      <4>1. n > IntMax => r.n = IntMax
        BY <2>6, SettingsAssumption DEF AtMost
      <4>2. QED
        BY <3>2, <4>1, StatusAssumption
    <3>3. QED
      BY <3>1, <3>2
  <2>9. QED
    BY <2>3, <2>5, <2>7, <2>8
<1>2. QED
  BY SettingsInvariance, <1>1, PTL
-----------------------------------------------------------------------------
(* Printing. *)

(* The number the first n digits spell depends on those digits only. *)
LEMMA NumberAgrees ==
  ASSUME NEW base \in Nat, NEW n \in Nat, NEW a, NEW b,
         \A k \in 1..n : a[k] \in Nat /\ a[k] = b[k]
  PROVE  Number(base, a, n) = Number(base, b, n)
<1> DEFINE G == {m \in Nat : m <= n => Number(base, a, m) = Number(base, b, m)}
<1>1. \A m \in 0..n : /\ Number(base, a, m) \in Nat
                      /\ Number(base, a, m) = IF m = 0 THEN 0 ELSE base * Number(base, a, m - 1) + a[m]
                      /\ Number(base, b, m) = IF m = 0 THEN 0 ELSE base * Number(base, b, m - 1) + b[m]
  <2>1. ASSUME NEW m \in 0..n
        PROVE  /\ Number(base, a, m) \in Nat
               /\ Number(base, a, m) = IF m = 0 THEN 0 ELSE base * Number(base, a, m - 1) + a[m]
               /\ Number(base, b, m) = IF m = 0 THEN 0 ELSE base * Number(base, b, m - 1) + b[m]
    <3>1. m \in Nat /\ (\A k \in 1..m : a[k] \in Nat) /\ (\A k \in 1..m : b[k] \in Nat)
      OBVIOUS
    <3>2. QED
      BY <3>1, NumberStep
  <2>2. QED
    BY <2>1
<1>2. 0 \in G
  BY <1>1
<1>3. \A m \in Nat : m \in G => m + 1 \in G
  <2>1. ASSUME NEW m \in Nat, m + 1 <= n, Number(base, a, m) = Number(base, b, m)
        PROVE  Number(base, a, m + 1) = Number(base, b, m + 1)
    <3>1. m + 1 \in 0..n /\ m + 1 \in 1..n /\ m + 1 # 0 /\ (m + 1) - 1 = m
      BY <2>1
    <3>2. Number(base, a, m + 1) = base * Number(base, a, m) + a[m + 1]
      BY <1>1, <3>1
    <3>3. Number(base, b, m + 1) = base * Number(base, b, m) + b[m + 1]
      BY <1>1, <3>1
    <3>4. QED
      BY <2>1, <3>1, <3>2, <3>3
  <2>2. QED
    BY <2>1
<1>4. n \in G
  <2> HIDE DEF G
  <2>1. QED
    BY <1>2, <1>3, Induction
<1>5. QED
  BY <1>4

(* loop is the function that WriteDec defines. *)
IsDec(loop, v) ==
  loop = [n \in 0..v |-> IF n = 0 THEN <<>> ELSE Append(loop[n \div 10], n % 10)]

(* The same, number by number. *)
DecSteps(f, v) ==
  /\ f[0] = <<>>
  /\ \A n \in 1..v : f[n] = Append(f[n \div 10], n % 10)

DecUpTo(f, v) == f \in [0..v -> Seq(Nat)] /\ DecSteps(f, v)

(* There is such a function. *)
LEMMA DecExists ==
  ASSUME NEW v \in Nat
  PROVE  \E f : DecUpTo(f, v)
<1> DEFINE G == {w \in Nat : \E f : DecUpTo(f, w)}
<1>1. 0 \in G
  <2> DEFINE g == [n \in 0..0 |-> <<>>]
  <2>1. g \in [0..0 -> Seq(Nat)] /\ g[0] = <<>> /\ \A n \in 1..0 : g[n] = Append(g[n \div 10], n % 10)
    OBVIOUS
  <2> HIDE DEF g
  <2>2. DecUpTo(g, 0)
    BY <2>1 DEF DecUpTo, DecSteps
  <2>3. QED
    BY <2>2
<1>2. ASSUME NEW w \in Nat, w \in G PROVE w + 1 \in G
  <2>1. PICK f : DecUpTo(f, w)
    BY <1>2
  <2>2. /\ f \in [0..w -> Seq(Nat)] /\ f[0] = <<>>
        /\ \A n \in 1..w : f[n] = Append(f[n \div 10], n % 10)
    BY <2>1 DEF DecUpTo, DecSteps
  <2> DEFINE last == Append(f[(w + 1) \div 10], (w + 1) % 10)
             g == [n \in 0..(w + 1) |-> IF n <= w THEN f[n] ELSE last]
  <2>3. (w + 1) \div 10 \in 0..w /\ (w + 1) % 10 \in Nat
    OBVIOUS
  <2>4. last \in Seq(Nat)
    BY <2>2, <2>3
  <2> HIDE DEF last
  <2>5. g \in [0..(w + 1) -> Seq(Nat)]
    BY <2>2, <2>4
  <2>6. g[0] = <<>> /\ g[w + 1] = last /\ \A n \in 0..w : g[n] = f[n]
    BY <2>2
  <2> HIDE DEF g
  <2>7. ASSUME NEW n \in 1..(w + 1) PROVE g[n] = Append(g[n \div 10], n % 10)
    <3>1. CASE n <= w
      <4>1. n \in 1..w /\ n \in 0..w /\ n \div 10 \in 0..w
        BY <3>1
      <4>2. QED
        BY <2>2, <2>6, <4>1
    <3>2. CASE n = w + 1
      BY <2>3, <2>6, <3>2 DEF last
    <3>3. QED
      BY <3>1, <3>2
  <2>8. DecUpTo(g, w + 1)
    BY <2>5, <2>6, <2>7 DEF DecUpTo, DecSteps
  <2>9. QED
    BY <2>8
<1>3. \A w \in Nat : w \in G => w + 1 \in G
  BY <1>2
<1>4. v \in G
  <2> HIDE DEF G
  <2>1. QED
    BY <1>1, <1>3, Induction
<1>5. QED
  BY <1>4

(* What is printed of a number does not depend on how far the loop goes. *)
LEMMA DecAgrees ==
  ASSUME NEW v \in Nat, NEW w \in Nat, v <= w, NEW f, NEW g,
         DecSteps(f, v), DecUpTo(g, w)
  PROVE  \A n \in 0..v : f[n] = g[n]
<1> DEFINE G == {n \in Nat : n <= v => f[n] = g[n]}
<1>1. /\ f[0] = <<>> /\ \A n \in 1..v : f[n] = Append(f[n \div 10], n % 10)
      /\ g[0] = <<>> /\ \A n \in 1..v : g[n] = Append(g[n \div 10], n % 10)
  <2>1. \A n \in 1..v : n \in 1..w
    OBVIOUS
  <2>2. f[0] = <<>> /\ \A n \in 1..v : f[n] = Append(f[n \div 10], n % 10)
    BY Zenon DEF DecSteps
  <2>3. g[0] = <<>> /\ \A n \in 1..w : g[n] = Append(g[n \div 10], n % 10)
    BY Zenon DEF DecUpTo, DecSteps
  <2>4. QED
    BY <2>1, <2>2, <2>3, Zenon
<1>2. ASSUME NEW n \in Nat, \A m \in 0..(n - 1) : m \in G PROVE n \in G
  <2>1. CASE n = 0
    BY <1>1, <2>1
  <2>2. CASE n # 0 /\ n <= v
    <3>1. n \in 1..v /\ n \div 10 \in 0..(n - 1) /\ n \div 10 <= v
      BY <2>2
    <3>2. f[n \div 10] = g[n \div 10]
      BY <1>2, <3>1
    <3>3. f[n] = g[n]
      BY <1>1, <3>1, <3>2
    <3>4. QED
      BY <3>3
  <2>3. QED
    BY <2>1, <2>2
<1>3. Nat \subseteq G
  <2> HIDE DEF G
  <2>1. QED
    BY <1>2, StrongInduction
<1>4. QED
  BY <1>3

(* A text of digits alone spells the number that all of them do. *)
LEMMA AllDigits ==
  ASSUME NEW text \in Seq(Nat), \A i \in 1..Len(text) : text[i] \in Digit
  PROVE  Spelt(text) = Number(10, text, Len(text))
<1>1. /\ Leading(text) \in 0..Len(text)
      /\ Leading(text) < Len(text) => text[Leading(text) + 1] \notin Digit
  BY LeadingIs
<1>2. Leading(text) = Len(text)
  <2>1. SUFFICES ASSUME Leading(text) < Len(text) PROVE FALSE
    BY <1>1
  <2>2. Leading(text) + 1 \in 1..Len(text)
    BY <1>1, <2>1
  <2>3. QED
    BY <1>1, <2>1, <2>2
<1>3. QED
  BY <1>2 DEF Spelt

(* What the loop of write_dec has made of each number. *)
LEMMA DecIs ==
  ASSUME NEW v \in Nat, NEW f, DecUpTo(f, v)
  PROVE  \A n \in 0..v :
           /\ \A i \in 1..Len(f[n]) : f[n][i] \in Digit
           /\ Number(10, f[n], Len(f[n])) = n
           /\ n > 0 => Len(f[n]) > 0 /\ f[n][1] # 0
           /\ \A m \in 0..n : Len(f[m]) <= Len(f[n])
<1>1. /\ f \in [0..v -> Seq(Nat)] /\ f[0] = <<>>
      /\ \A n \in 1..v : f[n] = Append(f[n \div 10], n % 10)
  BY DEF DecUpTo, DecSteps
<1> DEFINE Digits(n) == \A i \in 1..Len(f[n]) : f[n][i] \in Digit
           Spells(n) == Number(10, f[n], Len(f[n])) = n
           Leads(n) == n > 0 => Len(f[n]) > 0 /\ f[n][1] # 0
           Longest(n) == \A m \in 0..n : Len(f[m]) <= Len(f[n])
           G == {n \in Nat : n <= v => Digits(n) /\ Spells(n) /\ Leads(n) /\ Longest(n)}
<1>2. ASSUME NEW n \in Nat, n <= v, \A m \in 0..(n - 1) : m \in G
      PROVE  Digits(n) /\ Spells(n) /\ Leads(n) /\ Longest(n)
  <2>1. CASE n = 0
    <3>1. f[n] = <<>> /\ Len(f[n]) = 0 /\ \A m \in 0..n : m = n
      BY <1>1, <2>1
    <3>2. Number(10, f[n], 0) = 0
      <4>1. 10 \in Nat /\ 0 \in Nat /\ \A k \in 1..0 : f[n][k] \in Nat
        OBVIOUS
      <4>2. QED
        BY <4>1, NumberStep
    <3>3. Digits(n) /\ Leads(n) /\ Longest(n)
      BY <2>1, <3>1
    <3>4. QED
      BY <2>1, <3>1, <3>2, <3>3
  <2>2. CASE n # 0
    <3> DEFINE q == n \div 10
               d == n % 10
    <3>1. /\ n \in 1..v /\ q \in 0..(n - 1) /\ q \in 0..v /\ d \in Digit /\ d \in Nat
          /\ n = 10 * q + d /\ (q = 0 => d # 0)
      BY <1>2, <2>2 DEF Digit
    <3>2. PICK s, t : s = f[q] /\ t = f[n]
      OBVIOUS
    <3>3. Digits(q) /\ Spells(q) /\ Leads(q) /\ Longest(q)
      BY <1>2, <3>1
    <3>4. /\ s \in Seq(Nat) /\ t = Append(s, d) /\ t \in Seq(Nat)
          /\ \A i \in 1..Len(s) : s[i] \in Digit
          /\ Number(10, s, Len(s)) = q
          /\ q > 0 => Len(s) > 0 /\ s[1] # 0
          /\ q = 0 => s = <<>>
      <4>1. f[n] = Append(f[q], d)
        BY <1>1, <3>1
      <4> HIDE DEF q, d, G
      <4>2. t = Append(s, d) /\ s \in Seq(Nat) /\ (q = 0 => s = <<>>)
        BY <1>1, <3>1, <3>2, <4>1
      <4>3. t \in Seq(Nat)
        BY <3>1, <4>2
      <4>4. /\ \A i \in 1..Len(s) : s[i] \in Digit
            /\ Number(10, s, Len(s)) = q
            /\ q > 0 => Len(s) > 0 /\ s[1] # 0
        BY <3>2, <3>3, Zenon
      <4>5. QED
        BY <4>2, <4>3, <4>4
    <3> HIDE DEF q, d, G
    <3>5. /\ Len(t) = Len(s) + 1 /\ Len(s) \in Nat /\ t[Len(t)] = d
          /\ \A i \in 1..Len(s) : t[i] = s[i]
      BY <3>1, <3>4
    <3>6. \A i \in 1..Len(t) : t[i] \in Digit
      BY <3>1, <3>4, <3>5
    <3>7. Number(10, t, Len(t)) = n
      <4>1. 10 \in Nat /\ Len(t) \in Nat /\ \A k \in 1..Len(t) : t[k] \in Nat
        BY <3>5, <3>6 DEF Digit
      <4>2. Number(10, t, Len(t)) = 10 * Number(10, t, Len(s)) + d
        <5>1. PICK l : l = Len(t)
          OBVIOUS
        <5>2. l \in Nat /\ l # 0 /\ l - 1 = Len(s) /\ t[l] = d /\ \A k \in 1..l : t[k] \in Nat
          BY <3>5, <4>1, <5>1
        <5>3. Number(10, t, l) = IF l = 0 THEN 0 ELSE 10 * Number(10, t, l - 1) + t[l]
          BY <4>1, <5>2, NumberStep
        <5>4. QED
          BY <5>1, <5>2, <5>3
      <4>3. Number(10, s, Len(s)) = Number(10, t, Len(s))
        <5>1. \A k \in 1..Len(s) : s[k] \in Nat /\ s[k] = t[k]
          BY <3>4, <3>5 DEF Digit
        <5>2. QED
          BY <3>5, <4>1, <5>1, NumberAgrees
      <4>4. QED
        BY <3>1, <3>4, <4>2, <4>3
    <3>8. Len(t) > 0 /\ t[1] # 0
      BY <3>1, <3>4, <3>5
    <3>9. \A m \in 0..n : Len(f[m]) <= Len(t)
      <4>1. ASSUME NEW m \in 0..n PROVE Len(f[m]) <= Len(t)
        <5>1. CASE m = 0
          BY <1>1, <3>5, <5>1
        <5>2. CASE m # 0
          <6>1. m \in 1..v /\ m \div 10 \in 0..q /\ m \div 10 \in 0..v /\ m % 10 \in Nat
            BY <1>2, <3>1, <5>2 DEF q
          <6>2. f[m] = Append(f[m \div 10], m % 10) /\ f[m \div 10] \in Seq(Nat)
            BY <1>1, <6>1
          <6>3. Len(f[m]) = Len(f[m \div 10]) + 1 /\ Len(f[m \div 10]) \in Nat
            BY <6>1, <6>2
          <6>4. Len(f[m \div 10]) <= Len(s)
            BY <3>2, <3>3, <6>1
          <6>5. QED
            BY <3>5, <6>3, <6>4
        <5>3. QED
          BY <5>1, <5>2
      <4>2. QED
        BY <4>1
    <3>10. QED
      BY <3>2, <3>6, <3>7, <3>8, <3>9
  <2>3. QED
    BY <2>1, <2>2
<1>3. \A n \in Nat : (\A m \in 0..(n - 1) : m \in G) => n \in G
  BY <1>2
<1>4. Nat \subseteq G
  <2> HIDE DEF G
  <2>1. QED
    BY <1>3, StrongInduction
<1>5. \A n \in 0..v : Digits(n) /\ Spells(n) /\ Leads(n) /\ Longest(n)
  BY <1>4
<1>6. QED
  BY <1>5

(* What write_dec prints of a positive number, up to the largest. *)
LEMMA WriteDecIs ==
  ASSUME NEW v \in Nat \ {0}, NEW w \in Nat, v <= w
  PROVE  /\ Spelt(WriteDec(v)) = v
         /\ WriteDec(v)[1] # 0
         /\ Len(WriteDec(v)) <= Len(WriteDec(w))
<1>1. PICK g : DecUpTo(g, w)
  BY DecExists
<1>2. /\ g \in [0..w -> Seq(Nat)]
      /\ \A i \in 1..Len(g[v]) : g[v][i] \in Digit
      /\ Number(10, g[v], Len(g[v])) = v
      /\ g[v][1] # 0
      /\ Len(g[v]) <= Len(g[w])
  <2>1. v \in 0..w /\ w \in 0..w /\ v > 0
    OBVIOUS
  <2>2. QED
    BY <1>1, <2>1, DecIs DEF DecUpTo, DecSteps
<1>3. ASSUME NEW u \in Nat \ {0}, u <= w PROVE WriteDec(u) = g[u]
  <2> DEFINE loop == CHOOSE f : IsDec(f, u)
  <2>1. \E f : IsDec(f, u)
    <3>1. PICK f : DecUpTo(f, u)
      BY DecExists
    <3>2. \A n \in 0..u : f[n] = IF n = 0 THEN <<>> ELSE Append(f[n \div 10], n % 10)
      <4>1. \A n \in 0..u : n = 0 \/ n \in 1..u
        OBVIOUS
      <4>2. QED
        BY <3>1, <4>1 DEF DecUpTo, DecSteps
    <3>3. f = [n \in 0..u |-> f[n]]
      BY <3>1 DEF DecUpTo, DecSteps
    <3>4. [n \in 0..u |-> f[n]] = [n \in 0..u |-> IF n = 0 THEN <<>> ELSE Append(f[n \div 10], n % 10)]
      BY <3>2, Zenon
    <3>5. QED
      BY <3>3, <3>4, Zenon DEF IsDec
  <2>2. IsDec(loop, u)
    BY <2>1, Zenon
  <2> HIDE DEF loop
  <2>3. loop = [n \in 0..u |-> IF n = 0 THEN <<>> ELSE Append(loop[n \div 10], n % 10)]
    BY <2>2, Zenon DEF IsDec
  <2>4. loop[0] = <<>> /\ \A n \in 1..u : loop[n] = Append(loop[n \div 10], n % 10)
    <3>1. 0 \in 0..u /\ \A n \in 1..u : n \in 0..u /\ n # 0
      OBVIOUS
    <3>2. QED
      BY <2>3, <3>1
  <2>5. \A n \in 0..u : loop[n] = g[n]
    <3>1. DecSteps(loop, u) /\ u \in Nat /\ u <= w
      BY <1>3, <2>4 DEF DecSteps
    <3>2. QED
      BY <1>1, <3>1, DecAgrees
  <2>6. WriteDec(u) = loop[u]
    BY <1>3, Zenon DEF WriteDec, IsDec, loop
  <2>7. QED
    BY <1>3, <2>5, <2>6
<1>4. WriteDec(v) = g[v] /\ WriteDec(w) = g[w]
  BY <1>3
<1>5. Spelt(g[v]) = v
  <2>1. g[v] \in Seq(Nat)
    BY <1>2
  <2>2. QED
    BY <1>2, <2>1, AllDigits
<1>6. QED
  BY <1>2, <1>4, <1>5

-----------------------------------------------------------------------------
(* Nibbles. *)

(* A positive factor cancels. *)
LEMMA Scaled ==
  ASSUME NEW p \in Nat \ {0}, NEW a \in Int, NEW b \in Int, p * a < p * b
  PROVE  a < b
<1>1. SUFFICES ASSUME b <= a PROVE FALSE
  OBVIOUS
<1>2. a - b \in Nat /\ p * (a - b) \in Nat /\ p * (a - b) = p * a - p * b
  BY <1>1
<1>3. QED
  BY <1>2

(* Division, between two products. *)
LEMMA DivIs ==
  ASSUME NEW v \in Nat, NEW p \in Nat \ {0}
  PROVE  /\ v \div p \in Nat
         /\ p * (v \div p) <= v
         /\ v < p * ((v \div p) + 1)
OBVIOUS

(* Dividing by p and then by 16 is dividing by 16 p. *)
LEMMA DivTwice ==
  ASSUME NEW v \in Nat, NEW p \in Nat \ {0}
  PROVE  (v \div p) \div 16 = v \div (16 * p)
<1>1. PICK q, r : q = v \div p /\ r = v \div (16 * p)
  OBVIOUS
<1>2. /\ q \in Nat /\ p * q <= v /\ v < p * (q + 1)
  BY <1>1, DivIs
<1>3. /\ r \in Nat /\ (16 * p) * r <= v /\ v < (16 * p) * (r + 1)
  <2>1. 16 * p \in Nat \ {0}
    OBVIOUS
  <2>2. QED
    BY <1>1, <2>1, DivIs
<1>4. (16 * p) * r = p * (16 * r) /\ (16 * p) * (r + 1) = p * (16 * r + 16)
  BY <1>3
<1>5. 16 * r < q + 1
  <2>1. p * (16 * r) < p * (q + 1) /\ 16 * r \in Int /\ q + 1 \in Int
    BY <1>2, <1>3, <1>4
  <2>2. QED
    BY <2>1, Scaled
<1>6. q < 16 * r + 16
  <2>1. p * q < p * (16 * r + 16) /\ q \in Int /\ 16 * r + 16 \in Int
    BY <1>2, <1>3, <1>4
  <2>2. QED
    BY <2>1, Scaled
<1>7. q \div 16 = r
  BY <1>2, <1>3, <1>5, <1>6
<1>8. QED
  BY <1>1, <1>7

(* Four bits further is sixteen times as much. *)
LEMMA NibbleShift ==
  ASSUME NEW n \in Nat
  PROVE  2 ^ (n + 4) = 16 * 2 ^ n
<1>1. n + 1 \in Nat /\ n + 2 \in Nat /\ n + 3 \in Nat /\ (n + 1) + 1 = n + 2 /\ (n + 2) + 1 = n + 3 /\ (n + 3) + 1 = n + 4
  OBVIOUS
<1>2. /\ 2 ^ n \in Nat
      /\ 2 ^ (n + 1) = 2 * 2 ^ n
      /\ 2 ^ (n + 2) = 2 * 2 ^ (n + 1)
      /\ 2 ^ (n + 3) = 2 * 2 ^ (n + 2)
      /\ 2 ^ (n + 4) = 2 * 2 ^ (n + 3)
  <2>1. 2 ^ n \in Nat
    BY PowerType
  <2>2. 2 ^ (n + 1) = 2 * 2 ^ n
    BY PowerDoubles
  <2>3. 2 ^ ((n + 1) + 1) = 2 * 2 ^ (n + 1)
    BY <1>1, PowerDoubles
  <2>4. 2 ^ ((n + 2) + 1) = 2 * 2 ^ (n + 2)
    BY <1>1, PowerDoubles
  <2>5. 2 ^ ((n + 3) + 1) = 2 * 2 ^ (n + 3)
    BY <1>1, PowerDoubles
  <2>6. QED
    BY <1>1, <2>1, <2>2, <2>3, <2>4, <2>5
<1>3. QED
  BY <1>2

(* What write_hex prints of a positive word. *)
LEMMA WriteHexIs ==
  ASSUME NEW v \in 1..MaxWord
  PROVE  /\ Number(16, WriteHex(v), Len(WriteHex(v))) = v
         /\ WriteHex(v)[1] # 0
         /\ 4 * Len(WriteHex(v)) < Bits + 4
<1> DEFINE b == BitLength(v)
           len == Nibbles(v)
           hex == WriteHex(v)
<1>1. v \in 0..MaxWord /\ v \in Nat \ {0} /\ Bits \in Nat
  BY MaxWordIs, SettingsAssumption
<1>2. b \in 0..Bits /\ v < 2 ^ b /\ \A m \in 0..(b - 1) : v >= 2 ^ m
  BY <1>1, BitLengthIs
<1> HIDE DEF b
<1>3. b >= 1
  <2>1. SUFFICES ASSUME b = 0 PROVE FALSE
    BY <1>1, <1>2
  <2>2. 2 ^ 0 = 1
    OBVIOUS
  <2>3. QED
    BY <1>1, <1>2, <2>1, <2>2
<1>4. /\ len \in Nat \ {0} /\ b \in Nat
      /\ b <= 4 * len
      /\ 4 * (len - 1) <= b - 1 /\ 4 * (len - 1) \in Nat
      /\ 4 * len < Bits + 4
  BY <1>1, <1>2, <1>3 DEF Nibbles, b
<1> HIDE DEF len, hex
<1>5. v < 2 ^ (4 * len)
  <2>1. 4 * len \in Nat
    BY <1>4
  <2>2. 2 ^ b <= 2 ^ (4 * len) /\ 2 ^ b \in Nat /\ 2 ^ (4 * len) \in Nat
    BY <1>4, <2>1, PowersGrow, PowerType
  <2>3. QED
    BY <1>1, <1>2, <2>2
<1>6. v >= 2 ^ (4 * (len - 1))
  BY <1>2, <1>4
<1>7. hex = [i \in 1..len |-> (v \div 2 ^ (4 * (len - i))) % 16]
  BY <1>1, Zenon DEF WriteHex, hex, len
<1>8. Len(hex) = len /\ \A i \in 1..len : hex[i] = (v \div 2 ^ (4 * (len - i))) % 16
  BY <1>4, <1>7
<1>9. ASSUME NEW k \in 0..(len - 1)
      PROVE  /\ 4 * (len - (k + 1)) \in Nat /\ 2 ^ (4 * (len - (k + 1))) \in Nat \ {0}
             /\ 2 ^ (4 * (len - k)) = 16 * 2 ^ (4 * (len - (k + 1)))
  <2>1. 4 * (len - (k + 1)) \in Nat /\ 4 * (len - k) = 4 * (len - (k + 1)) + 4
    BY <1>4
  <2>2. QED
    BY <2>1, NibbleShift, PowerType
<1>10. \A i \in 1..len : hex[i] \in 0..15
  <2>1. ASSUME NEW i \in 1..len PROVE hex[i] \in 0..15
    <3>1. PICK p : p = 2 ^ (4 * (len - i))
      OBVIOUS
    <3>2. p \in Nat \ {0}
      <4>1. i - 1 \in 0..(len - 1) /\ (i - 1) + 1 = i
        BY <1>4
      <4>2. 2 ^ (4 * (len - ((i - 1) + 1))) \in Nat \ {0}
        BY <1>9, <4>1
      <4>3. QED
        BY <3>1, <4>1, <4>2
    <3>3. v \div p \in Nat
      BY <1>1, <3>2, DivIs
    <3>4. hex[i] = (v \div p) % 16
      BY <1>8, <3>1
    <3>5. QED
      BY <3>3, <3>4
  <2>2. QED
    BY <2>1
<1>11. \A k \in 0..len : Number(16, hex, k) = IF k = 0 THEN 0 ELSE 16 * Number(16, hex, k - 1) + hex[k]
  <2>1. ASSUME NEW k \in 0..len
        PROVE  Number(16, hex, k) = IF k = 0 THEN 0 ELSE 16 * Number(16, hex, k - 1) + hex[k]
    <3>1. 16 \in Nat /\ k \in Nat /\ \A i \in 1..k : hex[i] \in Nat
      BY <1>4, <1>10
    <3>2. QED
      BY <3>1, NumberStep
  <2>2. QED
    BY <2>1
<1>12. Number(16, hex, len) = v \div 2 ^ (4 * (len - len))
  <2> DEFINE G == {k \in Nat : k <= len => Number(16, hex, k) = v \div 2 ^ (4 * (len - k))}
  <2>1. 0 \in G
    <3>1. PICK p : p = 2 ^ (4 * len)
      OBVIOUS
    <3>2. p \in Nat \ {0} /\ v < p
      <4>1. 4 * len \in Nat
        BY <1>4
      <4>2. QED
        BY <1>5, <3>1, <4>1, PowerType
    <3>3. v \div p = 0
      BY <1>1, <3>2
    <3>4. Number(16, hex, 0) = 0 /\ len - 0 = len
      BY <1>4, <1>11
    <3>5. QED
      BY <3>1, <3>3, <3>4
  <2>2. ASSUME NEW k \in Nat, k + 1 <= len, Number(16, hex, k) = v \div 2 ^ (4 * (len - k))
        PROVE  Number(16, hex, k + 1) = v \div 2 ^ (4 * (len - (k + 1)))
    <3>1. k \in 0..(len - 1) /\ k + 1 \in 0..len /\ k + 1 \in 1..len /\ (k + 1) - 1 = k /\ k + 1 # 0
      BY <1>4, <2>2
    <3>2. PICK p : p = 2 ^ (4 * (len - (k + 1)))
      OBVIOUS
    <3>3. p \in Nat \ {0} /\ 2 ^ (4 * (len - k)) = 16 * p
      BY <1>9, <3>1, <3>2
    <3>4. v \div (16 * p) = (v \div p) \div 16 /\ v \div p \in Nat
      BY <1>1, <3>3, DivTwice, DivIs
    <3>5. hex[k + 1] = (v \div p) % 16
      BY <1>8, <3>1, <3>2
    <3>6. Number(16, hex, k + 1) = 16 * ((v \div p) \div 16) + ((v \div p) % 16)
      <4>1. Number(16, hex, k) = (v \div p) \div 16
        BY <2>2, <3>3, <3>4
      <4>2. Number(16, hex, k + 1) = 16 * Number(16, hex, k) + hex[k + 1]
        <5>1. PICK j : j = k + 1
          OBVIOUS
        <5>2. j \in 0..len /\ j # 0 /\ j - 1 = k
          BY <3>1, <5>1
        <5>3. Number(16, hex, j) = 16 * Number(16, hex, j - 1) + hex[j]
          BY <1>11, <5>2
        <5>4. QED
          BY <5>1, <5>2, <5>3
      <4>3. QED
        BY <3>5, <4>1, <4>2, Zenon
    <3>7. PICK q : q = v \div p
      OBVIOUS
    <3>8. q \in Nat /\ 16 * (q \div 16) + (q % 16) = q
      <4>1. q \in Nat
        BY <3>4, <3>7
      <4>2. QED
        BY <4>1
    <3>9. Number(16, hex, k + 1) = v \div p
      BY <3>6, <3>7, <3>8
    <3>10. QED
      BY <3>2, <3>9
  <2>3. \A k \in Nat : k \in G => k + 1 \in G
    <3>1. ASSUME NEW k \in Nat, k \in G, k + 1 <= len
          PROVE  Number(16, hex, k + 1) = v \div 2 ^ (4 * (len - (k + 1)))
      <4>1. Number(16, hex, k) = v \div 2 ^ (4 * (len - k))
        BY <1>4, <3>1
      <4>2. QED
        BY <2>2, <3>1, <4>1
    <3>2. QED
      BY <3>1
  <2>4. len \in G
    <3> HIDE DEF G
    <3>1. QED
      BY <1>4, <2>1, <2>3, Induction
  <2>5. QED
    BY <2>4
<1>13. Number(16, hex, len) = v
  <2>1. 4 * (len - len) = 0 /\ 2 ^ 0 = 1
    BY <1>4
  <2>2. v \div 1 = v
    BY <1>1
  <2>3. QED
    BY <1>12, <2>1, <2>2
<1>14. hex[1] # 0
  <2>1. PICK p : p = 2 ^ (4 * (len - 1))
    OBVIOUS
  <2>2. p \in Nat \ {0} /\ 2 ^ (4 * len) = 16 * p
    <3>1. 0 \in 0..(len - 1) /\ len - (0 + 1) = len - 1 /\ len - 0 = len
      BY <1>4
    <3>2. QED
      BY <1>9, <2>1, <3>1
  <2>3. hex[1] = (v \div p) % 16
    BY <1>4, <1>8, <2>1
  <2>4. v >= p /\ v < 16 * p
    BY <1>5, <1>6, <2>1, <2>2
  <2>5. PICK q : q = v \div p
    OBVIOUS
  <2>6. q \in Nat /\ p * q <= v /\ v < p * (q + 1)
    BY <1>1, <2>2, <2>5, DivIs
  <2>7. 1 < q + 1
    <3>1. p * 1 < p * (q + 1) /\ 1 \in Int /\ q + 1 \in Int
      BY <1>1, <2>2, <2>4, <2>6
    <3>2. QED
      BY <2>2, <3>1, Scaled
  <2>8. q < 16
    <3>1. p * q < p * 16 /\ q \in Int /\ 16 \in Int
      BY <1>1, <2>2, <2>4, <2>6
    <3>2. QED
      BY <2>2, <3>1, Scaled
  <2>9. q % 16 # 0
    BY <2>6, <2>7, <2>8
  <2>10. QED
    BY <2>3, <2>5, <2>9
<1>15. QED
  BY <1>4, <1>8, <1>13, <1>14 DEF hex

(* A number read from the environment is printed as a numeral without       *)
(* leading zeros that reads back as the same number, in base ten and in     *)
(* base sixteen, within the buffers of write_dec and write_hex.             *)
THEOREM NumbersPrintBack == SSpec => []PrintsBack
<1>1. SettingsInv => PrintsBack
  <2> SUFFICES ASSUME SettingsInv, cache["quarantine"] # Unset PROVE PrintsBack
    BY DEF PrintsBack
  <2>1. PICK v : v = cache["quarantine"]
    OBVIOUS
  <2>2. v \in 1..MaxWord /\ v \in Nat \ {0} /\ v <= MaxWord /\ MaxWord \in Nat
    BY <2>1, MaxWordIs DEF SettingsInv, CacheInv
  <2>3. /\ Spelt(WriteDec(v)) = v
        /\ WriteDec(v)[1] # 0
        /\ Len(WriteDec(v)) <= Len(WriteDec(MaxWord))
    BY <2>2, WriteDecIs
  <2>4. /\ Number(16, WriteHex(v), Len(WriteHex(v))) = v
        /\ WriteHex(v)[1] # 0
        /\ 4 * Len(WriteHex(v)) < Bits + 4
    BY <2>2, WriteHexIs
  <2>5. QED
    BY <2>1, <2>3, <2>4, Zenon DEF PrintsBack
<1>2. QED
  BY SettingsInvariance, <1>1, PTL
=============================================================================
