-------------------------- MODULE BinaryFloat_proofs --------------------------
(***************************************************************************)
(* Division and comparison of floats, for every precision BinaryFloat      *)
(* allows and numbers of any size: division rounds monotonically, and      *)
(* keeps fractions apart that differ by more than the precision.           *)
(***************************************************************************)
EXTENDS BinaryFloat, TLAPS, WellFoundedInduction

-----------------------------------------------------------------------------
(* Induction over the naturals.  The provers take no induction rule whose
   hypothesis is an operator; the least natural number of a set serves instead. *)

(* < is well-founded on the naturals. *)
LEMMA LessThanIsWellFounded ==
    \E R : IsWellFoundedOn(R, Nat) /\ \A x, y \in Nat : <<y, x>> \in R <=> y < x
<1>1. OpToRel(<, Nat) = {ss \in Nat \X Nat : ss[1] < ss[2]}
  BY DEF OpToRel
<1>2. IsWellFoundedOn(OpToRel(<, Nat), Nat)
  BY NatLessThanWellFounded
<1>3. IsWellFoundedOn({ss \in Nat \X Nat : ss[1] < ss[2]}, Nat)
  BY <1>1, <1>2
<1>4. \A x, y \in Nat : <<y, x>> \in {ss \in Nat \X Nat : ss[1] < ss[2]} <=> y < x
  OBVIOUS
<1>5. QED
  BY <1>3, <1>4

(* A set of naturals has a least member. *)
LEMMA LeastNatural ==
    ASSUME NEW S \in SUBSET Nat, S # {}
    PROVE  \E n \in S : \A m \in S : n <= m
<1>1. PICK R : IsWellFoundedOn(R, Nat) /\ \A x, y \in Nat : <<y, x>> \in R <=> y < x
  BY LessThanIsWellFounded
<1>2. PICK x \in S : \A y \in S : ~(<<y, x>> \in R)
  BY <1>1, WFMin
<1>3. \A y \in S : ~(y < x)
  <2> TAKE y \in S
  <2>1. x \in Nat /\ y \in Nat
    OBVIOUS
  <2>2. <<y, x>> \in R <=> y < x
    BY <1>1, <2>1, Zenon
  <2>3. QED
    BY <1>2, <2>2, Zenon
<1>4. \A y \in S : x <= y
  BY <1>3
<1>5. QED
  BY <1>4

(* A set that holds 0 and, below N, each successor of a member holds 0..N. *)
LEMMA InductionTo ==
    ASSUME NEW N \in Nat, NEW S, 0 \in S,
           \A n \in 1..N : n - 1 \in S => n \in S
    PROVE  0..N \subseteq S
<1> DEFINE outside == {n \in 0..N : n \notin S}
<1> SUFFICES ASSUME outside # {} PROVE FALSE
  OBVIOUS
<1>1. outside \in SUBSET Nat
  OBVIOUS
<1>2. PICK n \in outside : \A m \in outside : n <= m
  BY <1>1, LeastNatural
<1>3. n \in 1..N /\ n - 1 \in 0..N
  BY <1>2
<1>4. n - 1 \notin outside
  BY <1>2, <1>3
<1>5. QED
  BY <1>2, <1>3, <1>4

-----------------------------------------------------------------------------
(* Powers of two. *)

Doubles(g, n) == g[0] = 1 /\ \A i \in 1..n : g[i] = 2 * g[i - 1]

(* Such a function exists up to any number. *)
LEMMA DoublesExist == \A n \in Nat : \E g \in [0..n -> Nat] : Doubles(g, n)
<1> SUFFICES ASSUME NEW N \in Nat PROVE \E g \in [0..N -> Nat] : Doubles(g, N)
  OBVIOUS
<1> DEFINE S == {n \in 0..N : \E g \in [0..n -> Nat] : Doubles(g, n)}
<1>1. 0 \in S
  <2>1. [i \in 0..0 |-> 1] \in [0..0 -> Nat] /\ Doubles([i \in 0..0 |-> 1], 0)
    BY DEF Doubles
  <2>2. QED
    BY <2>1
<1>2. ASSUME NEW n \in 1..N, n - 1 \in S PROVE n \in S
  <2>1. PICK g \in [0..(n - 1) -> Nat] : Doubles(g, n - 1)
    BY <1>2
  <2> DEFINE h == [i \in 0..n |-> IF i = n THEN 2 * g[n - 1] ELSE g[i]]
  <2>2. h \in [0..n -> Nat]
    BY <2>1
  <2>3. Doubles(h, n)
    BY <2>1 DEF Doubles
  <2>4. QED
    BY <2>2, <2>3
<1> HIDE DEF S
<1>3. N \in S
  BY <1>1, <1>2, InductionTo
<1>4. QED
  BY <1>3 DEF S

(* Two of them agree. *)
LEMMA DoublesAgree ==
    ASSUME NEW n \in Nat, NEW m \in Nat, n <= m, NEW g, NEW h, Doubles(g, n), Doubles(h, m)
    PROVE  g[n] = h[n]
<1> DEFINE S == {i \in 0..n : g[i] = h[i]}
<1>1. 0 \in S
  BY DEF Doubles
<1>2. ASSUME NEW i \in 1..n, i - 1 \in S PROVE i \in S
  BY <1>2 DEF Doubles
<1> HIDE DEF S
<1>3. n \in S
  BY <1>1, <1>2, InductionTo
<1>4. QED
  BY <1>3 DEF S

LEMMA PowerOfTwoDef ==
    /\ PowerOfTwo[0] = 1
    /\ \A n \in Nat : PowerOfTwo[n] \in Nat \ {0} /\ PowerOfTwo[n + 1] = 2 * PowerOfTwo[n]
<1> DEFINE Def(f) == [n \in Nat |-> IF n = 0 THEN 1 ELSE 2 * f[n - 1]]
           table(n) == CHOOSE g \in [0..n -> Nat] : Doubles(g, n)
           power == [n \in Nat |-> table(n)[n]]
<1>1. \A n \in Nat : table(n) \in [0..n -> Nat] /\ Doubles(table(n), n)
  BY DoublesExist
<1> HIDE DEF table
<1>2. power[0] = 1
  BY <1>1 DEF Doubles
<1>3. ASSUME NEW n \in Nat PROVE power[n + 1] = 2 * power[n]
  <2>1. table(n)[n] = table(n + 1)[n]
    BY <1>1, DoublesAgree
  <2>2. table(n + 1)[n + 1] = 2 * table(n + 1)[n]
    BY <1>1 DEF Doubles
  <2>3. QED
    BY <2>1, <2>2
<1>4. power = Def(power)
  <2>1. ASSUME NEW n \in Nat
        PROVE  power[n] = IF n = 0 THEN 1 ELSE 2 * power[n - 1]
    <3>1. CASE n = 0
      BY <1>2, <3>1
    <3>2. CASE n # 0
      <4>1. n - 1 \in Nat /\ (n - 1) + 1 = n
        BY <3>2
      <4>2. QED
        BY <1>3, <3>2, <4>1
    <3>3. QED
      BY <3>1, <3>2
  <2> HIDE DEF power
  <2>2. QED
    <3>1. power = [n \in Nat |-> power[n]]
      BY DEF power
    <3>2. QED
      BY <2>1, <3>1
<1>5. PowerOfTwo = Def(PowerOfTwo)
  <2> HIDE DEF power
  <2>1. QED
    BY <1>4, Zenon DEF PowerOfTwo
<1> HIDE DEF power
<1>6. PowerOfTwo[0] = 1
  BY <1>5
<1>7. \A n \in Nat : PowerOfTwo[n + 1] = 2 * PowerOfTwo[n]
  <2> TAKE n \in Nat
  <2>1. n + 1 \in Nat /\ n + 1 # 0 /\ (n + 1) - 1 = n
    OBVIOUS
  <2> DEFINE m == n + 1
  <2>2. PowerOfTwo[m] = IF m = 0 THEN 1 ELSE 2 * PowerOfTwo[m - 1]
    <3> HIDE DEF m
    <3>1. m \in Nat
      BY <2>1 DEF m
    <3>2. QED
      BY <1>5, <3>1, Zenon
  <2>3. QED
    BY <2>1, <2>2
<1>8. ASSUME NEW N \in Nat PROVE PowerOfTwo[N] \in Nat \ {0}
  <2> DEFINE S == {n \in 0..N : PowerOfTwo[n] \in Nat \ {0}}
  <2>1. 0 \in S
    BY <1>6
  <2>2. ASSUME NEW n \in 1..N, n - 1 \in S PROVE n \in S
    <3>1. n - 1 \in Nat /\ (n - 1) + 1 = n
      OBVIOUS
    <3>2. PowerOfTwo[n] = 2 * PowerOfTwo[n - 1]
      BY <1>7, <3>1
    <3>3. QED
      BY <2>2, <3>2
  <2> HIDE DEF S
  <2>3. N \in S
    BY <2>1, <2>2, InductionTo
  <2>4. QED
    BY <2>3 DEF S
<1>9. QED
  BY <1>6, <1>7, <1>8

LEMMA PowerAdds == \A a, b \in Nat : PowerOfTwo[a + b] = PowerOfTwo[a] * PowerOfTwo[b]
<1> SUFFICES ASSUME NEW a \in Nat, NEW N \in Nat
             PROVE  PowerOfTwo[a + N] = PowerOfTwo[a] * PowerOfTwo[N]
  OBVIOUS
<1> DEFINE S == {b \in 0..N : PowerOfTwo[a + b] = PowerOfTwo[a] * PowerOfTwo[b]}
<1>1. 0 \in S
  BY PowerOfTwoDef
<1>2. ASSUME NEW n \in 1..N, n - 1 \in S PROVE n \in S
  <2>1. n - 1 \in Nat /\ (n - 1) + 1 = n /\ a + (n - 1) \in Nat /\ (a + (n - 1)) + 1 = a + n
    OBVIOUS
  <2>2. PowerOfTwo[n] = 2 * PowerOfTwo[n - 1]
    BY <2>1, PowerOfTwoDef
  <2>3. PowerOfTwo[a + n] = 2 * PowerOfTwo[a + (n - 1)]
    BY <2>1, PowerOfTwoDef
  <2>4. PowerOfTwo[a + (n - 1)] = PowerOfTwo[a] * PowerOfTwo[n - 1]
    BY <1>2
  <2>5. PowerOfTwo[a] \in Nat /\ PowerOfTwo[n - 1] \in Nat
    BY <2>1, PowerOfTwoDef
  <2>6. PowerOfTwo[a + n] = PowerOfTwo[a] * PowerOfTwo[n]
    BY <2>2, <2>3, <2>4, <2>5
  <2>7. QED
    BY <2>6
<1> HIDE DEF S
<1>3. N \in S
  BY <1>1, <1>2, InductionTo
<1>4. QED
  BY <1>3 DEF S

LEMMA PowerExceeds == \A n \in Nat : n < PowerOfTwo[n]
<1> SUFFICES ASSUME NEW N \in Nat PROVE N < PowerOfTwo[N]
  OBVIOUS
<1> DEFINE S == {n \in 0..N : n < PowerOfTwo[n]}
<1>1. 0 \in S
  BY PowerOfTwoDef
<1>2. ASSUME NEW n \in 1..N, n - 1 \in S PROVE n \in S
  <2>1. n - 1 \in Nat /\ (n - 1) + 1 = n
    OBVIOUS
  <2>2. PowerOfTwo[n] = 2 * PowerOfTwo[n - 1] /\ PowerOfTwo[n - 1] \in Nat
    BY <2>1, PowerOfTwoDef
  <2>3. n - 1 < PowerOfTwo[n - 1]
    BY <1>2
  <2>4. n < PowerOfTwo[n]
    BY <2>2, <2>3
  <2>5. QED
    BY <2>4
<1> HIDE DEF S
<1>3. N \in S
  BY <1>1, <1>2, InductionTo
<1>4. QED
  BY <1>3 DEF S

LEMMA PowerGrows == \A a, b \in Nat : a <= b => PowerOfTwo[a] <= PowerOfTwo[b]
<1> SUFFICES ASSUME NEW a \in Nat, NEW b \in Nat, a <= b PROVE PowerOfTwo[a] <= PowerOfTwo[b]
  OBVIOUS
<1>1. b - a \in Nat /\ a + (b - a) = b
  OBVIOUS
<1>2. PowerOfTwo[b] = PowerOfTwo[a] * PowerOfTwo[b - a]
  BY <1>1, PowerAdds
<1>3. PowerOfTwo[a] \in Nat /\ PowerOfTwo[b - a] \in Nat \ {0}
  BY <1>1, PowerOfTwoDef
<1>4. QED
  BY <1>2, <1>3

(* Bits counts the binary digits. *)
LEMMA BitsBracket ==
    ASSUME NEW n \in Nat \ {0}
    PROVE  /\ Bits(n) \in Nat \ {0}
           /\ PowerOfTwo[Bits(n) - 1] <= n /\ n < PowerOfTwo[Bits(n)]
<1> DEFINE Enough == {b \in 0..n : n < PowerOfTwo[b]}
           IsBits(b) == n < PowerOfTwo[b] /\ (b > 0 => n >= PowerOfTwo[b - 1])
<1>1. n \in Enough
  BY PowerExceeds
<1>2. Enough \in SUBSET Nat
  OBVIOUS
<1>3. PICK b \in Enough : \A c \in Enough : b <= c
  BY <1>1, <1>2, LeastNatural
<1>4. b \in 0..n /\ IsBits(b)
  <2>1. CASE b > 0
    <3>1. b - 1 \in 0..n /\ b - 1 \notin Enough
      BY <1>3, <2>1
    <3>2. PowerOfTwo[b - 1] \in Nat
      BY <2>1, PowerOfTwoDef
    <3>3. QED
      BY <1>3, <3>1, <3>2
  <2>2. CASE ~(b > 0)
    BY <1>3, <2>2
  <2>3. QED
    BY <2>1, <2>2
<1>5. Bits(n) \in 0..n /\ IsBits(Bits(n))
  <2>1. Bits(n) = CHOOSE c \in 0..n : IsBits(c)
    BY DEF Bits
  <2> HIDE DEF IsBits
  <2>2. QED
    BY <1>4, <2>1, Zenon
<1>6. Bits(n) # 0
  BY <1>5, PowerOfTwoDef
<1>7. QED
  BY <1>5, <1>6

-----------------------------------------------------------------------------
(* Scaling by a power of two. *)

LEMMA UpDown ==
    \A s \in Int : /\ s >= 0 => Up(s) = PowerOfTwo[s] /\ Down(s) = 1
                   /\ s <= 0 => Up(s) = 1 /\ Down(s) = PowerOfTwo[-s]
BY PowerOfTwoDef DEF Up, Down

LEMMA UpDownType == \A s \in Int : Up(s) \in Nat \ {0} /\ Down(s) \in Nat \ {0}
<1> TAKE s \in Int
<1>1. CASE s >= 0
  BY <1>1, UpDown, PowerOfTwoDef
<1>2. CASE s < 0
  <2>1. -s \in Nat
    BY <1>2
  <2>2. QED
    BY <1>2, <2>1, UpDown, PowerOfTwoDef
<1>3. QED
  BY <1>1, <1>2

(* One more in the exponent doubles the number. *)
LEMMA UpOne ==
    ASSUME NEW s \in Int
    PROVE  \/ Up(s + 1) = 2 * Up(s) /\ Down(s + 1) = Down(s)
           \/ Up(s + 1) = Up(s) /\ Down(s) = 2 * Down(s + 1)
<1>1. CASE s >= 0
  <2>1. s \in Nat /\ s + 1 \in Int /\ s + 1 >= 0
    BY <1>1
  <2>2. QED
    BY <1>1, <2>1, UpDown, PowerOfTwoDef
<1>2. CASE s < 0
  <2>1. -(s + 1) \in Nat /\ -s = -(s + 1) + 1 /\ s + 1 <= 0 /\ s + 1 \in Int
    BY <1>2
  <2>2. PowerOfTwo[-s] = 2 * PowerOfTwo[-(s + 1)]
    BY <2>1, PowerOfTwoDef
  <2>3. QED
    BY <1>2, <2>1, <2>2, UpDown
<1>3. QED
  BY <1>1, <1>2

(* Exponents add up. *)
LEMMA ExponentsAdd ==
    ASSUME NEW s \in Int, NEW t \in Int
    PROVE  Up(s + t) * Down(s) * Down(t) = Up(s) * Up(t) * Down(s + t)
<1>1. ASSUME NEW a \in Nat, NEW b \in Nat
      PROVE  /\ PowerOfTwo[a] \in Nat /\ PowerOfTwo[b] \in Nat
             /\ PowerOfTwo[a + b] = PowerOfTwo[a] * PowerOfTwo[b]
  BY PowerOfTwoDef, PowerAdds
<1>2. ASSUME NEW a \in Int, NEW b \in Int, a >= 0, b <= 0
      PROVE  Up(a + b) * Down(a) * Down(b) = Up(a) * Up(b) * Down(a + b)
  <2>1. Up(a) = PowerOfTwo[a] /\ Down(a) = 1 /\ Up(b) = 1 /\ Down(b) = PowerOfTwo[-b]
    BY <1>2, UpDown
  <2>2. CASE a + b >= 0
    <3>1. Up(a + b) = PowerOfTwo[a + b] /\ Down(a + b) = 1
      BY <2>2, UpDown
    <3>2. a + b \in Nat /\ -b \in Nat /\ (a + b) + (-b) = a
      BY <1>2, <2>2
    <3>3. /\ PowerOfTwo[a + b] \in Nat /\ PowerOfTwo[-b] \in Nat
          /\ PowerOfTwo[a] = PowerOfTwo[a + b] * PowerOfTwo[-b]
      BY <1>1, <3>2
    <3>4. QED
      BY <2>1, <3>1, <3>3
  <2>3. CASE a + b < 0
    <3>1. Up(a + b) = 1 /\ Down(a + b) = PowerOfTwo[-(a + b)]
      BY <2>3, UpDown
    <3>2. a \in Nat /\ -(a + b) \in Nat /\ a + (-(a + b)) = -b
      BY <1>2, <2>3
    <3>3. /\ PowerOfTwo[a] \in Nat /\ PowerOfTwo[-(a + b)] \in Nat
          /\ PowerOfTwo[-b] = PowerOfTwo[a] * PowerOfTwo[-(a + b)]
      BY <1>1, <3>2
    <3>4. QED
      BY <2>1, <3>1, <3>3
  <2>4. QED
    BY <2>2, <2>3
<1>3. CASE s >= 0 /\ t >= 0
  <2>1. /\ Up(s) = PowerOfTwo[s] /\ Down(s) = 1 /\ Up(t) = PowerOfTwo[t] /\ Down(t) = 1
        /\ Up(s + t) = PowerOfTwo[s + t] /\ Down(s + t) = 1
    BY <1>3, UpDown
  <2>2. s \in Nat /\ t \in Nat
    BY <1>3
  <2>3. /\ PowerOfTwo[s] \in Nat /\ PowerOfTwo[t] \in Nat
        /\ PowerOfTwo[s + t] = PowerOfTwo[s] * PowerOfTwo[t]
    BY <1>1, <2>2
  <2>4. QED
    BY <2>1, <2>3
<1>4. CASE s <= 0 /\ t <= 0
  <2>1. /\ Up(s) = 1 /\ Down(s) = PowerOfTwo[-s] /\ Up(t) = 1 /\ Down(t) = PowerOfTwo[-t]
        /\ Up(s + t) = 1 /\ Down(s + t) = PowerOfTwo[-(s + t)]
    BY <1>4, UpDown
  <2>2. -s \in Nat /\ -t \in Nat /\ -(s + t) = (-s) + (-t)
    BY <1>4
  <2>3. /\ PowerOfTwo[-s] \in Nat /\ PowerOfTwo[-t] \in Nat
        /\ PowerOfTwo[-(s + t)] = PowerOfTwo[-s] * PowerOfTwo[-t]
    BY <1>1, <2>2
  <2>4. QED
    BY <2>1, <2>3
<1>5. CASE s >= 0 /\ t <= 0
  BY <1>2, <1>5
<1>6. CASE s <= 0 /\ t >= 0
  <2>1. t + s = s + t
    OBVIOUS
  <2>2. Up(s + t) * Down(t) * Down(s) = Up(t) * Up(s) * Down(s + t)
    BY <1>2, <1>6, <2>1
  <2>3. /\ Up(s + t) \in Nat /\ Up(s) \in Nat /\ Up(t) \in Nat
        /\ Down(s + t) \in Nat /\ Down(s) \in Nat /\ Down(t) \in Nat
    BY UpDownType
  <2>4. QED
    BY <2>2, <2>3
<1>7. QED
  BY <1>3, <1>4, <1>5, <1>6

-----------------------------------------------------------------------------
(* Rounding to an integer. *)

LEMMA QuotientAndRest ==
    ASSUME NEW n \in Nat, NEW d \in Nat \ {0}
    PROVE  \E q, r \in Nat : q = n \div d /\ r = n % d /\ n = q * d + r /\ r < d
<1>1. n \div d \in Nat /\ n % d \in 0..(d - 1) /\ n % d = n - d * (n \div d)
  OBVIOUS
<1>2. PICK q \in Nat, r \in 0..(d - 1) : q = n \div d /\ r = n % d /\ r = n - d * q
  BY <1>1, Zenon
<1>3. q \in Nat /\ r \in Nat /\ n = q * d + r /\ r < d
  BY <1>2
<1>4. QED
  BY <1>2, <1>3

LEMMA ProductGrows ==
    ASSUME NEW a \in Int, NEW b \in Int, NEW c \in Nat, a <= b
    PROVE  a * c <= b * c
OBVIOUS

LEMMA ProductCancels ==
    ASSUME NEW a \in Int, NEW b \in Int, NEW c \in Nat \ {0}, a * c <= b * c
    PROVE  a <= b
OBVIOUS

(* The rounded quotient is at most a half away. *)
LEMMA NearestIntegerNear ==
    ASSUME NEW n \in Nat, NEW d \in Nat \ {0}
    PROVE  /\ NearestInteger(n, d) \in Nat
           /\ 2 * n - d <= 2 * (NearestInteger(n, d) * d)
           /\ 2 * (NearestInteger(n, d) * d) <= 2 * n + d
<1>1. PICK q, r \in Nat : q = n \div d /\ r = n % d /\ n = q * d + r /\ r < d
  BY QuotientAndRest
<1>2. NearestInteger(n, d) = IF 2 * r > d \/ (2 * r = d /\ q % 2 = 1) THEN q + 1 ELSE q
  BY <1>1, Zenon DEF NearestInteger
<1>3. (q + 1) * d = q * d + d /\ q * d \in Nat
  BY <1>1
<1>4. QED
  BY <1>1, <1>2, <1>3

(* A quotient of at least, or below, an integer is not rounded past it. *)
LEMMA NearestIntegerBetween ==
    ASSUME NEW n \in Nat, NEW d \in Nat \ {0}, NEW low \in Nat, NEW high \in Nat,
           low * d <= n, n < high * d
    PROVE  low <= NearestInteger(n, d) /\ NearestInteger(n, d) <= high
<1>1. PICK q, r \in Nat : q = n \div d /\ r = n % d /\ n = q * d + r /\ r < d
  BY QuotientAndRest
<1>2. NearestInteger(n, d) \in {q, q + 1}
  BY <1>1 DEF NearestInteger
<1>3. q * d \in Nat /\ (q + 1) * d = q * d + d
  BY <1>1
<1>4. low <= q
  <2> SUFFICES ASSUME q + 1 <= low PROVE FALSE
    BY <1>1
  <2>1. (q + 1) * d <= low * d
    BY <1>1, ProductGrows
  <2>2. QED
    BY <1>1, <1>3, <2>1
<1>5. q + 1 <= high
  <2> SUFFICES ASSUME high <= q PROVE FALSE
    BY <1>1
  <2>1. high * d <= q * d
    BY <1>1, ProductGrows
  <2>2. QED
    BY <1>1, <1>3, <2>1
<1>6. QED
  BY <1>1, <1>2, <1>4, <1>5

(* A larger quotient is not rounded to less. *)
LEMMA NearestIntegerMonotone ==
    ASSUME NEW n \in Nat, NEW d \in Nat \ {0}, NEW k \in Nat, NEW c \in Nat \ {0},
           n * c <= k * d
    PROVE  NearestInteger(n, d) <= NearestInteger(k, c)
<1>1. PICK q, r \in Nat : q = n \div d /\ r = n % d /\ n = q * d + r /\ r < d
  BY QuotientAndRest
<1>2. PICK t, u \in Nat : t = k \div c /\ u = k % c /\ k = t * c + u /\ u < c
  BY QuotientAndRest
<1>3. /\ NearestInteger(n, d) = IF 2 * r > d \/ (2 * r = d /\ q % 2 = 1) THEN q + 1 ELSE q
      /\ NearestInteger(k, c) = IF 2 * u > c \/ (2 * u = c /\ t % 2 = 1) THEN t + 1 ELSE t
  BY <1>1, <1>2, Zenon DEF NearestInteger
<1>4. (q * d) * c + r * c <= (t * c) * d + u * d
  <2>1. n * c = (q * d) * c + r * c
    BY <1>1
  <2>2. k * d = (t * c) * d + u * d
    BY <1>2
  <2>3. QED
    BY <2>1, <2>2
<1> DEFINE z == d * c
<1>5. /\ (q * d) * c = q * z /\ (t * c) * d = t * z /\ z \in Nat \ {0}
      /\ q * z \in Nat /\ t * z \in Nat /\ r * c \in Nat /\ u * d \in Nat
  BY <1>1, <1>2
<1>6. u * d < z
  <2>1. (u + 1) * d <= c * d
    BY <1>2, ProductGrows
  <2>2. QED
    BY <1>2, <2>1
<1>7. q <= t
  <2> SUFFICES ASSUME t + 1 <= q PROVE FALSE
    BY <1>1, <1>2
  <2>1. (t + 1) * z <= q * z
    BY <1>1, <1>2, <1>5, ProductGrows
  <2>2. (t + 1) * z = t * z + z
    BY <1>2, <1>5
  <2>3. QED
    BY <1>4, <1>5, <1>6, <2>1, <2>2
<1>8. CASE q = t
  <2>1. r * c <= u * d
    BY <1>4, <1>5, <1>8
  <2>2. 2 * r > d => 2 * u > c
    <3> SUFFICES ASSUME d + 1 <= 2 * r, 2 * u <= c PROVE FALSE
      BY <1>1, <1>2
    <3>1. (d + 1) * c <= (2 * r) * c
      BY <1>1, ProductGrows
    <3>2. (2 * u) * d <= c * d
      BY <1>2, ProductGrows
    <3>3. (d + 1) * c = z + c /\ (2 * r) * c = 2 * (r * c) /\ (2 * u) * d = 2 * (u * d) /\ c * d = z
      BY <1>1, <1>2
    <3>4. QED
      BY <1>5, <2>1, <3>1, <3>2, <3>3
  <2>3. 2 * r = d => 2 * u >= c
    <3> SUFFICES ASSUME 2 * r = d, 2 * u + 1 <= c PROVE FALSE
      BY <1>1, <1>2
    <3>1. (2 * u + 1) * d <= c * d
      BY <1>2, ProductGrows
    <3>2. (2 * u + 1) * d = 2 * (u * d) + d /\ c * d = z /\ 2 * (r * c) = z
      BY <1>1, <1>2
    <3>3. QED
      BY <1>5, <2>1, <3>1, <3>2
  <2>4. QED
    BY <1>1, <1>2, <1>3, <1>8, <2>2, <2>3
<1>9. CASE q < t
  <2>1. NearestInteger(n, d) <= q + 1 /\ t <= NearestInteger(k, c)
    BY <1>1, <1>2, <1>3
  <2>2. q + 1 <= t /\ NearestInteger(n, d) \in Nat /\ NearestInteger(k, c) \in Nat
    BY <1>1, <1>2, <1>3, <1>9
  <2>3. QED
    BY <1>1, <1>2, <2>1, <2>2
<1>10. QED
  BY <1>1, <1>2, <1>7, <1>8, <1>9

-----------------------------------------------------------------------------
(* Rounding to a float. *)

Full == PowerOfTwo[Precision]
Half == PowerOfTwo[Precision - 1]

LEMMA FullHalf == Half \in Nat /\ Full \in Nat /\ Full = 2 * Half /\ Half >= 4096 /\ Precision \in Nat
<1>1. Precision \in Nat /\ Precision - 1 \in Nat /\ (Precision - 1) + 1 = Precision
  BY PrecisionAssumption
<1>2. Half \in Nat /\ Full \in Nat /\ Full = 2 * Half
  BY <1>1, PowerOfTwoDef DEF Full, Half
<1>3. 12 \in Nat /\ 12 <= Precision - 1
  BY PrecisionAssumption
<1>4. PowerOfTwo[12] <= Half
  BY <1>1, <1>3, PowerGrows DEF Half
<1>5. PowerOfTwo[12] = 4096
  <2>1. \A n \in Nat : PowerOfTwo[n] \in Nat /\ PowerOfTwo[n + 3] = 8 * PowerOfTwo[n]
    <3> TAKE n \in Nat
    <3>1. /\ n + 1 \in Nat /\ n + 2 \in Nat
          /\ (n + 1) + 1 = n + 2 /\ (n + 2) + 1 = n + 3
      OBVIOUS
    <3>2. /\ PowerOfTwo[n] \in Nat /\ PowerOfTwo[n + 1] = 2 * PowerOfTwo[n]
          /\ PowerOfTwo[n + 2] = 2 * PowerOfTwo[n + 1]
          /\ PowerOfTwo[n + 3] = 2 * PowerOfTwo[n + 2]
      BY <3>1, PowerOfTwoDef
    <3>3. QED
      BY <3>2
  <2>2. 0 + 3 = 3 /\ 3 + 3 = 6 /\ 6 + 3 = 9 /\ 9 + 3 = 12
    OBVIOUS
  <2>3. PowerOfTwo[0] = 1 /\ PowerOfTwo[3] = 8 * PowerOfTwo[0]
    BY <2>1, <2>2, PowerOfTwoDef
  <2>4. PowerOfTwo[6] = 8 * PowerOfTwo[3] /\ PowerOfTwo[9] = 8 * PowerOfTwo[6]
    BY <2>1, <2>2
  <2>5. PowerOfTwo[12] = 8 * PowerOfTwo[9]
    BY <2>1, <2>2
  <2>6. QED
    BY <2>3, <2>4, <2>5
<1>6. QED
  BY <1>1, <1>2, <1>4, <1>5

(* The floats: zero, and those whose first bit is set. *)
Normal(x) == x \in [m : Half..(Full - 1), e : Int]

LEMMA NormalIsNotZero == \A x : Normal(x) => x # Zero /\ x.m \in Nat \ {0} /\ x.e \in Int
BY FullHalf DEF Normal, Zero

(* At exponent e the number n / d has Precision bits before the point. *)
Fits(n, d, e) ==
    Half * (d * Up(e)) <= n * Down(e) /\ n * Down(e) < Full * (d * Up(e))

Rounded(n, d, e) ==
    LET m == NearestInteger(n * Down(e), d * Up(e))
    IN  IF m = Full THEN [m |-> m \div 2, e |-> e + 1] ELSE [m |-> m, e |-> e]

LEMMA QuotientFits ==
    ASSUME NEW n \in Nat \ {0}, NEW d \in Nat \ {0}
    PROVE  \E e \in Int : Fits(n, d, e) /\ Quotient(n, d) = Rounded(n, d, e)
<1> DEFINE low  == Bits(n) - Bits(d) - Precision
           fits == n * Down(low) < Full * d * Up(low)
           a    == Bits(n) - 1
           b    == Bits(d) - 1
<1>1. /\ Bits(n) \in Nat \ {0} /\ PowerOfTwo[a] <= n /\ n < PowerOfTwo[Bits(n)]
      /\ Bits(d) \in Nat \ {0} /\ PowerOfTwo[b] <= d /\ d < PowerOfTwo[Bits(d)]
  BY BitsBracket
<1>2. /\ a \in Nat /\ b \in Nat /\ low \in Int /\ Precision \in Nat /\ Precision - 1 \in Nat
      /\ Bits(n) = a + 1 /\ Bits(d) = b + 1 /\ low = a + (-(b + Precision))
  BY <1>1, FullHalf, PrecisionAssumption
<1>3. /\ PowerOfTwo[a] \in Nat \ {0} /\ PowerOfTwo[b] \in Nat \ {0}
      /\ PowerOfTwo[Bits(n)] = 2 * PowerOfTwo[a] /\ PowerOfTwo[Bits(d)] = 2 * PowerOfTwo[b]
      /\ PowerOfTwo[b + Precision] = PowerOfTwo[b] * Full
  BY <1>2, PowerOfTwoDef, PowerAdds DEF Full
<1>4. Up(low) * (PowerOfTwo[b] * Full) = PowerOfTwo[a] * Down(low)
  <2>1. -(b + Precision) \in Int /\ -(b + Precision) <= 0 /\ -(-(b + Precision)) = b + Precision
    BY <1>2
  <2>2. /\ Up(a) = PowerOfTwo[a] /\ Down(a) = 1
        /\ Up(-(b + Precision)) = 1 /\ Down(-(b + Precision)) = PowerOfTwo[b + Precision]
    BY <1>2, <2>1, UpDown
  <2>3. Up(low) * Down(a) * Down(-(b + Precision)) = Up(a) * Up(-(b + Precision)) * Down(low)
    BY <1>2, <2>1, ExponentsAdd
  <2>4. Up(low) \in Nat /\ Down(low) \in Nat
    BY <1>2, UpDownType
  <2>5. QED
    BY <1>3, <2>2, <2>3, <2>4
<1> DEFINE U == Up(low)
           D == Down(low)
           A == PowerOfTwo[a]
           B == PowerOfTwo[b]
<1>5. U \in Nat \ {0} /\ D \in Nat \ {0}
  BY <1>2, UpDownType
<1>6. A \in Nat /\ B \in Nat /\ A <= n /\ n < 2 * A /\ B <= d /\ d < 2 * B /\ U * (B * Full) = A * D
  BY <1>1, <1>3, <1>4
<1>7. Quotient(n, d) = Rounded(n, d, IF fits THEN low ELSE low + 1)
  BY Zenon DEF Quotient, Rounded, Full
<1> HIDE DEF low, A, B, U, D
<1>8. Half * (d * U) <= n * D
  <2>1. d * (U * Half) <= (2 * B) * (U * Half)
    BY <1>5, <1>6, FullHalf, ProductGrows
  <2>2. (2 * B) * (U * Half) = A * D
    BY <1>5, <1>6, FullHalf
  <2>3. A * D <= n * D
    BY <1>5, <1>6, ProductGrows
  <2>4. d * (U * Half) = Half * (d * U) /\ d * (U * Half) \in Nat /\ A * D \in Nat /\ n * D \in Nat
    BY <1>5, <1>6, FullHalf
  <2>5. QED
    BY <2>1, <2>2, <2>3, <2>4
<1>9. n * D < 2 * (Full * (d * U))
  <2>1. (n + 1) * D <= (2 * A) * D
    BY <1>5, <1>6, ProductGrows
  <2>2. (n + 1) * D = n * D + D /\ (2 * A) * D = 2 * (U * (B * Full))
    BY <1>5, <1>6, FullHalf
  <2>3. B * (U * Full) <= d * (U * Full)
    BY <1>5, <1>6, FullHalf, ProductGrows
  <2>4. U * (B * Full) = B * (U * Full) /\ d * (U * Full) = Full * (d * U)
    BY <1>5, <1>6, FullHalf
  <2>5. B * (U * Full) \in Nat /\ d * (U * Full) \in Nat /\ n * D \in Nat
    BY <1>5, <1>6, FullHalf
  <2>6. QED
    BY <1>5, <2>1, <2>2, <2>3, <2>4, <2>5
<1>10. fits <=> n * D < Full * (d * U)
  BY <1>5, FullHalf DEF U, D
<1>11. CASE fits
  <2>1. Fits(n, d, low)
    BY <1>8, <1>10, <1>11 DEF Fits, U, D
  <2>2. QED
    BY <1>2, <1>7, <1>11, <2>1
<1>12. CASE ~fits
  <2>1. low + 1 \in Int
    BY <1>2
  <2>2. Up(low + 1) \in Nat /\ Down(low + 1) \in Nat
    BY <2>1, UpDownType
  <2>3. Full * (d * U) <= n * D
    <3>1. n * D \in Nat /\ Full * (d * U) \in Nat
      BY <1>5, FullHalf
    <3>2. QED
      BY <1>10, <1>12, <3>1
  <2>4. Fits(n, d, low + 1)
    <3>1. CASE Up(low + 1) = 2 * U /\ Down(low + 1) = D
      <4>1. /\ Half * (d * Up(low + 1)) = Full * (d * U)
            /\ Full * (d * Up(low + 1)) = 2 * (Full * (d * U))
        BY <1>5, <3>1, FullHalf
      <4>2. QED
        BY <1>9, <2>3, <3>1, <4>1 DEF Fits
    <3>2. CASE Up(low + 1) = U /\ D = 2 * Down(low + 1)
      <4>1. n * D = 2 * (n * Down(low + 1)) /\ Full * (d * U) = 2 * (Half * (d * U))
        BY <1>5, <2>2, <3>2, FullHalf
      <4>2. n * Down(low + 1) \in Nat /\ Half * (d * U) \in Nat /\ Full * (d * U) \in Nat
        BY <1>5, <2>2, FullHalf
      <4>3. Half * (d * U) <= n * Down(low + 1) /\ n * Down(low + 1) < Full * (d * U)
        BY <1>9, <2>3, <4>1, <4>2
      <4>4. QED
        BY <3>2, <4>3 DEF Fits
    <3>3. QED
      BY <1>2, <3>1, <3>2, UpOne DEF U, D
  <2>5. QED
    BY <1>7, <1>12, <2>1, <2>4
<1>13. QED
  BY <1>11, <1>12

LEMMA RoundedSignificand ==
    ASSUME NEW n \in Nat \ {0}, NEW d \in Nat \ {0}, NEW e \in Int, Fits(n, d, e)
    PROVE  /\ n * Down(e) \in Nat /\ d * Up(e) \in Nat \ {0}
           /\ NearestInteger(n * Down(e), d * Up(e)) \in Half..Full
<1>1. n * Down(e) \in Nat /\ d * Up(e) \in Nat \ {0}
  BY UpDownType
<1> DEFINE N == n * Down(e)
           D == d * Up(e)
<1>2. N \in Nat /\ D \in Nat \ {0} /\ Half * D <= N /\ N < Full * D
  BY <1>1 DEF Fits
<1> HIDE DEF N, D
<1>3. Half <= NearestInteger(N, D) /\ NearestInteger(N, D) <= Full
  BY <1>2, FullHalf, NearestIntegerBetween
<1>4. NearestInteger(N, D) \in Nat
  BY <1>2, NearestIntegerNear
<1>5. NearestInteger(N, D) \in Half..Full
  BY <1>3, <1>4, FullHalf
<1>6. QED
  BY <1>1, <1>5 DEF N, D

LEMMA RoundedNormal ==
    ASSUME NEW n \in Nat \ {0}, NEW d \in Nat \ {0}, NEW e \in Int, Fits(n, d, e)
    PROVE  Normal(Rounded(n, d, e))
<1> DEFINE m == NearestInteger(n * Down(e), d * Up(e))
<1>1. m \in Half..Full
  BY RoundedSignificand
<1>2. Rounded(n, d, e) = IF m = Full THEN [m |-> m \div 2, e |-> e + 1] ELSE [m |-> m, e |-> e]
  BY Zenon DEF Rounded
<1> HIDE DEF m
<1>3. Full \div 2 = Half /\ Half \in Half..(Full - 1)
  BY FullHalf
<1>4. m # Full => m \in Half..(Full - 1)
  BY <1>1, FullHalf
<1>5. QED
  BY <1>2, <1>3, <1>4 DEF Normal

(* A float is near n / d when its relative error is at most 1 / Full. *)
Near(x, n, d) ==
    /\ (Full - 1) * (n * Down(x.e)) <= Full * (x.m * (d * Up(x.e)))
    /\ Full * (x.m * (d * Up(x.e))) <= (Full + 1) * (n * Down(x.e))

LEMMA RoundedNear ==
    ASSUME NEW n \in Nat \ {0}, NEW d \in Nat \ {0}, NEW e \in Int, Fits(n, d, e)
    PROVE  Near(Rounded(n, d, e), n, d)
<1> DEFINE N == n * Down(e)
           D == d * Up(e)
           m == NearestInteger(N, D)
<1>1. N \in Nat /\ D \in Nat \ {0} /\ m \in Half..Full
  BY RoundedSignificand
<1>2. Half * D <= N
  BY DEF Fits
<1>3. Rounded(n, d, e) = IF m = Full THEN [m |-> m \div 2, e |-> e + 1] ELSE [m |-> m, e |-> e]
  BY Zenon DEF Rounded
<1>4. 2 * N - D <= 2 * (m * D) /\ 2 * (m * D) <= 2 * N + D
  <2> HIDE DEF N, D
  <2>1. QED
    BY <1>1, NearestIntegerNear
<1> HIDE DEF m
<1>5. (Full - 1) * N <= Full * (m * D) /\ Full * (m * D) <= (Full + 1) * N
  <2> HIDE DEF N, D
  <2> DEFINE M == m * D
  <2>1. M \in Nat /\ Full * D <= 2 * N
    BY <1>1, <1>2, FullHalf
  <2>2. 2 * N - D <= 2 * M /\ 2 * M <= 2 * N + D
    BY <1>4
  <2> HIDE DEF M
  <2>3. (2 * N) * Full <= (2 * M + D) * Full
    BY <1>1, <2>1, <2>2, FullHalf, ProductGrows
  <2>4. (2 * M) * Full <= (2 * N + D) * Full
    BY <1>1, <2>1, <2>2, FullHalf, ProductGrows
  <2>5. /\ (2 * N) * Full = 2 * (Full * N) /\ (2 * M + D) * Full = 2 * (Full * M) + Full * D
        /\ (2 * M) * Full = 2 * (Full * M) /\ (2 * N + D) * Full = 2 * (Full * N) + Full * D
        /\ (Full - 1) * N = Full * N - N /\ (Full + 1) * N = Full * N + N
        /\ Full * N \in Nat /\ Full * M \in Nat /\ Full * D \in Nat
    BY <1>1, <2>1, FullHalf
  <2>6. (Full - 1) * N <= Full * M /\ Full * M <= (Full + 1) * N
    BY <1>1, <2>1, <2>3, <2>4, <2>5
  <2>7. QED
    BY <2>6 DEF M
<1>6. CASE m # Full
  BY <1>3, <1>5, <1>6 DEF Near
<1>7. CASE m = Full
  <2>1. Rounded(n, d, e) = [m |-> Half, e |-> e + 1]
    BY <1>3, <1>7, FullHalf
  <2> DEFINE N1 == n * Down(e + 1)
             D1 == d * Up(e + 1)
  <2>2. N1 \in Nat /\ D1 \in Nat
    BY UpDownType
  <2>3. (N1 = N /\ D1 = 2 * D) \/ (N = 2 * N1 /\ D1 = D)
    <3>1. Up(e) \in Nat /\ Down(e) \in Nat /\ Up(e + 1) \in Nat /\ Down(e + 1) \in Nat
      BY UpDownType
    <3>2. QED
      BY <3>1, UpOne
  <2> HIDE DEF N, D, N1, D1
  <2>4. (Full - 1) * N1 <= Full * (Half * D1) /\ Full * (Half * D1) <= (Full + 1) * N1
    <3>1. CASE N1 = N /\ D1 = 2 * D
      <4>1. Half * D1 = Full * D
        BY <1>1, <3>1, FullHalf
      <4>2. QED
        BY <1>5, <1>7, <3>1, <4>1
    <3>2. CASE N = 2 * N1 /\ D1 = D
      <4>1. /\ (Full - 1) * N = 2 * ((Full - 1) * N1) /\ (Full + 1) * N = 2 * ((Full + 1) * N1)
            /\ Full * (Full * D) = 2 * (Full * (Half * D1))
        BY <1>1, <2>2, <3>2, FullHalf
      <4>2. /\ (Full - 1) * N1 \in Int /\ (Full + 1) * N1 \in Int
            /\ Full * (Half * D1) \in Int
        BY <2>2, FullHalf
      <4>3. QED
        BY <1>5, <1>7, <4>1, <4>2
    <3>3. QED
      BY <2>3, <3>1, <3>2
  <2>5. QED
    BY <2>1, <2>4 DEF Near, N1, D1
<1>8. QED
  BY <1>6, <1>7

(* A larger exponent is at least a factor of two. *)
LEMMA ScaleOrder ==
    ASSUME NEW s \in Int, NEW t \in Int, s < t
    PROVE  2 * (Up(s) * Down(t)) <= Up(t) * Down(s)
<1> DEFINE k == t - s
<1>1. k \in Nat /\ k >= 1 /\ s + k = t /\ k \in Int /\ k - 1 \in Nat /\ (k - 1) + 1 = k
  OBVIOUS
<1> HIDE DEF k
<1>2. Up(k) = PowerOfTwo[k] /\ Down(k) = 1
  BY <1>1, UpDown
<1>3. Up(k) \in Nat /\ 2 <= Up(k)
  BY <1>1, <1>2, PowerOfTwoDef, PowerExceeds
<1>4. Up(t) * Down(s) * Down(k) = Up(s) * Up(k) * Down(t)
  BY <1>1, ExponentsAdd
<1> DEFINE u == Up(s) * Down(t)
<1>5. Up(t) \in Nat /\ Down(s) \in Nat /\ Up(s) \in Nat /\ Down(t) \in Nat /\ u \in Nat
  BY UpDownType
<1>6. Up(t) * Down(s) = Up(k) * u
  BY <1>2, <1>3, <1>4, <1>5
<1> HIDE DEF u
<1>7. 2 * u <= Up(k) * u
  BY <1>3, <1>5, ProductGrows
<1>8. QED
  BY <1>6, <1>7 DEF u

(* The exponent grows with the number. *)
LEMMA ExponentMonotone ==
    ASSUME NEW a \in Nat \ {0}, NEW b \in Nat \ {0}, NEW c \in Nat \ {0}, NEW d \in Nat \ {0},
           a * d <= c * b,
           NEW s \in Int, NEW t \in Int, Fits(a, b, s), Fits(c, d, t)
    PROVE  s <= t
<1> SUFFICES ASSUME t < s PROVE FALSE
  OBVIOUS
<1> DEFINE Us == Up(s)  Ds == Down(s)  Ut == Up(t)  Dt == Down(t)
<1>1. Us \in Nat \ {0} /\ Ds \in Nat \ {0} /\ Ut \in Nat \ {0} /\ Dt \in Nat \ {0}
  BY UpDownType
<1>2. 2 * (Ut * Ds) <= Us * Dt
  BY ScaleOrder
<1>3. Half * (b * Us) <= a * Ds /\ c * Dt < Full * (d * Ut)
  BY DEF Fits
<1> HIDE DEF Us, Ds, Ut, Dt
<1>4. (Half * (b * Us)) * Dt <= (a * Ds) * Dt
  BY <1>1, <1>3, FullHalf, ProductGrows
<1>5. (2 * (Ut * Ds)) * (Half * b) <= (Us * Dt) * (Half * b)
  BY <1>1, <1>2, FullHalf, ProductGrows
<1>6. (Full * (b * Ut)) * Ds <= (a * Dt) * Ds
  <2>1. (Half * (b * Us)) * Dt = (Us * Dt) * (Half * b)
    BY <1>1, FullHalf
  <2>2. (2 * (Ut * Ds)) * (Half * b) = (Full * (b * Ut)) * Ds
    BY <1>1, FullHalf
  <2>3. (a * Ds) * Dt = (a * Dt) * Ds
    BY <1>1
  <2>4. (a * Dt) * Ds \in Nat /\ (Full * (b * Ut)) * Ds \in Nat /\ (Us * Dt) * (Half * b) \in Nat
    BY <1>1, FullHalf
  <2>5. QED
    BY <1>4, <1>5, <2>1, <2>2, <2>3, <2>4
<1>7. Full * (b * Ut) <= a * Dt
  <2>1. Full * (b * Ut) \in Nat /\ a * Dt \in Nat
    BY <1>1, FullHalf
  <2>2. QED
    BY <1>1, <1>6, <2>1, ProductCancels
<1>8. (Full * (b * Ut)) * d <= (a * Dt) * d
  BY <1>1, <1>7, FullHalf, ProductGrows
<1>9. (a * d) * Dt <= (c * b) * Dt
  BY <1>1, ProductGrows
<1>10. (c * Dt + 1) * b <= (Full * (d * Ut)) * b
  BY <1>1, <1>3, FullHalf, ProductGrows
<1>11. /\ (Full * (b * Ut)) * d = (Full * (d * Ut)) * b /\ (a * Dt) * d = (a * d) * Dt
       /\ (c * Dt + 1) * b = (c * b) * Dt + b
       /\ (c * b) * Dt \in Nat /\ (a * d) * Dt \in Nat /\ (Full * (d * Ut)) * b \in Nat
  BY <1>1, FullHalf
<1>12. QED
  BY <1>8, <1>9, <1>10, <1>11

(* Division rounds monotonically: a smaller fraction has no larger float. *)
THEOREM QuotientMonotone ==
    ASSUME NEW a \in Nat, NEW b \in Nat \ {0}, NEW c \in Nat, NEW d \in Nat \ {0},
           a * d <= c * b
    PROVE  AtMost(Quotient(a, b), Quotient(c, d))
<1>1. CASE a = 0
  <2>1. Quotient(a, b) = Zero
    BY <1>1 DEF Quotient
  <2>2. QED
    BY <2>1 DEF AtMost, Less
<1>2. CASE a # 0
  <2>1. a \in Nat \ {0} /\ c \in Nat \ {0}
    <3>1. a * d > 0
      BY <1>2
    <3>2. QED
      BY <1>2, <3>1
  <2>2. PICK s \in Int : Fits(a, b, s) /\ Quotient(a, b) = Rounded(a, b, s)
    BY <2>1, QuotientFits
  <2>3. PICK t \in Int : Fits(c, d, t) /\ Quotient(c, d) = Rounded(c, d, t)
    BY <2>1, QuotientFits
  <2> DEFINE x == Quotient(a, b)
             y == Quotient(c, d)
             m == NearestInteger(a * Down(s), b * Up(s))
             k == NearestInteger(c * Down(t), d * Up(t))
  <2>4. Normal(x) /\ Normal(y) /\ m \in Half..Full /\ k \in Half..Full
    BY <2>1, <2>2, <2>3, RoundedNormal, RoundedSignificand
  <2>5. /\ x = IF m = Full THEN [m |-> m \div 2, e |-> s + 1] ELSE [m |-> m, e |-> s]
        /\ y = IF k = Full THEN [m |-> k \div 2, e |-> t + 1] ELSE [m |-> k, e |-> t]
    BY <2>2, <2>3, Zenon DEF Rounded
  <2>6. s <= t
    BY <2>1, <2>2, <2>3, ExponentMonotone
  <2>7. s = t => m <= k
    <3> SUFFICES ASSUME s = t PROVE m <= k
      OBVIOUS
    <3> DEFINE U == Up(s)
               D == Down(s)
    <3>1. U \in Nat \ {0} /\ D \in Nat \ {0}
      BY UpDownType
    <3> HIDE DEF U, D
    <3>2. (a * d) * (D * U) <= (c * b) * (D * U)
      BY <2>1, <3>1, ProductGrows
    <3>3. (a * D) * (d * U) <= (c * D) * (b * U)
      <4>1. (a * d) * (D * U) = (a * D) * (d * U) /\ (c * b) * (D * U) = (c * D) * (b * U)
        BY <2>1, <3>1
      <4>2. QED
        BY <3>2, <4>1
    <3>4. /\ a * D \in Nat /\ b * U \in Nat \ {0} /\ c * D \in Nat /\ d * U \in Nat \ {0}
      BY <2>1, <3>1
    <3>5. NearestInteger(a * D, b * U) <= NearestInteger(c * D, d * U)
      BY <3>3, <3>4, NearestIntegerMonotone
    <3>6. QED
      BY <3>5 DEF U, D
  <2> HIDE DEF x, y, m, k
  <2>8. x # Zero /\ y # Zero
    BY <2>4, NormalIsNotZero
  <2>9. Full \div 2 = Half
    BY FullHalf
  <2>10. x = y \/ x.e < y.e \/ (x.e = y.e /\ x.m < y.m)
    BY <2>4, <2>5, <2>6, <2>7, <2>9, FullHalf
  <2>11. QED
    BY <2>8, <2>10 DEF AtMost, Less, x, y
<1>3. QED
  BY <1>1, <1>2

-----------------------------------------------------------------------------
(* Floats apart. *)

LEMMA QuotientNear ==
    ASSUME NEW n \in Nat \ {0}, NEW d \in Nat \ {0}
    PROVE  Normal(Quotient(n, d)) /\ Near(Quotient(n, d), n, d)
<1>1. PICK e \in Int : Fits(n, d, e) /\ Quotient(n, d) = Rounded(n, d, e)
  BY QuotientFits
<1>2. QED
  BY <1>1, RoundedNormal, RoundedNear

(* The order of two floats is the order of their values. *)
LEMMA OrderOfValues ==
    ASSUME NEW x, NEW y, Normal(x), Normal(y), ~Less(x, y)
    PROVE  y.m * (Up(y.e) * Down(x.e)) <= x.m * (Up(x.e) * Down(y.e))
<1> DEFINE u == Up(y.e) * Down(x.e)
           v == Up(x.e) * Down(y.e)
<1>1. /\ x.m \in Half..(Full - 1) /\ x.e \in Int
      /\ y.m \in Half..(Full - 1) /\ y.e \in Int
  BY DEF Normal
<1>2. u \in Nat /\ v \in Nat
  BY <1>1, UpDownType
<1>3. y.e < x.e \/ (y.e = x.e /\ y.m <= x.m)
  <2>1. ~(x.e < y.e \/ (x.e = y.e /\ x.m < y.m))
    BY NormalIsNotZero DEF Less
  <2>2. QED
    BY <1>1, <2>1, FullHalf
<1>4. CASE y.e = x.e /\ y.m <= x.m
  <2>1. u = v
    BY <1>4
  <2> HIDE DEF u, v
  <2>2. y.m * u <= x.m * u
    BY <1>1, <1>2, <1>4, FullHalf, ProductGrows
  <2>3. QED
    BY <2>1, <2>2 DEF u, v
<1>5. CASE y.e < x.e
  <2>1. 2 * u <= v
    BY <1>1, <1>5, ScaleOrder
  <2> HIDE DEF u, v
  <2>2. y.m * u <= (2 * x.m) * u
    BY <1>1, <1>2, FullHalf, ProductGrows
  <2>3. (2 * u) * x.m <= v * x.m
    BY <1>1, <1>2, <2>1, FullHalf, ProductGrows
  <2>4. (2 * x.m) * u = (2 * u) * x.m /\ v * x.m = x.m * v
    BY <1>1, <1>2, FullHalf
  <2>5. y.m * u \in Nat /\ (2 * u) * x.m \in Nat /\ x.m * v \in Nat
    BY <1>1, <1>2, FullHalf
  <2>6. y.m * u <= x.m * v
    BY <2>2, <2>3, <2>4, <2>5
  <2>7. QED
    BY <2>6 DEF u, v
<1>6. QED
  BY <1>3, <1>4, <1>5

(* Fractions that differ by more than the two errors keep their order. *)
LEMMA SeparatedLess ==
    ASSUME NEW a \in Nat, NEW b \in Nat \ {0}, NEW c \in Nat, NEW d \in Nat \ {0},
           (Full + 1) * (a * d) < (Full - 1) * (c * b),
           NEW x, NEW y, Normal(x), Normal(y), Near(x, a, b), Near(y, c, d)
    PROVE  Less(x, y)
<1> SUFFICES ASSUME ~Less(x, y) PROVE FALSE
  OBVIOUS
<1> DEFINE X == x.m  Ux == Up(x.e)  Dx == Down(x.e)
           Y == y.m  Uy == Up(y.e)  Dy == Down(y.e)
<1>1. /\ X \in Nat \ {0} /\ Ux \in Nat \ {0} /\ Dx \in Nat \ {0}
      /\ Y \in Nat \ {0} /\ Uy \in Nat \ {0} /\ Dy \in Nat \ {0}
  BY NormalIsNotZero, UpDownType
<1>2. Y * (Uy * Dx) <= X * (Ux * Dy)
  BY OrderOfValues
<1>3. Full * (X * (b * Ux)) <= (Full + 1) * (a * Dx)
  BY DEF Near
<1>4. (Full - 1) * (c * Dy) <= Full * (Y * (d * Uy))
  BY DEF Near
<1>5. Full \in Nat /\ Full - 1 \in Nat
  BY FullHalf
<1> HIDE DEF X, Ux, Dx, Y, Uy, Dy
<1> DEFINE z == Dx * Dy
           s == (Full * (b * d)) * (Y * (Uy * Dx))
           t == (Full * (b * d)) * (X * (Ux * Dy))
<1>6. ((Full - 1) * (c * b)) * z <= s
  <2>1. ((Full - 1) * (c * Dy)) * (b * Dx) <= (Full * (Y * (d * Uy))) * (b * Dx)
    BY <1>1, <1>4, <1>5, ProductGrows
  <2>2. /\ ((Full - 1) * (c * Dy)) * (b * Dx) = ((Full - 1) * (c * b)) * z
        /\ (Full * (Y * (d * Uy))) * (b * Dx) = s
    BY <1>1, <1>5
  <2>3. QED
    BY <2>1, <2>2
<1>7. s <= t
  <2> DEFINE k == Full * (b * d)
             g == Y * (Uy * Dx)
             h == X * (Ux * Dy)
  <2>1. k \in Nat /\ g \in Nat /\ h \in Nat
    BY <1>1, <1>5
  <2>2. g <= h
    BY <1>2
  <2> HIDE DEF k, g, h
  <2>3. g * k <= h * k /\ g * k = k * g /\ h * k = k * h
    BY <2>1, <2>2, ProductGrows
  <2>4. k * g <= k * h
    BY <2>3
  <2>5. QED
    BY <2>4 DEF k, g, h
<1>8. t <= ((Full + 1) * (a * d)) * z
  <2>1. (Full * (X * (b * Ux))) * (d * Dy) <= ((Full + 1) * (a * Dx)) * (d * Dy)
    BY <1>1, <1>3, <1>5, ProductGrows
  <2>2. /\ ((Full + 1) * (a * Dx)) * (d * Dy) = ((Full + 1) * (a * d)) * z
        /\ (Full * (X * (b * Ux))) * (d * Dy) = t
    BY <1>1, <1>5
  <2>3. QED
    BY <2>1, <2>2
<1>9. /\ z \in Nat \ {0} /\ s \in Nat /\ t \in Nat
      /\ (Full - 1) * (c * b) \in Nat /\ (Full + 1) * (a * d) \in Nat
  BY <1>1, <1>5
<1> DEFINE p == (Full - 1) * (c * b)
           q == (Full + 1) * (a * d)
<1> HIDE DEF z, s, t, p, q
<1>10. p * z <= q * z
  <2>1. p * z \in Int /\ q * z \in Int
    BY <1>9 DEF p, q
  <2>2. QED
    BY <1>6, <1>7, <1>8, <1>9, <2>1 DEF p, q
<1>11. p <= q
  BY <1>9, <1>10, ProductCancels DEF p, q
<1>12. QED
  BY <1>9, <1>11 DEF p, q

(* A float times a power of two is as near to the fraction times that power. *)
LEMMA ShiftNear ==
    ASSUME NEW n \in Nat, NEW d \in Nat, NEW x, Normal(x), Near(x, n, d), NEW s \in Int
    PROVE  Normal(Shift(x, s)) /\ Near(Shift(x, s), n * Up(s), d * Down(s))
<1> DEFINE e == x.e
           y == Shift(x, s)
<1>1. x.m \in Half..(Full - 1) /\ x.m \in Nat /\ e \in Int /\ x # Zero
  BY NormalIsNotZero, FullHalf DEF Normal
<1>2. y = [m |-> x.m, e |-> e + s]
  BY <1>1 DEF Shift, Normal
<1>3. Normal(y)
  BY <1>1, <1>2 DEF Normal
<1> DEFINE m == x.m
           U == Up(e)  D == Down(e)  Us == Up(s)  Ds == Down(s)  V == Up(e + s)  E == Down(e + s)
<1>4. /\ U \in Nat \ {0} /\ D \in Nat \ {0} /\ Us \in Nat \ {0} /\ Ds \in Nat \ {0}
      /\ V \in Nat \ {0} /\ E \in Nat \ {0}
  BY <1>1, UpDownType
<1>5. V * D * Ds = U * Us * E
  BY <1>1, ExponentsAdd
<1>6. /\ (Full - 1) * (n * D) <= Full * (m * (d * U))
      /\ Full * (m * (d * U)) <= (Full + 1) * (n * D)
  BY DEF Near
<1>7. m \in Nat /\ Full \in Nat /\ Full - 1 \in Nat
  BY <1>1, FullHalf
<1> HIDE DEF y, e, m, U, D, Us, Ds, V, E
<1> DEFINE p == (n * Us) * E
           q == m * ((d * Ds) * V)
           k == Us * E
<1>8. p \in Nat /\ q \in Nat /\ k \in Nat
  BY <1>4, <1>7
<1>9. (m * (d * U)) * k = q * D
  <2>1. (m * (d * U)) * k = (m * d) * (U * Us * E)
    BY <1>4, <1>7
  <2>2. q * D = (m * d) * (V * D * Ds)
    BY <1>4, <1>7
  <2>3. QED
    BY <1>5, <2>1, <2>2
<1>10. (n * D) * k = p * D
  BY <1>4
<1>11. /\ m * (d * U) \in Nat /\ n * D \in Nat
  BY <1>4, <1>7
<1> HIDE DEF p, q, k
<1> DEFINE r == m * (d * U)
           t == n * D
<1> HIDE DEF r, t
<1>12. ((Full - 1) * t) * k <= (Full * r) * k /\ (Full * r) * k <= ((Full + 1) * t) * k
  BY <1>6, <1>7, <1>8, <1>11, ProductGrows DEF r, t
<1>13. /\ ((Full - 1) * t) * k = ((Full - 1) * p) * D /\ (Full * r) * k = (Full * q) * D
       /\ ((Full + 1) * t) * k = ((Full + 1) * p) * D
  BY <1>4, <1>7, <1>8, <1>9, <1>10, <1>11 DEF r, t
<1>14. (Full - 1) * p <= Full * q /\ Full * q <= (Full + 1) * p
  <2>1. (Full - 1) * p \in Int /\ Full * q \in Int /\ (Full + 1) * p \in Int
    BY <1>7, <1>8
  <2>2. /\ ((Full - 1) * p) * D <= (Full * q) * D
        /\ (Full * q) * D <= ((Full + 1) * p) * D
    BY <1>12, <1>13
  <2>3. QED
    BY <1>4, <2>1, <2>2, ProductCancels
<1>15. Near(y, n * Us, d * Ds)
  BY <1>2, <1>14 DEF Near, p, q, m, E, V
<1>16. QED
  BY <1>3, <1>15 DEF y, Us, Ds

LEMMA LessIsStrict ==
    ASSUME NEW x, NEW y, x = Zero \/ Normal(x), y = Zero \/ Normal(y), Less(x, y)
    PROVE  ~AtMost(y, x)
<1>1. Normal(x) => x # Zero /\ x.m \in Int /\ x.e \in Int
  BY NormalIsNotZero
<1>2. Normal(y) => y # Zero /\ y.m \in Int /\ y.e \in Int
  BY NormalIsNotZero
<1>3. QED
  BY <1>1, <1>2 DEF Less, AtMost

LEMMA QuotientType ==
    ASSUME NEW n \in Nat, NEW d \in Nat \ {0}
    PROVE  IF n = 0 THEN Quotient(n, d) = Zero ELSE Normal(Quotient(n, d))
<1>1. n = 0 => Quotient(n, d) = Zero
  BY DEF Quotient
<1>2. QED
  BY <1>1, QuotientNear

(* Comparing two rounded quotients decides as comparing the fractions does, equality
   included, as long as the cross product has a bit less than a float. *)
THEOREM QuotientsCompareExactly ==
    ASSUME NEW a \in Nat, NEW b \in Nat \ {0}, NEW c \in Nat, NEW d \in Nat \ {0},
           2 * (c * b) <= Full
    PROVE  AtMost(Quotient(c, d), Quotient(a, b)) <=> c * b <= a * d
<1>1. ASSUME c * b <= a * d PROVE AtMost(Quotient(c, d), Quotient(a, b))
  BY <1>1, QuotientMonotone
<1>2. ASSUME a * d < c * b PROVE ~AtMost(Quotient(c, d), Quotient(a, b))
  <2>1. c # 0
    BY <1>2
  <2>2. Less(Quotient(a, b), Quotient(c, d))
    <3>1. CASE a = 0
      BY <2>1, <3>1, QuotientType, NormalIsNotZero DEF Less
    <3>2. CASE a # 0
      <4>1. /\ Normal(Quotient(a, b)) /\ Near(Quotient(a, b), a, b)
            /\ Normal(Quotient(c, d)) /\ Near(Quotient(c, d), c, d)
        BY <2>1, <3>2, QuotientNear
      <4>2. (Full + 1) * (a * d) < (Full - 1) * (c * b)
        <5> DEFINE A == a * d
                   C == c * b
        <5>1. A \in Nat /\ C \in Nat /\ A + 1 <= C /\ 2 * C <= Full
          BY <1>2
        <5> HIDE DEF A, C
        <5>2. A * (Full + 1) <= (C - 1) * (Full + 1)
          BY <5>1, FullHalf, ProductGrows
        <5>3. /\ (C - 1) * (Full + 1) = C * Full + C - Full - 1
              /\ (Full - 1) * C = C * Full - C /\ C * Full \in Nat
              /\ A * (Full + 1) = (Full + 1) * A /\ (Full + 1) * A \in Nat
          BY <5>1, FullHalf
        <5>4. (Full + 1) * A < (Full - 1) * C
          BY <5>1, <5>2, <5>3, FullHalf
        <5>5. QED
          BY <5>4 DEF A, C
      <4>3. QED
        BY <4>1, <4>2, SeparatedLess
    <3>3. QED
      BY <3>1, <3>2
  <2>3. QED
    BY <2>2, QuotientType, LessIsStrict
<1>3. a * d \in Nat /\ c * b \in Nat
  OBVIOUS
<1>4. QED
  BY <1>1, <1>2, <1>3

-----------------------------------------------------------------------------
(* A quotient of a quotient, which is rounded twice. *)

LEMMA TwoRoundings ==
    ASSUME NEW F \in Nat, NEW A \in Nat, NEW C \in Nat, 4 * A + 4 <= F
    PROVE  /\ A < C => ((F + 1) * (F + 1)) * A < ((F - 1) * F) * C
           /\ C < A => ((F + 1) * F) * C < ((F - 1) * (F - 1)) * A
<1> DEFINE s == F * F
           t == F * A
<1>1. s \in Nat /\ t \in Nat /\ 4 * t + 4 * F <= s
  <2>1. (4 * A + 4) * F <= F * F
    BY ProductGrows
  <2>2. (4 * A + 4) * F = 4 * t + 4 * F
    OBVIOUS
  <2>3. QED
    BY <2>1, <2>2
<1> DEFINE v == s * A
<1>2. /\ ((F + 1) * (F + 1)) * A = v + 2 * t + A
      /\ ((F - 1) * (F - 1)) * A = v - 2 * t + A
  OBVIOUS
<1>3. ASSUME A < C PROVE v + s - t - F <= ((F - 1) * F) * C
  <2>1. (F - 1) * F \in Nat
    OBVIOUS
  <2>2. (A + 1) * ((F - 1) * F) <= C * ((F - 1) * F)
    BY <1>3, <2>1, ProductGrows
  <2>3. (A + 1) * ((F - 1) * F) = v + s - t - F
    OBVIOUS
  <2>4. QED
    BY <2>1, <2>2, <2>3
<1>4. ASSUME C < A PROVE ((F + 1) * F) * C <= v - s + t - F
  <2>1. (F + 1) * F \in Nat
    OBVIOUS
  <2>2. C * ((F + 1) * F) <= (A - 1) * ((F + 1) * F)
    BY <1>4, <2>1, ProductGrows
  <2>3. (A - 1) * ((F + 1) * F) = v - s + t - F
    OBVIOUS
  <2>4. QED
    BY <2>1, <2>2, <2>3
<1>5. /\ v \in Nat /\ ((F - 1) * F) * C \in Int /\ ((F + 1) * F) * C \in Int
  OBVIOUS
<1> DEFINE f == ((F + 1) * (F + 1)) * A
           g == ((F - 1) * (F - 1)) * A
           h == ((F - 1) * F) * C
           k == ((F + 1) * F) * C
<1>6. /\ f = v + 2 * t + A /\ g = v - 2 * t + A /\ v \in Nat /\ h \in Int /\ k \in Int
      /\ A < C => v + s - t - F <= h
      /\ C < A => k <= v - s + t - F
  BY <1>2, <1>3, <1>4, <1>5
<1> HIDE DEF f, g, h, k, v, s, t
<1>7. (A < C => f < h) /\ (C < A => k < g)
  BY <1>1, <1>6
<1>8. QED
  BY <1>7 DEF f, g, h, k

(* What dividing by a rounded quotient is near to. *)
LEMMA OverNear ==
    ASSUME NEW n \in Nat \ {0}, NEW x, Normal(x)
    PROVE  Normal(Over(n, x)) /\ Near(Over(n, x), n * Down(x.e), x.m * Up(x.e))
<1>1. x.m \in Nat \ {0} /\ x.e \in Int /\ -x.e \in Int
  BY NormalIsNotZero
<1>2. Normal(Quotient(n, x.m)) /\ Near(Quotient(n, x.m), n, x.m)
  BY <1>1, QuotientNear
<1>3. Up(-x.e) = Down(x.e) /\ Down(-x.e) = Up(x.e)
  BY <1>1 DEF Up, Down
<1>4. QED
  BY <1>1, <1>2, <1>3, ShiftNear DEF Over

(* n / (w / p), rounded twice, is on the side of k that the exact number is on, unless
   it is k. *)
THEOREM OverQuotientKeepsSide ==
    ASSUME NEW n \in Nat, NEW w \in Nat \ {0}, NEW p \in Nat \ {0}, NEW k \in Nat,
           4 * (k * w) + 4 <= Full
    PROVE  /\ k * w < n * p => Less(Float(k), Over(n, Quotient(w, p)))
           /\ n * p < k * w => Less(Over(n, Quotient(w, p)), Float(k))
<1> DEFINE x == Quotient(w, p)
           m == x.m
           U == Up(x.e)
           D == Down(x.e)
           A == k * w
           C == n * p
<1>1. Normal(x) /\ Near(x, w, p)
  BY QuotientNear
<1>2. /\ m \in Nat \ {0} /\ U \in Nat \ {0} /\ D \in Nat \ {0}
      /\ Full \in Nat /\ Full - 1 \in Nat
  BY <1>1, NormalIsNotZero, UpDownType, FullHalf
<1>3. /\ (Full - 1) * (w * D) <= Full * (m * (p * U))
      /\ Full * (m * (p * U)) <= (Full + 1) * (w * D)
  BY <1>1 DEF Near
<1>4. n # 0 => Normal(Over(n, x)) /\ Near(Over(n, x), n * D, m * U)
  BY <1>1, OverNear
<1>5. n = 0 => Over(n, x) = Zero
  BY DEF Over, Quotient, Shift
<1>6. /\ k # 0 => Normal(Float(k)) /\ Near(Float(k), k, 1)
      /\ k = 0 => Float(k) = Zero
  BY QuotientNear, QuotientType DEF Float
<1>7. A \in Nat /\ C \in Nat /\ 4 * A + 4 <= Full
  OBVIOUS
<1>8. /\ A < C => ((Full + 1) * (Full + 1)) * A < ((Full - 1) * Full) * C
      /\ C < A => ((Full + 1) * Full) * C < ((Full - 1) * (Full - 1)) * A
  BY <1>2, <1>7, TwoRoundings
<1> HIDE DEF x, m, U, D
<1> DEFINE z == Full * p
           r == k * (m * U)
           s == n * D
<1>9. z \in Nat \ {0} /\ r \in Nat /\ s \in Nat
  BY <1>2, FullHalf
<1>10. ((Full + 1) * r) * z <= ((Full + 1) * (Full + 1)) * A * D
  <2>1. (Full * (m * (p * U))) * ((Full + 1) * k) <= ((Full + 1) * (w * D)) * ((Full + 1) * k)
    BY <1>2, <1>3, ProductGrows
  <2>2. (Full * (m * (p * U))) * ((Full + 1) * k) = ((Full + 1) * r) * z
    BY <1>2
  <2>3. ((Full + 1) * (w * D)) * ((Full + 1) * k) = ((Full + 1) * (Full + 1)) * A * D
    BY <1>2
  <2>4. QED
    BY <2>1, <2>2, <2>3
<1>11. ((Full - 1) * (Full - 1)) * A * D <= ((Full - 1) * r) * z
  <2>1. ((Full - 1) * (w * D)) * ((Full - 1) * k) <= (Full * (m * (p * U))) * ((Full - 1) * k)
    BY <1>2, <1>3, ProductGrows
  <2>2. (Full * (m * (p * U))) * ((Full - 1) * k) = ((Full - 1) * r) * z
    BY <1>2
  <2>3. ((Full - 1) * (w * D)) * ((Full - 1) * k) = ((Full - 1) * (Full - 1)) * A * D
    BY <1>2
  <2>4. QED
    BY <2>1, <2>2, <2>3
<1>12. /\ ((Full - 1) * s) * z = ((Full - 1) * Full) * C * D
       /\ ((Full + 1) * s) * z = ((Full + 1) * Full) * C * D
  BY <1>2
<1>13. ASSUME A < C PROVE Less(Float(k), Over(n, x))
  <2>1. n # 0
    BY <1>13, <1>7
  <2>2. CASE k = 0
    BY <1>4, <1>6, <2>1, <2>2, NormalIsNotZero DEF Less
  <2>3. CASE k # 0
    <3>1. (Full + 1) * r < (Full - 1) * s
      <4> DEFINE f == (Full + 1) * r
                 g == (Full - 1) * s
                 a == ((Full + 1) * (Full + 1)) * A
                 c == ((Full - 1) * Full) * C
      <4>1. f \in Nat /\ g \in Nat /\ a \in Nat /\ c \in Nat
        BY <1>2, <1>7, <1>9
      <4>2. f * z <= a * D /\ g * z = c * D /\ a < c
        BY <1>8, <1>10, <1>12, <1>13
      <4> HIDE DEF f, g, a, c
      <4>3. (a + 1) * D <= c * D /\ (a + 1) * D = a * D + D
        BY <1>2, <4>1, <4>2, ProductGrows
      <4>4. f * z < g * z
        BY <1>2, <1>9, <4>1, <4>2, <4>3
      <4>5. f < g
        <5> SUFFICES ASSUME g <= f PROVE FALSE
          BY <4>1
        <5>1. g * z <= f * z
          BY <1>9, <4>1, ProductGrows
        <5>2. QED
          BY <1>9, <4>1, <4>4, <5>1
      <4>6. QED
        BY <4>5 DEF f, g
    <3>2. (Full + 1) * (k * (m * U)) < (Full - 1) * (s * 1)
      BY <1>9, <3>1
    <3>3. m * U \in Nat \ {0}
      BY <1>2
    <3>4. Normal(Over(n, x)) /\ Near(Over(n, x), s, m * U)
      BY <1>4, <2>1
    <3>5. Normal(Float(k)) /\ Near(Float(k), k, 1)
      BY <1>6, <2>3
    <3> DEFINE q == m * U
    <3> HIDE DEF s, q
    <3>6. /\ s \in Nat /\ q \in Nat \ {0} /\ 1 \in Nat \ {0}
          /\ (Full + 1) * (k * q) < (Full - 1) * (s * 1)
          /\ Near(Over(n, x), s, q)
      BY <1>9, <3>2, <3>3, <3>4 DEF q
    <3>7. QED
      BY <3>4, <3>5, <3>6, SeparatedLess
  <2>4. QED
    BY <2>2, <2>3
<1>14. ASSUME C < A PROVE Less(Over(n, x), Float(k))
  <2>1. k # 0
    BY <1>14, <1>7
  <2>2. CASE n = 0
    BY <1>5, <1>6, <2>1, <2>2, NormalIsNotZero DEF Less
  <2>3. CASE n # 0
    <3>1. (Full + 1) * s < (Full - 1) * r
      <4> DEFINE f == (Full + 1) * s
                 g == (Full - 1) * r
                 c == ((Full + 1) * Full) * C
                 a == ((Full - 1) * (Full - 1)) * A
      <4>1. f \in Nat /\ g \in Nat /\ a \in Nat /\ c \in Nat
        BY <1>2, <1>7, <1>9
      <4>2. f * z = c * D /\ a * D <= g * z /\ c < a
        BY <1>8, <1>11, <1>12, <1>14
      <4> HIDE DEF f, g, a, c
      <4>3. (c + 1) * D <= a * D /\ (c + 1) * D = c * D + D
        BY <1>2, <4>1, <4>2, ProductGrows
      <4>4. f * z < g * z
        BY <1>2, <1>9, <4>1, <4>2, <4>3
      <4>5. f < g
        <5> SUFFICES ASSUME g <= f PROVE FALSE
          BY <4>1
        <5>1. g * z <= f * z
          BY <1>9, <4>1, ProductGrows
        <5>2. QED
          BY <1>9, <4>1, <4>4, <5>1
      <4>6. QED
        BY <4>5 DEF f, g
    <3>2. (Full + 1) * (s * 1) < (Full - 1) * (k * (m * U))
      BY <1>9, <3>1
    <3>3. m * U \in Nat \ {0}
      BY <1>2
    <3>4. Normal(Over(n, x)) /\ Near(Over(n, x), s, m * U)
      BY <1>4, <2>3
    <3>5. Normal(Float(k)) /\ Near(Float(k), k, 1)
      BY <1>6, <2>1
    <3> DEFINE q == m * U
    <3> HIDE DEF s, q
    <3>6. /\ s \in Nat /\ q \in Nat \ {0} /\ 1 \in Nat \ {0}
          /\ (Full + 1) * (s * 1) < (Full - 1) * (k * q)
          /\ Near(Over(n, x), s, q)
      BY <1>9, <3>2, <3>3, <3>4 DEF q
    <3>7. QED
      BY <3>4, <3>5, <3>6, SeparatedLess
  <2>4. QED
    BY <2>2, <2>3
<1>15. QED
  BY <1>13, <1>14 DEF x

-----------------------------------------------------------------------------
(* The product of an integer and a float, and how far it is above another integer. *)

(* A fraction less than half a unit of the scale above G units is rounded to at most
   G of them. *)
LEMMA RoundedAtMost ==
    ASSUME NEW n \in Nat \ {0}, NEW d \in Nat \ {0}, NEW e \in Int, Fits(n, d, e),
           NEW G \in Nat, 2 * (n * Down(e)) < (2 * G + 1) * (d * Up(e)),
           NEW x, x = Rounded(n, d, e)
    PROVE  x.m * (Up(x.e) * Down(e)) <= G * (Up(e) * Down(x.e))
<1> DEFINE N == n * Down(e)
           D == d * Up(e)
           m == NearestInteger(N, D)
<1>1. N \in Nat /\ D \in Nat \ {0} /\ m \in Half..Full
  BY RoundedSignificand
<1>2. x = IF m = Full THEN [m |-> m \div 2, e |-> e + 1] ELSE [m |-> m, e |-> e]
  BY Zenon DEF Rounded
<1>3. 2 * N < (2 * G + 1) * D
  OBVIOUS
<1> HIDE DEF N, D
<1>4. 2 * (m * D) <= 2 * N + D
  BY <1>1, NearestIntegerNear
<1> HIDE DEF m
<1>5. m \in Nat
  BY <1>1, FullHalf
<1>6. m <= G
  <2> SUFFICES ASSUME G + 1 <= m PROVE FALSE
    BY <1>5
  <2>1. (G + 1) * D <= m * D
    BY <1>1, <1>5, ProductGrows
  <2>2. (2 * G + 1) * D + D = 2 * ((G + 1) * D)
    BY <1>1
  <2>3. m * D \in Nat /\ (G + 1) * D \in Nat /\ (2 * G + 1) * D \in Nat
    BY <1>1, <1>5
  <2>4. QED
    BY <1>1, <1>3, <1>4, <2>1, <2>2, <2>3
<1> DEFINE U == Up(e)
           V == Down(e)
<1>7. U \in Nat \ {0} /\ V \in Nat \ {0}
  BY UpDownType
<1>8. CASE m = Full
  <2>1. m \div 2 = Half /\ 2 * Half <= G
    BY <1>6, <1>8, FullHalf
  <2>2. x.m = Half /\ x.e = e + 1
    BY <1>2, <1>8, <2>1
  <2> DEFINE U1 == Up(e + 1)
             V1 == Down(e + 1)
  <2>3. \/ U1 = 2 * U /\ V1 = V
        \/ U1 = U /\ V = 2 * V1
    BY UpOne
  <2>4. U1 \in Nat \ {0} /\ V1 \in Nat \ {0} /\ Half \in Nat
    BY UpDownType, FullHalf
  <2> HIDE DEF U, V, U1, V1
  <2>5. Half * (U1 * V) = (2 * Half) * (U * V1)
    BY <1>7, <2>3, <2>4
  <2>6. (2 * Half) * (U * V1) <= G * (U * V1)
    BY <1>7, <2>1, <2>4, ProductGrows
  <2>7. QED
    BY <2>2, <2>5, <2>6 DEF U, V, U1, V1
<1>9. CASE m # Full
  <2>1. x.m = m /\ x.e = e
    BY <1>2, <1>9
  <2>2. U * V \in Nat
    BY <1>7
  <2>3. m * (U * V) <= G * (U * V)
    BY <1>5, <1>6, <2>2, ProductGrows
  <2>4. QED
    BY <2>1, <2>3
<1>10. QED
  BY <1>8, <1>9

(* The value of a float is at most n / d. *)
NoMore(x, n, d) == x.m * (d * Up(x.e)) <= n * Down(x.e)

(* A fraction that is no more than an integer is rounded to no more. *)
LEMMA QuotientAtMostInteger ==
    ASSUME NEW n \in Nat \ {0}, NEW d \in Nat \ {0}, NEW v \in Nat, v < Full, n <= v * d
    PROVE  NoMore(Quotient(n, d), v, 1)
<1> DEFINE x == Quotient(n, d)
<1>1. PICK e \in Int : Fits(n, d, e) /\ x = Rounded(n, d, e)
  BY QuotientFits
<1>2. Normal(x) /\ x.m \in Nat /\ x.e \in Int
  BY QuotientType, NormalIsNotZero
<1> HIDE DEF x
<1> DEFINE U == Up(e)
           V == Down(e)
<1>3. U \in Nat \ {0} /\ V \in Nat \ {0} /\ Half \in Nat /\ Full = 2 * Half
  BY UpDownType, FullHalf
<1>4. e <= 0
  <2> SUFFICES ASSUME e > 0 PROVE FALSE
    OBVIOUS
  <2>1. U = PowerOfTwo[e] /\ V = 1 /\ e - 1 \in Nat /\ e = (e - 1) + 1
    BY UpDown
  <2>2. PowerOfTwo[(e - 1) + 1] = 2 * PowerOfTwo[e - 1] /\ PowerOfTwo[e - 1] \in Nat \ {0}
    BY <2>1, PowerOfTwoDef
  <2>3. U >= 2
    BY <2>1, <2>2
  <2>4. Half * (d * U) <= n
    BY <1>1, <2>1 DEF Fits
  <2> HIDE DEF U, V
  <2>5. 2 * (Half * d) <= U * (Half * d) /\ Half * d \in Nat
    BY <1>3, <2>3, ProductGrows
  <2>6. U * (Half * d) = Half * (d * U)
    BY <1>3
  <2>7. (Full * d) <= v * d
    <3>1. Full * d = 2 * (Half * d)
      BY <1>3
    <3>2. Full * d \in Nat /\ v * d \in Nat /\ Half * (d * U) \in Nat
      BY <1>3
    <3>3. QED
      BY <2>4, <2>5, <2>6, <3>1, <3>2
  <2>8. Full \in Int /\ Full <= v
    BY <1>3, <2>7, ProductCancels
  <2>9. QED
    BY <2>8
<1>5. U = 1
  BY <1>4, UpDown
<1> DEFINE G == v * V
<1>6. 2 * (n * V) < (2 * G + 1) * (d * U)
  <2> HIDE DEF U, V
  <2>1. n * V <= (v * d) * V
    BY <1>3, ProductGrows
  <2>2. (2 * G + 1) * (d * U) = 2 * ((v * d) * V) + d
    BY <1>3, <1>5
  <2>3. n * V \in Nat /\ (v * d) * V \in Nat
    BY <1>3
  <2>4. QED
    BY <2>1, <2>2, <2>3
<1>7. G \in Nat
  BY <1>3
<1>8. x.m * (Up(x.e) * V) <= G * (U * Down(x.e))
  BY <1>1, <1>6, <1>7, RoundedAtMost
<1> DEFINE p == x.m * (1 * Up(x.e))
           q == v * Down(x.e)
<1>9. p \in Nat /\ q \in Nat
  BY <1>2, UpDownType
<1>10. p * V <= q * V
  <2>1. Up(x.e) \in Nat /\ Down(x.e) \in Nat
    BY <1>2, UpDownType
  <2> HIDE DEF U, V
  <2>2. p * V = x.m * (Up(x.e) * V) /\ q * V = G * (U * Down(x.e))
    BY <1>2, <1>3, <1>5, <2>1
  <2>3. QED
    BY <1>8, <2>2
<1>11. V \in Nat \ {0}
  BY <1>3
<1> HIDE DEF p, q, V
<1>12. p <= q
  BY <1>9, <1>10, <1>11, ProductCancels
<1>13. QED
  BY <1>12 DEF NoMore, x, p, q

(* An integer no more than v + v / 2^(s + 1) times 2^s is rounded to no more than v
   times 2^s: half a unit in the last place of v is above v / 2^(Precision + 1). *)
LEMMA QuotientAtMostScaled ==
    ASSUME NEW a \in Nat \ {0}, NEW v \in Nat, v < Full, NEW s \in Nat, s >= Precision,
           2 * a <= (2 * PowerOfTwo[s] + 1) * v
    PROVE  NoMore(Quotient(a, 1), v * PowerOfTwo[s], 1)
<1> DEFINE x == Quotient(a, 1)
           D == PowerOfTwo[s]
<1>1. PICK e \in Int : Fits(a, 1, e) /\ x = Rounded(a, 1, e)
  BY QuotientFits
<1>2. Normal(x) /\ x.m \in Nat /\ x.e \in Int
  BY QuotientType, NormalIsNotZero
<1> DEFINE U == Up(e)
           V == Down(e)
<1>3. /\ U \in Nat \ {0} /\ V \in Nat \ {0} /\ Half \in Nat /\ Full = 2 * Half /\ Full \in Nat
      /\ D \in Nat \ {0} /\ Full <= D
  <2>1. PowerOfTwo[Precision] <= PowerOfTwo[s]
    BY PowerGrows, FullHalf
  <2>2. QED
    BY <2>1, UpDownType, FullHalf, PowerOfTwoDef DEF Full
<1>4. Half * U <= a * V /\ a * V < Full * U
  BY <1>1, <1>3 DEF Fits
<1>5. 2 * a <= (2 * D + 1) * v
  OBVIOUS
<1> HIDE DEF x
<1>6. e <= s
  <2> SUFFICES ASSUME e > s PROVE FALSE
    OBVIOUS
  <2>1. U = PowerOfTwo[e] /\ V = 1 /\ s + 1 \in Nat /\ e \in Nat /\ s + 1 <= e
    BY UpDown
  <2>2. PowerOfTwo[s + 1] <= PowerOfTwo[e] /\ PowerOfTwo[s + 1] = 2 * PowerOfTwo[s]
    BY <2>1, PowerGrows, PowerOfTwoDef
  <2>3. 2 * D <= U
    BY <2>1, <2>2
  <2> HIDE DEF U, V, D
  <2>4. (2 * D) * Half <= U * Half
    BY <1>3, <2>3, ProductGrows
  <2>5. (2 * D) * Half = Full * D /\ U * Half = Half * U /\ a * V = a
    BY <1>3, <2>1
  <2>6. Full * D <= a
    BY <1>3, <1>4, <2>4, <2>5
  <2>7. v * (2 * D + 1) <= (Full - 1) * (2 * D + 1)
    BY <1>3, ProductGrows
  <2>8. /\ (Full - 1) * (2 * D + 1) = 2 * (Full * D) + Full - 2 * D - 1
        /\ v * (2 * D + 1) = (2 * D + 1) * v
    BY <1>3
  <2>9. Full * D \in Nat /\ (2 * D + 1) * v \in Nat
    BY <1>3
  <2>10. QED
    BY <1>3, <1>5, <2>6, <2>7, <2>8, <2>9
<1> DEFINE P == PowerOfTwo[s - e]
           G == v * P
<1>7. P * U = D * V /\ P \in Nat \ {0}
  <2>1. s - e \in Nat /\ (s - e) + e = s /\ s - e >= 0 /\ s - e \in Int /\ s >= 0 /\ s \in Int
    BY <1>6
  <2>2. Up(s - e) = P /\ Down(s - e) = 1 /\ Up(s) = D /\ Down(s) = 1
    BY <2>1, UpDown
  <2>3. Up((s - e) + e) * Down(s - e) * Down(e) = Up(s - e) * Up(e) * Down((s - e) + e)
    BY <2>1, ExponentsAdd
  <2>4. P \in Nat \ {0}
    BY <2>1, PowerOfTwoDef
  <2> DEFINE k == s - e
  <2> HIDE DEF P, U, V, D
  <2>5. D * 1 * V = P * U * 1
    BY <2>1, <2>2, <2>3 DEF U, V
  <2>6. QED
    BY <1>3, <2>4, <2>5
<1> HIDE DEF D, P
<1>8. G \in Nat /\ G * U = (v * D) * V
  <2> HIDE DEF U, V
  <2>1. G * U = v * (P * U) /\ (v * D) * V = v * (D * V)
    BY <1>3, <1>7
  <2>2. QED
    BY <1>7, <2>1
<1> HIDE DEF G, U, V
<1>9. 2 * (a * V) < (2 * G + 1) * U
  <2>1. (2 * G + 1) * U = 2 * ((v * D) * V) + U
    BY <1>3, <1>8
  <2>2. CASE a <= v * D
    <3>1. a * V <= (v * D) * V /\ a * V \in Nat /\ (v * D) * V \in Nat
      BY <1>3, <2>2, ProductGrows
    <3>2. QED
      BY <1>3, <2>1, <3>1
  <2>3. CASE v * D < a
    <3>1. (v * D) * V <= a * V /\ a * V \in Nat /\ (v * D) * V \in Nat
      BY <1>3, <2>3, ProductGrows
    <3>2. Full * (v * V) <= D * (v * V)
      BY <1>3, ProductGrows
    <3>3. D * (v * V) = (v * D) * V /\ Full * (v * V) = (v * V) * Full /\ Full * U = U * Full
      BY <1>3
    <3>4. v * V < U
      <4> SUFFICES ASSUME U <= v * V PROVE FALSE
        BY <1>3
      <4>1. U * Full <= (v * V) * Full
        BY <1>3, ProductGrows
      <4>2. Full * U \in Nat /\ Full * (v * V) \in Nat
        BY <1>3
      <4>3. QED
        BY <1>3, <1>4, <3>1, <3>2, <3>3, <4>1, <4>2
    <3>5. (2 * a) * V <= ((2 * D + 1) * v) * V
      BY <1>3, <1>5, ProductGrows
    <3>6. (2 * a) * V = 2 * (a * V) /\ ((2 * D + 1) * v) * V = 2 * ((v * D) * V) + v * V
      BY <1>3
    <3>7. QED
      BY <1>3, <2>1, <3>1, <3>4, <3>5, <3>6
  <2>4. QED
    BY <1>3, <2>2, <2>3
<1>10. x.m * (Up(x.e) * V) <= G * (U * Down(x.e))
  <2>1. 2 * (a * Down(e)) < (2 * G + 1) * (1 * Up(e))
    BY <1>3, <1>9 DEF U, V
  <2>2. x.m * (Up(x.e) * Down(e)) <= G * (Up(e) * Down(x.e))
    BY <1>1, <1>8, <2>1, RoundedAtMost
  <2>3. QED
    BY <2>2 DEF U, V
<1> DEFINE Ux == Up(x.e)
           Vx == Down(x.e)
           p == x.m * (1 * Ux)
           q == (v * D) * Vx
<1>11. Ux \in Nat /\ Vx \in Nat
  BY <1>2, UpDownType
<1> HIDE DEF Ux, Vx
<1>12. p \in Nat /\ q \in Nat
  BY <1>2, <1>3, <1>11
<1>13. p * V <= q * V
  <2>1. p * V = x.m * (Ux * V) /\ q * V = ((v * D) * V) * Vx /\ G * (U * Vx) = (G * U) * Vx
    BY <1>2, <1>3, <1>8, <1>11
  <2>2. QED
    BY <1>8, <1>10, <2>1 DEF Ux, Vx
<1>14. p <= q
  BY <1>3, <1>12, <1>13, ProductCancels
<1>15. QED
  BY <1>14 DEF NoMore, x, p, q, Ux, Vx, D

-----------------------------------------------------------------------------
(* 3/10, 5/10 and 8/10, the thresholds of the knitting gates, as floats. *)

(* A power of two whose exponent leaves 1 modulo 4 leaves 2 modulo 5. *)
LEMMA PowerModuloFive ==
    ASSUME NEW n \in Nat
    PROVE  \E j \in Nat : PowerOfTwo[4 * n + 1] = 5 * j + 2
<1> DEFINE S == {i \in 0..n : \E j \in Nat : PowerOfTwo[4 * i + 1] = 5 * j + 2}
<1>1. 0 \in S
  <2>1. PowerOfTwo[0 + 1] = 2 * PowerOfTwo[0] /\ PowerOfTwo[0] = 1
    BY PowerOfTwoDef
  <2>2. PowerOfTwo[4 * 0 + 1] = 5 * 0 + 2 /\ 0 \in Nat
    BY <2>1
  <2>3. QED
    BY <2>2
<1>2. ASSUME NEW i \in 1..n, i - 1 \in S PROVE i \in S
  <2>1. PICK j \in Nat : PowerOfTwo[4 * (i - 1) + 1] = 5 * j + 2
    BY <1>2
  <2> DEFINE k == 4 * (i - 1) + 1
  <2>2. /\ k \in Nat /\ k + 1 \in Nat /\ k + 2 \in Nat /\ k + 3 \in Nat
        /\ (k + 1) + 1 = k + 2 /\ (k + 2) + 1 = k + 3 /\ (k + 3) + 1 = 4 * i + 1
    OBVIOUS
  <2> HIDE DEF k
  <2>3. PowerOfTwo[k + 1] = 2 * PowerOfTwo[k]
    BY <2>2, PowerOfTwoDef
  <2>4. PowerOfTwo[k + 2] = 2 * PowerOfTwo[k + 1]
    BY <2>2, PowerOfTwoDef
  <2>5. PowerOfTwo[k + 3] = 2 * PowerOfTwo[k + 2]
    BY <2>2, PowerOfTwoDef
  <2>6. PowerOfTwo[4 * i + 1] = 2 * PowerOfTwo[k + 3]
    BY <2>2, PowerOfTwoDef
  <2>7. PowerOfTwo[4 * i + 1] = 5 * (16 * j + 6) + 2
    BY <2>1, <2>3, <2>4, <2>5, <2>6 DEF k
  <2>8. 16 * j + 6 \in Nat
    OBVIOUS
  <2>9. i \in 0..n
    OBVIOUS
  <2>10. QED
    BY <2>7, <2>8, <2>9, Zenon
<1> HIDE DEF S
<1>3. n \in S
  BY <1>1, <1>2, InductionTo
<1>4. QED
  BY <1>3 DEF S

LEMMA FullModuloFive == \E j \in Nat : Full = 5 * j + 2
<1>1. \E i \in Nat : Precision = 4 * i + 1
  <2>1. Precision \div 4 \in Nat /\ Precision = 4 * (Precision \div 4) + 1
    BY PrecisionAssumption
  <2>2. QED
    BY <2>1
<1>2. QED
  BY <1>1, PowerModuloFive DEF Full

(* What a fraction is rounded to, when its significand is found. *)
LEMMA QuotientFound ==
    ASSUME NEW n \in Nat \ {0}, NEW d \in Nat \ {0}, NEW e \in Int, Fits(n, d, e),
           NearestInteger(n * Down(e), d * Up(e)) # Full
    PROVE  Quotient(n, d) = [m |-> NearestInteger(n * Down(e), d * Up(e)), e |-> e]
<1>1. PICK t \in Int : Fits(n, d, t) /\ Quotient(n, d) = Rounded(n, d, t)
  BY QuotientFits
<1>2. n * d <= n * d
  OBVIOUS
<1>3. e <= t /\ t <= e
  BY <1>1, <1>2, ExponentMonotone
<1>4. e = t
  BY <1>3
<1>5. QED
  BY <1>1, <1>4, Zenon DEF Rounded

(* m parts of 2^s are k / 10, or less by at most a fifth of a part, or more by at most
   k / 20 of one. *)
TenthsRounded(k, m, s) ==
    /\ 20 * m <= k * (2 * PowerOfTwo[s] + 1)
    /\ k * PowerOfTwo[s] - 2 <= 10 * m

LEMMA GateFloats ==
    ASSUME NEW k \in {3, 5, 8}
    PROVE  \E s \in Nat : /\ s >= Precision
                          /\ Quotient(k, 10).e = -s
                          /\ TenthsRounded(k, Quotient(k, 10).m, s)
<1>1. PICK j \in Nat : Full = 5 * j + 2
  BY FullModuloFive
<1>2. /\ Half \in Nat /\ Full = 2 * Half /\ Half >= 4096 /\ Full = PowerOfTwo[Precision]
      /\ Precision \in Nat /\ Precision + 1 \in Nat
      /\ PowerOfTwo[Precision + 1] = 2 * Full
  BY FullHalf, PowerOfTwoDef DEF Full
<1>3. \A s \in Nat : Up(-s) = 1 /\ Down(-s) = PowerOfTwo[s] /\ -s \in Int
  BY UpDown
<1>4. ASSUME NEW s \in Nat, NEW m \in Nat, m < Full,
             Half * 10 <= k * PowerOfTwo[s], k * PowerOfTwo[s] < Full * 10,
             NearestInteger(k * PowerOfTwo[s], 10) = m
      PROVE  Quotient(k, 10) = [m |-> m, e |-> -s]
  <2>1. Up(-s) = 1 /\ Down(-s) = PowerOfTwo[s] /\ -s \in Int
    BY <1>3
  <2>2. Fits(k, 10, -s)
    BY <1>4, <2>1 DEF Fits
  <2>3. NearestInteger(k * Down(-s), 10 * Up(-s)) = m
    BY <1>4, <2>1
  <2>4. m # Full
    BY <1>2, <1>4
  <2>5. k \in Nat \ {0} /\ 10 \in Nat \ {0}
    OBVIOUS
  <2>6. QED
    BY <2>1, <2>2, <2>3, <2>4, <2>5, QuotientFound
<1>5. CASE k = 3
  <2> DEFINE s == Precision + 1
  <2>1. PowerOfTwo[s] = 10 * j + 4
    BY <1>1, <1>2
  <2>2. NearestInteger(3 * PowerOfTwo[s], 10) = 3 * j + 1
    BY <2>1 DEF NearestInteger
  <2>3. Quotient(3, 10) = [m |-> 3 * j + 1, e |-> -s]
    <3>1. /\ s \in Nat /\ 3 * j + 1 \in Nat /\ 3 * j + 1 < Full
          /\ Half * 10 <= 3 * PowerOfTwo[s] /\ 3 * PowerOfTwo[s] < Full * 10
      BY <1>1, <1>2, <2>1
    <3> HIDE DEF s
    <3>2. QED
      BY <1>4, <1>5, <2>2, <3>1
  <2>4. Quotient(3, 10).m = 3 * j + 1 /\ Quotient(3, 10).e = -s
    BY <2>3
  <2>5. TenthsRounded(3, 3 * j + 1, s)
    BY <2>1 DEF TenthsRounded
  <2>6. s \in Nat /\ s >= Precision
    BY <1>2
  <2>7. QED
    BY <1>5, <2>4, <2>5, <2>6
<1>6. CASE k = 5
  <2> DEFINE s == Precision
  <2>1. NearestInteger(5 * PowerOfTwo[s], 10) = Half
    BY <1>2 DEF NearestInteger
  <2>2. Quotient(5, 10) = [m |-> Half, e |-> -s]
    <3>1. /\ s \in Nat /\ Half \in Nat /\ Half < Full
          /\ Half * 10 <= 5 * PowerOfTwo[s] /\ 5 * PowerOfTwo[s] < Full * 10
      BY <1>2
    <3> HIDE DEF s
    <3>2. QED
      BY <1>4, <1>6, <2>1, <3>1
  <2>3. Quotient(5, 10).m = Half /\ Quotient(5, 10).e = -s
    BY <2>2
  <2>4. TenthsRounded(5, Half, s)
    BY <1>2 DEF TenthsRounded
  <2>5. s \in Nat /\ s >= Precision
    BY <1>2
  <2>6. QED
    BY <1>6, <2>3, <2>4, <2>5
<1>7. CASE k = 8
  <2> DEFINE s == Precision
  <2>1. PowerOfTwo[s] = 5 * j + 2
    BY <1>1, <1>2
  <2>2. NearestInteger(8 * PowerOfTwo[s], 10) = 4 * j + 2
    BY <2>1 DEF NearestInteger
  <2>3. Quotient(8, 10) = [m |-> 4 * j + 2, e |-> -s]
    <3>1. /\ s \in Nat /\ 4 * j + 2 \in Nat /\ 4 * j + 2 < Full
          /\ Half * 10 <= 8 * PowerOfTwo[s] /\ 8 * PowerOfTwo[s] < Full * 10
      BY <1>1, <1>2, <2>1
    <3> HIDE DEF s
    <3>2. QED
      BY <1>4, <1>7, <2>2, <3>1
  <2>4. Quotient(8, 10).m = 4 * j + 2 /\ Quotient(8, 10).e = -s
    BY <2>3
  <2>5. TenthsRounded(8, 4 * j + 2, s)
    BY <2>1 DEF TenthsRounded
  <2>6. s \in Nat /\ s >= Precision
    BY <1>2
  <2>7. QED
    BY <1>7, <2>4, <2>5, <2>6
<1>8. QED
  BY <1>5, <1>6, <1>7

-----------------------------------------------------------------------------
(* The ceiling of what a product exceeds an integer by. *)

(* A float above C - 1 by a twentieth at least, and at most C, exceeds n by a number
   whose rounded value has the ceiling C - n. *)
LEMMA CeilingIsExact ==
    ASSUME NEW x, Normal(x), NEW n \in Nat, NEW C \in Nat, n < C, 128 * C <= Full,
           (20 * C - 19) * Down(x.e) <= 20 * (x.m * Up(x.e)),
           x.m * Up(x.e) <= C * Down(x.e)
    PROVE  CeilingAbove(x, n) = C - n
<1> DEFINE U == Up(x.e)
           V == Down(x.e)
           X == x.m * U
<1>1. /\ x.m \in Nat \ {0} /\ x.e \in Int /\ U \in Nat \ {0} /\ V \in Nat \ {0}
      /\ Full \in Nat
  BY NormalIsNotZero, UpDownType, FullHalf
<1>2. /\ X \in Nat \ {0} /\ (20 * C - 19) * V <= 20 * X /\ X <= C * V
  BY <1>1
<1>3. Less(Float(n), x)
  <2>1. CASE n = 0
    BY <2>1, QuotientType, NormalIsNotZero DEF Float, Less
  <2>2. CASE n # 0
    <3>1. Normal(Float(n)) /\ Near(Float(n), n, 1)
      BY <2>2, QuotientNear DEF Float
    <3>2. Near(x, X, V)
      <4>1. (Full - 1) * (X * V) <= Full * (X * V) /\ Full * (X * V) <= (Full + 1) * (X * V)
        <5>1. X * V \in Nat
          BY <1>1, <1>2
        <5> HIDE DEF X, V
        <5> DEFINE p == X * V
        <5> HIDE DEF p
        <5>2. (Full - 1) * p = Full * p - p /\ (Full + 1) * p = Full * p + p /\ Full * p \in Nat
          BY <1>1, <5>1 DEF p
        <5>3. QED
          BY <5>1, <5>2 DEF p
      <4>2. x.m * (V * U) = X * V
        BY <1>1
      <4>3. QED
        BY <4>1, <4>2 DEF Near
    <3> HIDE DEF X, V
    <3>3. (Full + 1) * (n * V) < (Full - 1) * (X * 1)
      <4> DEFINE k == 20 * n + 1
      <4>1. k * V <= 20 * X
        <5>1. k * V <= (20 * C - 19) * V
          BY <1>1, ProductGrows
        <5>2. k * V \in Int /\ (20 * C - 19) * V \in Int
          BY <1>1
        <5>3. QED
          BY <1>2, <5>1, <5>2
      <4>2. (k * V) * (Full - 1) <= (20 * X) * (Full - 1)
        BY <1>1, <1>2, <4>1, ProductGrows, FullHalf
      <4>3. ((Full + 1) * (20 * n) + 1) * V <= ((Full - 1) * k) * V
        <5>1. /\ (Full + 1) * (20 * n) + 1 = 20 * (Full * n) + 20 * n + 1
              /\ (Full - 1) * k = 20 * (Full * n) + Full - 20 * n - 1
          BY <1>1
        <5>2. Full * n \in Nat
          BY <1>1
        <5>3. (Full + 1) * (20 * n) + 1 <= (Full - 1) * k
          BY <1>1, <5>1, <5>2, FullHalf
        <5>4. QED
          BY <1>1, <5>1, <5>2, <5>3, ProductGrows
      <4>4. /\ (k * V) * (Full - 1) = ((Full - 1) * k) * V
            /\ (20 * X) * (Full - 1) = 20 * ((Full - 1) * (X * 1))
            /\ ((Full + 1) * (20 * n) + 1) * V = 20 * ((Full + 1) * (n * V)) + V
        BY <1>1, <1>2
      <4>5. (Full + 1) * (n * V) \in Int /\ (Full - 1) * (X * 1) \in Int
        BY <1>1, <1>2
      <4>6. QED
        BY <1>1, <4>2, <4>3, <4>4, <4>5
    <3>4. QED
      BY <1>1, <1>2, <3>1, <3>2, <3>3, SeparatedLess
  <2>3. QED
    BY <2>1, <2>2
<1>4. ~AtMost(x, Float(n))
  BY <1>3, QuotientType, LessIsStrict DEF Float
<1> DEFINE N == X - n * V
           J == C - n
           g == Quotient(N, V)
<1>5. /\ CeilingAbove(x, n) = -((-(g.m * Up(g.e))) \div Down(g.e))
  BY <1>4 DEF CeilingAbove
<1> HIDE DEF X, V
<1>6. /\ N \in Nat \ {0} /\ J \in Nat \ {0} /\ N <= J * V /\ J < Full
      /\ (20 * J - 19) * V <= 20 * N
  <2>1. /\ n * V \in Nat /\ J * V = C * V - n * V /\ C * V \in Nat
        /\ (20 * J - 19) * V = (20 * C - 19) * V - 20 * (n * V)
        /\ (20 * C - 19) * V \in Int
    BY <1>1
  <2>2. J \in Nat \ {0} /\ J < Full
    BY <1>1
  <2>3. V <= (20 * J - 19) * V
    <3>1. 1 * V <= (20 * J - 19) * V
      BY <1>1, <2>2, ProductGrows
    <3>2. QED
      BY <1>1, <3>1
  <2>4. QED
    BY <1>1, <1>2, <2>1, <2>2, <2>3
<1>7. Normal(g) /\ Near(g, N, V)
  BY <1>1, <1>6, QuotientNear
<1>8. NoMore(g, J, 1)
  BY <1>1, <1>6, QuotientAtMostInteger
<1> DEFINE A == g.m * Up(g.e)
           B == Down(g.e)
<1>9. /\ g.m \in Nat /\ Up(g.e) \in Nat /\ A \in Nat /\ B \in Nat \ {0}
  BY <1>7, NormalIsNotZero, UpDownType
<1>10. A <= J * B
  BY <1>8, <1>9 DEF NoMore
<1>11. (J - 1) * B < A
  <2>1. (Full - 1) * (N * B) <= Full * (V * A)
    <3>1. (Full - 1) * (N * B) <= Full * (g.m * (V * Up(g.e)))
      BY <1>7 DEF Near
    <3>2. g.m * (V * Up(g.e)) = V * A
      BY <1>1, <1>9
    <3>3. QED
      BY <3>1, <3>2
  <2> HIDE DEF N, J, g, A, B
  <2> DEFINE k == 20 * J - 19
             z == (Full - 1) * B
  <2>2. z \in Nat /\ k \in Int
    BY <1>1, <1>6, <1>9, FullHalf
  <2>3. (k * V) * z <= (20 * N) * z
    <3>1. k * V \in Int /\ 20 * N \in Int
      BY <1>1, <1>6
    <3>2. k * V <= 20 * N
      BY <1>6
    <3>3. QED
      BY <2>2, <3>1, <3>2, ProductGrows
  <2>4. (20 * N) * z = 20 * ((Full - 1) * (N * B)) /\ (k * V) * z = (((Full - 1) * k) * B) * V
    BY <1>1, <1>6, <1>9
  <2>5. 20 * (Full * (V * A)) = ((20 * Full) * A) * V
    BY <1>1, <1>9
  <2>6. (((Full - 1) * k) * B) * V <= ((20 * Full) * A) * V
    <3> DEFINE l == (((Full - 1) * k) * B) * V
               r == ((20 * Full) * A) * V
               a == (Full - 1) * (N * B)
               b == Full * (V * A)
    <3>1. a \in Int /\ b \in Int /\ l \in Int /\ r \in Int
      BY <1>1, <1>6, <1>9
    <3>2. l <= 20 * a /\ a <= b /\ 20 * b = r
      BY <2>1, <2>3, <2>4, <2>5
    <3> HIDE DEF l, r, a, b
    <3>3. l <= r
      BY <3>1, <3>2
    <3>4. QED
      BY <3>3 DEF l, r
  <2>7. ((Full - 1) * k) * B <= (20 * Full) * A
    <3>1. ((Full - 1) * k) * B \in Int /\ (20 * Full) * A \in Int
      BY <1>1, <1>6, <1>9
    <3>2. QED
      BY <1>1, <2>6, <3>1, ProductCancels
  <2>8. (20 * Full) * (J - 1) + 1 <= (Full - 1) * k
    <3>1. /\ (20 * Full) * (J - 1) = 20 * (Full * J) - 20 * Full
          /\ (Full - 1) * k = 20 * (Full * J) - 19 * Full - 20 * J + 19
          /\ Full * J \in Nat
      BY <1>1, <1>6
    <3>2. 128 * J <= Full
      BY <1>1 DEF J
    <3>3. QED
      BY <1>1, <1>6, <3>1, <3>2
  <2>9. ((20 * Full) * (J - 1) + 1) * B <= ((Full - 1) * k) * B
    <3>1. (20 * Full) * (J - 1) + 1 \in Int /\ (Full - 1) * k \in Int
      BY <1>1, <1>6
    <3>2. QED
      BY <1>9, <2>8, <3>1, ProductGrows
  <2>10. ((20 * Full) * (J - 1) + 1) * B = ((J - 1) * B) * (20 * Full) + B
    BY <1>1, <1>6, <1>9
  <2> SUFFICES ASSUME A <= (J - 1) * B PROVE FALSE
    BY <1>6, <1>9
  <2>11. A * (20 * Full) <= ((J - 1) * B) * (20 * Full)
    BY <1>1, <1>6, <1>9, ProductGrows
  <2>12. A * (20 * Full) = (20 * Full) * A
    BY <1>1, <1>9
  <2>13. /\ ((J - 1) * B) * (20 * Full) \in Int /\ (20 * Full) * A \in Int
         /\ ((Full - 1) * k) * B \in Int
    BY <1>1, <1>6, <1>9
  <2>14. QED
    BY <1>9, <2>7, <2>9, <2>10, <2>11, <2>12, <2>13
<1>12. -((-A) \div B) = J
  <2> HIDE DEF A, B, J
  <2>1. J * B \in Int /\ (J - 1) * B = J * B - B
    BY <1>6, <1>9
  <2>2. (-A) \div B \in Int /\ ((-A) \div B) * B <= -A /\ -A < ((-A) \div B) * B + B
    BY <1>9
  <2> DEFINE r == (-A) \div B
  <2> HIDE DEF r
  <2>3. r \in Int /\ r * B <= -A /\ -A < r * B + B
    BY <2>2 DEF r
  <2>4. r * B <= (1 - J) * B - 1 /\ (-J) * B < (r + 1) * B
    BY <1>6, <1>9, <1>10, <1>11, <2>1, <2>3
  <2>5. r < 1 - J
    <3> SUFFICES ASSUME 1 - J <= r PROVE FALSE
      BY <1>6, <2>3
    <3>1. (1 - J) * B <= r * B
      BY <1>6, <1>9, <2>3, ProductGrows
    <3>2. QED
      BY <1>6, <1>9, <2>3, <2>4, <3>1
  <2>6. -J < r + 1
    <3> SUFFICES ASSUME r + 1 <= -J PROVE FALSE
      BY <1>6, <2>3
    <3>1. (r + 1) * B <= (-J) * B
      BY <1>6, <1>9, <2>3, ProductGrows
    <3>2. QED
      BY <1>6, <1>9, <2>3, <2>4, <3>1
  <2>7. r = -J
    BY <1>6, <2>3, <2>5, <2>6
  <2>8. QED
    BY <1>6, <2>7 DEF r
<1>13. QED
  BY <1>5, <1>12

(* threshold * target, rounded, is at most the least integer C that reaches the
   threshold, and above C - 1 by a twentieth at least. *)
LEMMA ProductBetween ==
    ASSUME NEW k \in {3, 5, 8}, NEW t \in Nat \ {0}, NEW C \in Nat, 128 * C <= Full,
           128 * t <= Full, k * t <= 10 * C, 10 * C - 9 <= k * t,
           NEW x, x = Times(t, Quotient(k, 10))
    PROVE  /\ Normal(x)
           /\ (20 * C - 19) * Down(x.e) <= 20 * (x.m * Up(x.e))
           /\ x.m * Up(x.e) <= C * Down(x.e)
<1> DEFINE q == Quotient(k, 10)
<1>1. PICK s \in Nat : s >= Precision /\ q.e = -s /\ TenthsRounded(k, q.m, s)
  BY GateFloats
<1>2. Normal(q) /\ q # Zero /\ q.m \in Nat \ {0}
  BY QuotientType, NormalIsNotZero
<1> DEFINE D == PowerOfTwo[s]
           a == t * q.m
           y == Quotient(a, 1)
<1>3. a \in Nat \ {0} /\ 20 * q.m <= k * (2 * D + 1) /\ k * D - 2 <= 10 * q.m
  BY <1>1, <1>2 DEF TenthsRounded
<1>4. D \in Nat \ {0} /\ Full <= D /\ Full \in Nat /\ Full >= 8192
  <2>1. PowerOfTwo[Precision] <= PowerOfTwo[s]
    BY <1>1, PowerGrows, FullHalf
  <2>2. QED
    BY <2>1, FullHalf, PowerOfTwoDef DEF Full
<1>5. Normal(y) /\ Near(y, a, 1)
  BY <1>3, QuotientNear
<1>6. x = Shift(y, -s) /\ x = [m |-> y.m, e |-> y.e - s]
  <2>1. y # Zero /\ y \in [m : Half..(Full - 1), e : Int]
    BY <1>5, NormalIsNotZero DEF Normal
  <2>2. x = Shift(y, q.e)
    BY <1>2, Zenon DEF Times
  <2> HIDE DEF q, y
  <2>3. QED
    BY <1>1, <2>1, <2>2 DEF Shift
<1>7. -s \in Int /\ Up(-s) = 1 /\ Down(-s) = D
  BY UpDown
<1>8. Normal(x) /\ Near(x, a, D)
  <2> HIDE DEF y, a, D
  <2>1. Normal(Shift(y, -s)) /\ Near(Shift(y, -s), a * Up(-s), 1 * Down(-s))
    BY <1>3, <1>5, <1>7, ShiftNear
  <2>2. QED
    BY <1>3, <1>4, <1>6, <1>7, <2>1
<1> HIDE DEF q
<1> DEFINE U == Up(x.e)
           V == Down(x.e)
           m == q.m
<1>9. x.m = y.m /\ x.m \in Nat \ {0} /\ x.e \in Int /\ U \in Nat \ {0} /\ V \in Nat \ {0}
  BY <1>6, <1>8, NormalIsNotZero, UpDownType
<1>10. m \in Nat \ {0}
  BY <1>2
<1>11. C \in Nat /\ C < Full
  BY <1>4
<1>12. x.m * U <= C * V
  <2>1. 2 * a <= (2 * D + 1) * C
    <3> HIDE DEF D, m
    <3>1. (20 * m) * t <= (k * (2 * D + 1)) * t
      BY <1>3, <1>4, <1>10, ProductGrows DEF m
    <3>2. (k * t) * (2 * D + 1) <= (10 * C) * (2 * D + 1)
      BY <1>4, ProductGrows
    <3>3. /\ (20 * m) * t = 10 * (2 * (t * m))
          /\ (k * (2 * D + 1)) * t = (k * t) * (2 * D + 1)
          /\ (10 * C) * (2 * D + 1) = 10 * ((2 * D + 1) * C)
      BY <1>4, <1>10
    <3>4. t * m \in Nat /\ (2 * D + 1) * C \in Nat /\ (k * t) * (2 * D + 1) \in Nat
      BY <1>4, <1>10
    <3>5. 2 * (t * m) <= (2 * D + 1) * C
      BY <3>1, <3>2, <3>3, <3>4
    <3>6. QED
      BY <3>5 DEF m
  <2>2. NoMore(y, C * D, 1)
    <3> HIDE DEF a
    <3>1. QED
      BY <1>1, <1>3, <1>11, <2>1, QuotientAtMostScaled
  <2> DEFINE Uy == Up(y.e)
             Vy == Down(y.e)
  <2>3. y.e \in Int /\ Uy \in Nat \ {0} /\ Vy \in Nat \ {0}
    BY <1>5, NormalIsNotZero, UpDownType
  <2>4. U * Vy * D = Uy * V
    <3>1. Up(y.e + (-s)) * Down(y.e) * Down(-s) = Up(y.e) * Up(-s) * Down(y.e + (-s))
      BY <1>7, <2>3, ExponentsAdd
    <3>2. x.e = y.e + (-s)
      BY <1>6, <2>3
    <3> DEFINE e == y.e + (-s)
    <3>3. /\ Up(e) * Vy * D = Uy * 1 * Down(e)
      BY <1>7, <3>1
    <3>4. U = Up(e) /\ V = Down(e)
      BY <3>2
    <3> HIDE DEF D, e, Uy, Vy, U, V
    <3>5. QED
      BY <1>9, <2>3, <3>3, <3>4
  <2>5. y.m * Uy <= (C * D) * Vy
    BY <1>9, <2>2, <2>3 DEF NoMore
  <2> DEFINE z == Vy * D
  <2> HIDE DEF U, V, Uy, Vy, D, y
  <2>6. (y.m * Uy) * V <= ((C * D) * Vy) * V
    <3>1. y.m * Uy \in Nat /\ (C * D) * Vy \in Nat
      BY <1>4, <1>9, <2>3
    <3>2. QED
      BY <1>9, <2>5, <3>1, ProductGrows
  <2>7. (x.m * U) * z = (y.m * Uy) * V
    <3>1. (x.m * U) * z = x.m * (U * Vy * D) /\ (y.m * Uy) * V = y.m * (Uy * V)
      BY <1>4, <1>9, <2>3
    <3>2. QED
      BY <1>9, <2>4, <3>1
  <2>8. ((C * D) * Vy) * V = (C * V) * z
    BY <1>4, <1>9, <2>3
  <2>9. z \in Nat \ {0} /\ x.m * U \in Nat /\ C * V \in Nat
    BY <1>4, <1>9, <2>3
  <2>10. (x.m * U) * z <= (C * V) * z
    BY <2>6, <2>7, <2>8
  <2> HIDE DEF z
  <2>11. QED
    BY <2>9, <2>10, ProductCancels
<1>13. (20 * C - 19) * V <= 20 * (x.m * U)
  <2> DEFINE X == x.m * U
             F == Full - 1
  <2>1. F * (a * V) <= Full * (D * X)
    <3>1. F * (a * V) <= Full * (x.m * (D * U))
      BY <1>8 DEF Near
    <3>2. x.m * (D * U) = D * X
      BY <1>4, <1>9
    <3>3. QED
      BY <3>1, <3>2
  <2>2. (640 * C - 577) * D <= 640 * a
    <3> HIDE DEF D, m
    <3>1. (k * D - 2) * t <= (10 * m) * t
      BY <1>3, <1>4, <1>10, ProductGrows DEF m
    <3>2. (k * D - 2) * t = (k * t) * D - 2 * t /\ (10 * m) * t = 10 * (t * m)
      BY <1>4, <1>10
    <3>3. (10 * C - 9) * D <= (k * t) * D
      BY <1>4, ProductGrows
    <3>4. (10 * C - 9) * D = 10 * (C * D) - 9 * D /\ (640 * C - 577) * D = 640 * (C * D) - 577 * D
      BY <1>4
    <3>5. C * D \in Nat /\ (k * t) * D \in Nat /\ t * m \in Nat
      BY <1>4, <1>10
    <3>6. 128 * t <= D
      BY <1>4
    <3>7. (640 * C - 577) * D <= 640 * (t * m)
      BY <1>4, <3>1, <3>2, <3>3, <3>4, <3>5, <3>6
    <3>8. QED
      BY <3>7 DEF m
  <2> HIDE DEF X, F, U, V, D, a
  <2>3. X \in Nat /\ F \in Nat /\ F = Full - 1
    BY <1>4, <1>9 DEF X, F
  <2>4. ((640 * C - 577) * D) * (F * V) <= (640 * a) * (F * V)
    <3>1. F * V \in Nat /\ (640 * C - 577) * D \in Int /\ 640 * a \in Int
      BY <1>3, <1>4, <1>9, <2>3
    <3>2. QED
      BY <2>2, <3>1, ProductGrows
  <2>5. (640 * C - 608) * Full <= (640 * C - 577) * F
    <3>1. /\ (640 * C - 577) * F = 640 * (C * Full) - 577 * Full - 640 * C + 577
          /\ (640 * C - 608) * Full = 640 * (C * Full) - 608 * Full
          /\ C * Full \in Nat
      BY <1>4, <2>3
    <3>2. QED
      BY <1>4, <3>1
  <2>6. ((640 * C - 608) * Full) * (D * V) <= ((640 * C - 577) * F) * (D * V)
    <3>1. D * V \in Nat /\ (640 * C - 608) * Full \in Int /\ (640 * C - 577) * F \in Int
      BY <1>4, <1>9, <2>3
    <3>2. QED
      BY <2>5, <3>1, ProductGrows
  <2> DEFINE l == (20 * C - 19) * V
             z == Full * D
             b == F * (a * V)
             g == Full * (D * X)
             h == ((640 * C - 577) * D) * (F * V)
  <2>7. /\ ((640 * C - 608) * Full) * (D * V) = 32 * (l * z)
        /\ ((640 * C - 577) * F) * (D * V) = h
        /\ (640 * a) * (F * V) = 640 * b
        /\ g = X * z
    BY <1>3, <1>4, <1>9, <2>3
  <2>8. /\ l * z \in Int /\ X * z \in Int /\ b \in Int /\ h \in Int /\ l \in Int
        /\ z \in Nat \ {0}
    BY <1>3, <1>4, <1>9, <2>3
  <2>9. 32 * (l * z) <= h /\ h <= 640 * b /\ b <= X * z
    BY <2>1, <2>4, <2>6, <2>7
  <2> HIDE DEF l, z, b, g, h
  <2>10. l * z <= (20 * X) * z
    <3>1. (20 * X) * z = 20 * (X * z)
      BY <2>3, <2>8
    <3> DEFINE p == l * z
               r == X * z
    <3> HIDE DEF p, r
    <3>2. p \in Int /\ r \in Int /\ 32 * p <= h /\ h <= 640 * b /\ b <= r
      BY <2>8, <2>9 DEF p, r
    <3>3. p <= 20 * r
      BY <2>8, <3>2
    <3>4. QED
      BY <3>1, <3>3 DEF p, r
  <2>11. l <= 20 * X
    BY <2>3, <2>8, <2>10, ProductCancels
  <2>12. QED
    BY <2>11 DEF l, X
<1>14. QED
  BY <1>8, <1>12, <1>13

(* However threshold * target is rounded, and the difference to the current words
   after it, the ceiling of the difference is the exact distance. *)
THEOREM ProductCeilingIsExact ==
    ASSUME NEW k \in {3, 5, 8}, NEW t \in Nat \ {0}, 128 * t <= Full,
           NEW n \in Nat, 10 * n < k * t
    PROVE  \E C \in Nat : /\ n < C /\ k * t <= 10 * C /\ 10 * C - 9 <= k * t
                          /\ CeilingAbove(Times(t, Quotient(k, 10)), n) = C - n
<1> DEFINE C == (k * t + 9) \div 10
           x == Times(t, Quotient(k, 10))
<1>1. k * t \in Nat /\ k * t <= 8 * t
  OBVIOUS
<1>2. C \in Nat /\ k * t <= 10 * C /\ 10 * C - 9 <= k * t
  BY <1>1
<1>3. C <= t /\ n < C
  BY <1>1, <1>2
<1>4. 128 * C <= Full
  BY <1>2, <1>3, FullHalf
<1> HIDE DEF C
<1>5. /\ Normal(x)
      /\ (20 * C - 19) * Down(x.e) <= 20 * (x.m * Up(x.e))
      /\ x.m * Up(x.e) <= C * Down(x.e)
  <2> HIDE DEF x
  <2>1. x = Times(t, Quotient(k, 10))
    BY DEF x
  <2>2. QED
    BY <1>2, <1>4, <2>1, ProductBetween
<1> HIDE DEF x
<1>6. CeilingAbove(x, n) = C - n
  BY <1>2, <1>3, <1>4, <1>5, CeilingIsExact
<1>7. QED
  BY <1>2, <1>3, <1>6 DEF x
=============================================================================
