------------------------ MODULE SocketAddressProofs ------------------------
(***************************************************************************)
(* What the parsers and printers of SocketAddress compute, for every text   *)
(* and every address, and the invariant of its objects.  Induction over     *)
(* digits and over parts goes by sets of numbers (Least, Induct); most      *)
(* lemmas about texts conclude with a predicate that is opened where it is  *)
(* used.                                                                   *)
(***************************************************************************)
EXTENDS SocketAddress, FiniteSetTheorems, SequenceTheorems, TLAPS

-----------------------------------------------------------------------------
(* Induction and recursion.                                                *)

(* A set of natural numbers that is not empty has a least member.          *)
LEMMA Least ==
  ASSUME NEW T, T \subseteq Nat, T # {}
  PROVE \E m \in T : \A k \in T : m <= k
<1>1. PICK m \in T : \A k \in T : <<k, m>> \notin OpToRel(<, Nat)
  BY NatLessThanWellFounded, WFMin
<1>2. \A k \in T : ~(k < m)
  BY <1>1 DEF OpToRel
<1> QED BY <1>2

(* Induction over the natural numbers, for a set of them.                  *)
LEMMA Induct ==
  ASSUME NEW A, 0 \in A, \A n \in Nat : n \in A => n + 1 \in A
  PROVE Nat \subseteq A
<1> DEFINE T == Nat \ A
<1> SUFFICES ASSUME T # {} PROVE FALSE
  OBVIOUS
<1>1. PICK m \in T : \A k \in T : m <= k
  BY Least
<1>2. m - 1 \in Nat /\ m - 1 \notin T
  BY <1>1
<1>3. (m - 1) + 1 \in A
  BY <1>2
<1> QED BY <1>3

(* f is that function of h.                                                *)
Iterates(f, n, S, x, h) ==
  f \in [0..n -> S] /\ f[0] = x /\ \A k \in 1..n : f[k] = h[k][f[k - 1]]

(* A recursive function on 0..N exists: it starts at x and goes on by the  *)
(* steps of h.                                                             *)
LEMMA Iteration ==
  ASSUME NEW S, NEW x \in S, NEW N \in Nat, NEW h \in [1..N -> [S -> S]]
  PROVE \E f : Iterates(f, N, S, x, h)
<1> DEFINE Upto(n) == \E f : Iterates(f, n, S, x, h)
           A == {n \in Nat : n <= N => Upto(n)}
<1>1. 0 \in A
  <2> DEFINE g == [k \in 0..0 |-> x]
  <2>1. g \in [0..0 -> S] /\ g[0] = x
    OBVIOUS
  <2> HIDE DEF g
  <2>2. Upto(0)
    BY <2>1 DEF Iterates
  <2> QED BY <2>2
<1>2. \A n \in Nat : n \in A => n + 1 \in A
  <2> TAKE n \in Nat
  <2> HAVE n \in A
  <2> HIDE DEF Upto
  <2> SUFFICES ASSUME n + 1 <= N PROVE Upto(n + 1)
    OBVIOUS
  <2>a. n + 1 \in 1..N /\ Upto(n)
    OBVIOUS
  <2> USE DEF Upto
  <2>b. PICK f : Iterates(f, n, S, x, h)
    BY <2>a
  <2>1. f \in [0..n -> S] /\ f[0] = x /\ \A k \in 1..n : f[k] = h[k][f[k - 1]]
    BY <2>b DEF Iterates
  <2> DEFINE g == [k \in 0..n + 1 |-> IF k = n + 1 THEN h[n + 1][f[n]] ELSE f[k]]
  <2>2. g \in [0..n + 1 -> S]
    <3>1. h[n + 1][f[n]] \in S
      BY <2>a, <2>1
    <3> QED BY <3>1, <2>1
  <2>3. g[0] = x
    BY <2>1
  <2>4. ASSUME NEW k \in 1..n + 1 PROVE g[k] = h[k][g[k - 1]]
    BY <2>1
  <2> HIDE DEF g
  <2> QED BY <2>2, <2>3, <2>4 DEF Iterates
<1>3. N \in A
  <2> HIDE DEF A
  <2> QED BY <1>1, <1>2, Induct
<1> QED BY <1>3

-----------------------------------------------------------------------------
(* Numbers as sscanf reads them.                                           *)

(* The bases, the sizes of what sscanf stores, and the separators of the   *)
(* code.                                                                   *)
Bases == {10, 16}
Widths == {256, 65536}
Separators == {Dot, Colon}

(* Digits counts the digits from i on up to the first character that is    *)
(* not one.                                                                *)
LEMMA DigitsThere ==
  ASSUME NEW t \in Seq(Char), NEW i \in Nat \ {0}, NEW base \in Bases
  PROVE /\ Digits(t, i, base) \in 0..Len(t)
        /\ \A k \in 0..Digits(t, i, base) - 1 : i + k <= Len(t) /\ t[i + k] < base
        /\ i + Digits(t, i, base) <= Len(t) => t[i + Digits(t, i, base)] >= base
<1> USE DEF Bases, Widths, Separators
<1> DEFINE P(n) == /\ \A k \in 0..n - 1 : i + k <= Len(t) /\ t[i + k] < base
                   /\ i + n <= Len(t) => t[i + n] >= base
           T == {n \in 0..Len(t) : i + n <= Len(t) => t[i + n] >= base}
<1>1. Len(t) \in T
  OBVIOUS
<1>2. PICK n \in T : \A k \in T : n <= k
  <2>1. T \subseteq Nat /\ T # {}
    BY <1>1
  <2> HIDE DEF T
  <2> QED BY <2>1, Least
<1>3. P(n)
  <2>1. ASSUME NEW k \in 0..n - 1 PROVE i + k <= Len(t) /\ t[i + k] < base
    <3>1. k \notin T /\ k \in 0..Len(t)
      BY <1>2
    <3>2. i + k <= Len(t) /\ ~(t[i + k] >= base)
      BY <3>1
    <3> QED BY <3>2 DEF Char
  <2> QED BY <2>1
<1>4. Digits(t, i, base) \in 0..Len(t) /\ P(Digits(t, i, base))
  <2>1. \E m \in 0..Len(t) : P(m)
    BY <1>3
  <2>2. Digits(t, i, base) = CHOOSE m \in 0..Len(t) : P(m)
    BY DEF Digits
  <2> HIDE DEF P
  <2> QED BY <2>1, <2>2
<1> QED BY <1>4

(* f adds up the digits from i on.                                         *)
IsValue(f, t, i, base) ==
  /\ f \in [0..Digits(t, i, base) -> Nat]
  /\ f[0] = 0
  /\ \A n \in 1..Digits(t, i, base) : f[n] = f[n - 1] * base + t[i + n - 1]

(* The value that sscanf computes is that of a recursive function over the *)
(* digits.                                                                 *)
LEMMA ValueOf ==
  ASSUME NEW t \in Seq(Char), NEW i \in Nat \ {0}, NEW base \in Bases, NEW values
  PROVE \E f : IsValue(f, t, i, base) /\ sscanf(t, i, base, values) = f[Digits(t, i, base)] % values
<1> USE DEF Bases, Widths, Separators
<1> DEFINE D == Digits(t, i, base)
           F == CHOOSE g : g = [n \in 0..D |-> IF n = 0 THEN 0 ELSE g[n - 1] * base + t[i + n - 1]]
           h == [n \in 1..D |-> [v \in Nat |-> v * base + t[i + n - 1]]]
<1>1. D \in 0..Len(t) /\ \A n \in 1..D : t[i + n - 1] \in Nat
  <2>1. D \in 0..Len(t) /\ \A k \in 0..D - 1 : i + k <= Len(t)
    BY DigitsThere
  <2> HIDE DEF D
  <2>2. ASSUME NEW n \in 1..D PROVE t[i + n - 1] \in Nat
    <3>1. n - 1 \in 0..D - 1 /\ i + (n - 1) = i + n - 1
      BY <2>1
    <3>2. i + n - 1 \in 1..Len(t)
      BY <2>1, <3>1
    <3>3. t[i + n - 1] \in Char
      BY <3>2
    <3> QED BY <3>3 DEF Char
  <2> QED BY <2>1, <2>2
<1>0. \A v \in Nat, c \in Nat : v * base + c \in Nat
  <2>1. CASE base = 10
    BY <2>1
  <2>2. CASE base = 16
    BY <2>2
  <2> QED BY <2>1, <2>2
<1>2. sscanf(t, i, base, values) = F[D] % values
  BY Zenon DEF sscanf
<1>3. h \in [1..D -> [Nat -> Nat]]
  <2> HIDE DEF D
  <2> QED BY <1>0, <1>1
<1>4. PICK f : Iterates(f, D, Nat, 0, h)
  <2>1. D \in Nat /\ 0 \in Nat
    BY <1>1
  <2> HIDE DEF D, h
  <2> QED BY <2>1, <1>3, Iteration
<1> HIDE DEF h
<1>5. f = [n \in 0..D |-> IF n = 0 THEN 0 ELSE f[n - 1] * base + t[i + n - 1]]
  <2> HIDE DEF D
  <2>0. f \in [0..D -> Nat] /\ f[0] = 0 /\ \A n \in 1..D : f[n] = h[n][f[n - 1]]
    BY <1>4 DEF Iterates
  <2>1. ASSUME NEW n \in 1..D PROVE f[n] = f[n - 1] * base + t[i + n - 1]
    <3>1. f[n - 1] \in Nat
      BY <1>1, <2>0
    <3>2. f[n] = h[n][f[n - 1]]
      BY <2>0, Zenon
    <3> QED BY <3>1, <3>2 DEF h
  <2> QED BY <1>1, <2>0, <2>1
<1>6. F = [n \in 0..D |-> IF n = 0 THEN 0 ELSE F[n - 1] * base + t[i + n - 1]]
  BY <1>5, Zenon
<1> HIDE DEF F, D
<1>7. F[0] = 0 /\ \A n \in 1..D : F[n] = F[n - 1] * base + t[i + n - 1]
  BY <1>1, <1>6
<1>8. F \in [0..D -> Nat]
  <2> DEFINE A == {n \in Nat : n <= D => F[n] \in Nat}
  <2>1. 0 \in A
    BY <1>7
  <2>2. ASSUME NEW n \in Nat, n \in A PROVE n + 1 \in A
    <3> SUFFICES ASSUME n + 1 <= D PROVE F[n + 1] \in Nat
      OBVIOUS
    <3> DEFINE m == n + 1
    <3>1. F[n] \in Nat
      BY <2>2, <1>1
    <3>2. m \in 1..D /\ m - 1 = n
      BY <1>1
    <3> HIDE DEF m
    <3>3. t[i + m - 1] \in Nat /\ F[m] = F[m - 1] * base + t[i + m - 1]
      BY <3>2, <1>1, <1>7
    <3>4. F[m] \in Nat
      BY <3>1, <3>2, <3>3, <1>0
    <3> QED BY <3>4 DEF m
  <2>3. Nat \subseteq A
    <3> HIDE DEF A
    <3> QED BY <2>1, <2>2, Induct
  <2>4. \A n \in 0..D : F[n] \in Nat
    BY <1>1, <2>3
  <2> QED BY <1>1, <1>6, <2>4
<1> QED BY <1>2, <1>7, <1>8 DEF D, IsValue

(* What sscanf stores fits the bytes or the shorts it is stored in.        *)
LEMMA sscanfType ==
  ASSUME NEW t \in Seq(Char), NEW i \in Nat \ {0}, NEW base \in Bases, NEW values \in Widths
  PROVE sscanf(t, i, base, values) \in Nat /\ sscanf(t, i, base, values) < values
<1> USE DEF Bases, Widths, Separators
<1>1. PICK f : IsValue(f, t, i, base) /\ sscanf(t, i, base, values) = f[Digits(t, i, base)] % values
  BY ValueOf
<1>2. f[Digits(t, i, base)] \in Nat
  BY <1>1, DigitsThere DEF IsValue
<1> QED BY <1>1, <1>2

(* The numeral d starts at i in t, and ends there.                         *)
IsNumber(t, i, d, base) ==
  /\ i \in Nat \ {0}
  /\ i + Len(d) - 1 <= Len(t)
  /\ \A k \in 1..Len(d) : t[i + k - 1] = d[k]
  /\ i + Len(d) <= Len(t) => t[i + Len(d)] >= base

(* Adding up digit by digit, as sscanf does, gives the number a numeral    *)
(* stands for.                                                             *)
LEMMA NumeralValue ==
  ASSUME NEW base \in Bases, NEW d \in Numerals(base, 4), NEW f,
         f[0] = 0, \A n \in 1..Len(d) : f[n] = f[n - 1] * base + d[n]
  PROVE f[Len(d)] = Numeral(d, base)
<1> USE DEF Bases, Widths, Separators
<1>1. d \in Seq(Nat) /\ Len(d) \in 1..4
  BY DEF Numerals
<1>2. \A k \in 1..Len(d) : d[k] \in Nat
  BY <1>1
<1>3. f[1] = f[0] * base + d[1]
  <2>1. f[1] = f[1 - 1] * base + d[1]
    BY <1>1
  <2> QED BY <2>1
<1>4. Len(d) >= 2 => f[2] = f[1] * base + d[2]
  <2>1. Len(d) >= 2 => f[2] = f[2 - 1] * base + d[2]
    BY <1>1
  <2> QED BY <2>1
<1>5. Len(d) >= 3 => f[3] = f[2] * base + d[3]
  <2>1. Len(d) >= 3 => f[3] = f[3 - 1] * base + d[3]
    BY <1>1
  <2> QED BY <2>1
<1>6. Len(d) >= 4 => f[4] = f[3] * base + d[4]
  <2>1. Len(d) >= 4 => f[4] = f[4 - 1] * base + d[4]
    BY <1>1
  <2> QED BY <2>1
<1>7. CASE base = 10
  <2>1. CASE Len(d) = 1
    BY <1>2, <1>3, <1>7, <2>1 DEF Numeral
  <2>2. CASE Len(d) = 2
    BY <1>2, <1>3, <1>4, <1>7, <2>2 DEF Numeral
  <2>3. CASE Len(d) = 3
    BY <1>2, <1>3, <1>4, <1>5, <1>7, <2>3 DEF Numeral
  <2>4. CASE Len(d) = 4
    BY <1>2, <1>3, <1>4, <1>5, <1>6, <1>7, <2>4 DEF Numeral
  <2> QED BY <1>1, <2>1, <2>2, <2>3, <2>4
<1>8. CASE base = 16
  <2>1. CASE Len(d) = 1
    BY <1>2, <1>3, <1>8, <2>1 DEF Numeral
  <2>2. CASE Len(d) = 2
    BY <1>2, <1>3, <1>4, <1>8, <2>2 DEF Numeral
  <2>3. CASE Len(d) = 3
    BY <1>2, <1>3, <1>4, <1>5, <1>8, <2>3 DEF Numeral
  <2>4. CASE Len(d) = 4
    BY <1>2, <1>3, <1>4, <1>5, <1>6, <1>8, <2>4 DEF Numeral
  <2> QED BY <1>1, <2>1, <2>2, <2>3, <2>4
<1> QED BY <1>7, <1>8

(* Four hexadecimal digits make a number of two bytes.                     *)
LEMMA FourDigits ==
  ASSUME NEW a \in 0..15, NEW b \in 0..15, NEW c \in 0..15, NEW e \in 0..15
  PROVE a + 16 * b + 256 * c + 4096 * e \in Nat /\ a + 16 * b + 256 * c + 4096 * e < 65536
OBVIOUS

(* A group of an IPv6 address is a number of two bytes.                    *)
LEMMA HexNumeralType ==
  ASSUME NEW d \in Numerals(16, 4)
  PROVE Numeral(d, 16) \in Nat /\ Numeral(d, 16) < 65536
<1> DEFINE digit(k) == IF k < Len(d) THEN d[Len(d) - k] ELSE 0
<1>1. d \in Seq(0..15) /\ Len(d) \in 1..4
  BY DEF Numerals
<1>2. \A k \in 0..3 : digit(k) \in 0..15
  BY <1>1
<1>3. Numeral(d, 16) = digit(0) + 16 * digit(1) + 256 * digit(2) + 4096 * digit(3)
  BY <1>2 DEF Numeral
<1> HIDE DEF digit
<1>4. PICK a \in 0..15, b \in 0..15, c \in 0..15, e \in 0..15 :
        a = digit(0) /\ b = digit(1) /\ c = digit(2) /\ e = digit(3)
  <2>1. digit(0) \in 0..15 /\ digit(1) \in 0..15 /\ digit(2) \in 0..15 /\ digit(3) \in 0..15
    BY <1>2
  <2> QED BY <2>1, Zenon
<1>5. Numeral(d, 16) = a + 16 * b + 256 * c + 4096 * e
  BY <1>3, <1>4
<1> QED BY <1>5, FourDigits

(* A decimal numeral of three digits is one of at most four.               *)
LEMMA DecimalNumeralType ==
  ASSUME NEW d \in Numerals(10, 3)
  PROVE d \in Numerals(10, 4) /\ Numeral(d, 10) \in Nat
<1> DEFINE digit(k) == IF k < Len(d) THEN d[Len(d) - k] ELSE 0
<1>1. d \in Seq(0..9) /\ Len(d) \in 1..3
  BY DEF Numerals
<1>2. \A k \in 0..3 : digit(k) \in 0..9
  BY <1>1
<1>3. Numeral(d, 10) = digit(0) + 10 * digit(1) + 100 * digit(2) + 1000 * digit(3)
  BY <1>2 DEF Numeral
<1>4. d \in Numerals(10, 4)
  BY <1>1 DEF Numerals
<1> HIDE DEF digit
<1>5. digit(0) \in 0..9 /\ digit(1) \in 0..9 /\ digit(2) \in 0..9 /\ digit(3) \in 0..9
  BY <1>2
<1> QED BY <1>3, <1>4, <1>5

(* Where a numeral starts in a text, sscanf reads its number.              *)
LEMMA NumeralScanned ==
  ASSUME NEW t \in Seq(Char), NEW i, NEW base \in Bases, NEW d \in Numerals(base, 4),
         IsNumber(t, i, d, base), NEW values \in Widths
  PROVE sscanf(t, i, base, values) = Numeral(d, base) % values
<1> DEFINE D == Digits(t, i, base)
<1>1. /\ i \in Nat \ {0} /\ i + Len(d) - 1 <= Len(t) /\ Len(d) \in 1..4
      /\ \A k \in 1..Len(d) : t[i + k - 1] = d[k] /\ d[k] \in 0..base - 1
      /\ i + Len(d) <= Len(t) => t[i + Len(d)] >= base
      /\ base \in Nat
  BY DEF IsNumber, Numerals, Bases
<1>2. /\ D \in 0..Len(t)
      /\ \A k \in 0..D - 1 : i + k <= Len(t) /\ t[i + k] < base
      /\ i + D <= Len(t) => t[i + D] >= base
  <2>1. i \in Nat \ {0}
    BY <1>1
  <2> QED BY <2>1, DigitsThere
<1>3. D = Len(d)
  <2> HIDE DEF D
  <2>1. ~(D > Len(d))
    <3> SUFFICES ASSUME D > Len(d) PROVE FALSE
      OBVIOUS
    <3>1. Len(d) \in 0..D - 1
      BY <1>1, <1>2
    <3>2. i + Len(d) <= Len(t) /\ t[i + Len(d)] < base
      BY <3>1, <1>2
    <3>3. i + Len(d) \in 1..Len(t)
      BY <3>2, <1>1
    <3>4. t[i + Len(d)] \in Char
      BY <3>3
    <3> QED BY <3>2, <3>4, <1>1 DEF Char, Bases
  <2>2. ~(D < Len(d))
    <3> SUFFICES ASSUME D < Len(d) PROVE FALSE
      OBVIOUS
    <3> DEFINE k == D + 1
    <3>1. k \in 1..Len(d) /\ i + k - 1 = i + D /\ i + D <= Len(t)
      BY <1>1, <1>2
    <3>2. t[i + D] = d[k] /\ d[k] \in 0..base - 1
      <4> HIDE DEF k
      <4> QED BY <1>1, <3>1
    <3> QED BY <1>2, <3>1, <3>2 DEF Bases
  <2> QED BY <2>1, <2>2, <1>1, <1>2
<1>4. PICK f : IsValue(f, t, i, base) /\ sscanf(t, i, base, values) = f[D] % values
  BY <1>1, ValueOf
<1>5. f[0] = 0 /\ \A n \in 1..Len(d) : f[n] = f[n - 1] * base + d[n]
  BY <1>1, <1>3, <1>4 DEF IsValue
<1>6. f[Len(d)] = Numeral(d, base)
  BY <1>5, NumeralValue
<1> QED BY <1>3, <1>4, <1>6

-----------------------------------------------------------------------------
(* Where the scanning loops find the numbers of a text.                    *)

(* The places where the scanning loops look for a number are finitely many *)
(* and include the first.                                                  *)
LEMMA StartsThere ==
  ASSUME NEW t \in Seq(Char), NEW sep
  PROVE Starts(t, sep) \subseteq 1..Len(t) + 1 /\ 1 \in Starts(t, sep) /\ IsFiniteSet(Starts(t, sep))
<1>1. Starts(t, sep) \subseteq 1..Len(t) + 1 /\ 1 \in Starts(t, sep)
  BY DEF Starts
<1>2. IsFiniteSet(1..Len(t) + 1)
  BY FS_Interval
<1> QED BY <1>1, <1>2, FS_Subset

(* Later starts have higher places.                                        *)
LEMMA PlaceGrows ==
  ASSUME NEW S, S \subseteq Nat, IsFiniteSet(S), NEW i \in S
  PROVE /\ Place(S, i) \in Nat /\ Place(S, i) >= 1
        /\ \A j \in S : i < j => Place(S, i) < Place(S, j)
<1> DEFINE T(j) == {k \in S : k <= j}
<1>1. \A j : T(j) \in SUBSET S /\ IsFiniteSet(T(j)) /\ Cardinality(T(j)) \in Nat
  <2> TAKE j
  <2>1. T(j) \in SUBSET S
    OBVIOUS
  <2> HIDE DEF T
  <2> QED BY <2>1, FS_Subset, FS_CardinalityType
<1>2. i \in T(i)
  OBVIOUS
<1>3. ASSUME NEW j \in S, i < j PROVE Cardinality(T(i)) < Cardinality(T(j))
  <2>0. i \in Nat /\ j \in Nat /\ \A k \in S : k \in Nat
    OBVIOUS
  <2>a. ASSUME NEW k \in T(i) PROVE k \in T(j)
    BY <1>3, <2>0
  <2>b. j \in T(j) /\ j \notin T(i)
    BY <1>3, <2>0
  <2>1. T(i) \in SUBSET T(j) /\ j \in T(j) /\ j \notin T(i)
    <3> HIDE DEF T
    <3> QED BY <2>a, <2>b
  <2> HIDE DEF T
  <2>2. Cardinality(T(i)) <= Cardinality(T(j)) /\ Cardinality(T(i)) # Cardinality(T(j))
    BY <1>1, <2>1, FS_Subset
  <2> QED BY <1>1, <2>2
<1>4. \A j : Place(S, j) = Cardinality(T(j))
  BY DEF Place
<1> HIDE DEF T
<1>5. Cardinality(T(i)) # 0
  BY <1>1, <1>2, FS_EmptySet
<1> QED BY <1>1, <1>3, <1>4, <1>5

(* The k-th start of a run of starts has place k.                          *)
LEMMA PlaceInRun ==
  ASSUME NEW S, S \subseteq Nat, NEW n \in Nat, NEW s \in [1..n -> S],
         \A j \in 1..n, k \in 1..n : j < k => s[j] < s[k],
         \A i \in S : (\E k \in 1..n : i = s[k]) \/ (\A k \in 1..n : s[k] < i),
         NEW k \in 1..n
  PROVE Place(S, s[k]) = k
<1> DEFINE T == {j \in S : j <= s[k]}
           r == [m \in 1..k |-> s[m]]
<1>0. \A j \in 1..n : s[j] \in Nat
  OBVIOUS
<1>1. \A m \in 1..k : s[m] \in T
  BY <1>0
<1>2. \A j \in T : \E m \in 1..k : j = s[m]
  <2> SUFFICES ASSUME NEW j \in T PROVE \E m \in 1..k : j = s[m]
    OBVIOUS
  <2>1. PICK m \in 1..n : j = s[m]
    BY <1>0
  <2>2. ~(k < m)
    BY <1>0, <2>1
  <2> QED BY <2>1, <2>2
<1>3. r \in Bijection(1..k, T)
  <2>1. r \in [1..k -> T]
    BY <1>1
  <2>2. \A a, b \in 1..k : r[a] = r[b] => a = b
    <3> SUFFICES ASSUME NEW a \in 1..k, NEW b \in 1..k, s[a] = s[b] PROVE a = b
      OBVIOUS
    <3>1. a \in 1..n /\ b \in 1..n
      OBVIOUS
    <3> QED BY <1>0, <3>1
  <2>3. \A j \in T : \E m \in 1..k : r[m] = j
    BY <1>2
  <2> HIDE DEF r, T
  <2> QED BY <2>1, <2>2, <2>3 DEF Bijection, Injection, Surjection, IsInjective
<1>4. ExistsBijection(1..k, T)
  BY <1>3, Zenon DEF ExistsBijection
<1>5. IsFiniteSet(1..k) /\ Cardinality(1..k) = k
  BY FS_Interval
<1>6. Cardinality(T) = k
  <2> HIDE DEF T
  <2> QED BY <1>4, <1>5, FS_Bijection
<1> QED BY <1>6 DEF Place

(* The first n starts in t are those of numbers, and the next is not.       *)
Numbered(t, sep, base, n, s, parts) ==
  /\ s \in [1..n -> Starts(t, sep)]
  /\ \A j \in 1..n, k \in 1..n : j < k => s[j] < s[k]
  /\ \A k \in 1..n : parts[k] \in Numerals(base, 4) /\ IsNumber(t, s[k], parts[k], base)
  /\ \A i \in Starts(t, sep) : (\E k \in 1..n : i = s[k]) \/ (\A k \in 1..n : s[k] < i)
  /\ \/ \A i \in Starts(t, sep) : \E k \in 1..n : i = s[k]
     \/ \E e \in Starts(t, sep) :
          /\ \A k \in 1..n : s[k] < e
          /\ \A i \in Starts(t, sep) : (\A k \in 1..n : s[k] < i) => e <= i
          /\ ~(e <= Len(t) /\ t[e] < base)

(* s is the sequence of the starts of the first n numbers.                 *)
StartsAre(t, sep, n, s) == \A k \in 1..n : Start(t, sep, k) = s[k]

(* The scanning loops read the numbers of a run, all of them and none      *)
(* after it.                                                               *)
LEMMA ScannedRun ==
  ASSUME NEW t \in Seq(Char), NEW sep, NEW base \in Bases, NEW max \in Nat, NEW n \in 0..max,
         NEW parts, NEW s, Numbered(t, sep, base, n, s, parts)
  PROVE Scanned(t, sep, base, max) = 1..n /\ StartsAre(t, sep, n, s)
<1> USE DEF Bases, Widths, Separators
<1> DEFINE S == Starts(t, sep)
<1>0. /\ s \in [1..n -> Starts(t, sep)]
      /\ \A j \in 1..n, k \in 1..n : j < k => s[j] < s[k]
      /\ \A k \in 1..n : parts[k] \in Numerals(base, 4) /\ IsNumber(t, s[k], parts[k], base)
      /\ \A i \in Starts(t, sep) : (\E k \in 1..n : i = s[k]) \/ (\A k \in 1..n : s[k] < i)
      /\ \/ \A i \in Starts(t, sep) : \E k \in 1..n : i = s[k]
         \/ \E e \in Starts(t, sep) :
              /\ \A k \in 1..n : s[k] < e
              /\ \A i \in Starts(t, sep) : (\A k \in 1..n : s[k] < i) => e <= i
              /\ ~(e <= Len(t) /\ t[e] < base)
  BY DEF Numbered
<1>1. S \subseteq Nat /\ IsFiniteSet(S)
  BY StartsThere
<1>2. ASSUME NEW k \in 1..n PROVE Place(S, s[k]) = k
  <2>1. /\ s \in [1..n -> S]
        /\ \A i \in S : (\E m \in 1..n : i = s[m]) \/ (\A m \in 1..n : s[m] < i)
    BY <1>0
  <2>2. n \in Nat /\ \A i \in 1..n, j \in 1..n : i < j => s[i] < s[j]
    BY <1>0
  <2> HIDE DEF S
  <2> QED BY <1>1, <2>1, <2>2, PlaceInRun
<1>3. \A i \in S, j \in S : i < j => Place(S, i) < Place(S, j)
  BY <1>1, PlaceGrows
<1>4. \A i \in S : Place(S, i) \in Nat /\ Place(S, i) >= 1
  BY <1>1, PlaceGrows
<1>5. ASSUME NEW k \in 1..n PROVE Start(t, sep, k) = s[k]
  <2>1. s[k] \in S /\ Place(S, s[k]) = k
    BY <1>0, <1>2
  <2>2. ASSUME NEW i \in S, Place(S, i) = k PROVE i = s[k]
    <3>1. i \in Nat /\ s[k] \in Nat
      BY <2>1, <1>1
    <3>2. ~(i < s[k]) /\ ~(s[k] < i)
      BY <1>3, <2>1, <2>2
    <3> QED BY <3>1, <3>2
  <2>3. Start(t, sep, k) = CHOOSE i \in S : Place(S, i) = k
    BY DEF Start
  <2> HIDE DEF S
  <2> QED BY <2>1, <2>2, <2>3
<1>6. ASSUME NEW m \in 1..n
      PROVE \E i \in S : Place(S, i) = m /\ i <= Len(t) /\ t[i] < base
  <2>1. s[m] \in S /\ Place(S, s[m]) = m
    BY <1>0, <1>2
  <2>2. parts[m] \in Numerals(base, 4) /\ IsNumber(t, s[m], parts[m], base)
    BY <1>0
  <2>3. Len(parts[m]) >= 1 /\ parts[m][1] \in 0..base - 1 /\ Len(parts[m]) \in Nat
    BY <2>2 DEF Numerals
  <2>4. s[m] \in Nat /\ s[m] <= Len(t)
    BY <2>2, <2>3 DEF IsNumber
  <2>5. t[s[m] + 1 - 1] = parts[m][1]
    BY <2>2, <2>3 DEF IsNumber
  <2>6. t[s[m]] = parts[m][1]
    BY <2>4, <2>5
  <2> HIDE DEF S
  <2> QED BY <2>1, <2>3, <2>4, <2>6
<1>7. ASSUME n + 1 <= max, NEW i \in S, Place(S, i) = n + 1, i <= Len(t), t[i] < base PROVE FALSE
  <2>1. \A k \in 1..n : s[k] < i
    <3>1. ~\E k \in 1..n : i = s[k]
      BY <1>2, <1>7
    <3> QED BY <3>1, <1>0
  <2>2. PICK e \in S : /\ \A k \in 1..n : s[k] < e
                       /\ e <= i
                       /\ ~(e <= Len(t) /\ t[e] < base)
    <3>1. n # max /\ ~\A j \in S : \E k \in 1..n : j = s[k]
      BY <1>2, <1>7
    <3> QED BY <3>1, <2>1, <1>0
  <2>3. e # i
    BY <1>7, <2>2
  <2>4. e < i
    BY <1>1, <2>2, <2>3
  <2>5. Place(S, e) < n + 1 /\ Place(S, e) \in Nat /\ Place(S, e) >= 1
    BY <1>3, <1>4, <1>7, <2>4
  <2>6. n # 0 => Place(S, s[n]) < Place(S, e) /\ Place(S, s[n]) = n
    <3> SUFFICES ASSUME n # 0 PROVE Place(S, s[n]) < Place(S, e) /\ Place(S, s[n]) = n
      OBVIOUS
    <3>1. n \in 1..n /\ s[n] \in S /\ s[n] < e
      BY <1>0, <2>2
    <3> QED BY <3>1, <1>2, <1>3
  <2> HIDE DEF S
  <2> QED BY <2>5, <2>6
<1>8. Scanned(t, sep, base, max) =
        {k \in 1..max : \A m \in 1..k : \E i \in S : Place(S, i) = m /\ i <= Len(t) /\ t[i] < base}
  BY DEF Scanned
<1>9. Scanned(t, sep, base, max) = 1..n
  <2> HIDE DEF S
  <2>1. ASSUME NEW k \in 1..max, k \in Scanned(t, sep, base, max), k > n PROVE FALSE
    <3>1. n + 1 \in 1..k /\ n + 1 <= max
      BY <2>1
    <3>2. \E i \in S : Place(S, i) = n + 1 /\ i <= Len(t) /\ t[i] < base
      BY <3>1, <2>1, <1>8
    <3> QED BY <3>1, <3>2, <1>7
  <2>2. Scanned(t, sep, base, max) \subseteq 1..max
    BY <1>8
  <2>3. ASSUME NEW k \in 1..n PROVE k \in Scanned(t, sep, base, max)
    <3>1. k \in 1..max /\ \A m \in 1..k : m \in 1..n
      OBVIOUS
    <3>2. \A m \in 1..k : \E i \in S : Place(S, i) = m /\ i <= Len(t) /\ t[i] < base
      BY <3>1, <1>6
    <3> QED BY <3>1, <3>2, <1>8
  <2>4. \A k \in Scanned(t, sep, base, max) : k \in 1..n
    BY <2>1, <2>2
  <2> QED BY <2>3, <2>4
<1> QED BY <1>5, <1>9 DEF StartsAre

-----------------------------------------------------------------------------
(* Texts that join parts, and what the scanning loops get from them.       *)

(* A text, a separator and one more part.                                  *)
Inserted(t, sep, p) == t \o <<sep>> \o p

(* u is t, sep and p, character by character.                              *)
IsInsertion(u, t, sep, p) ==
  /\ u \in Seq(Char) /\ Len(u) = Len(t) + 1 + Len(p)
  /\ \A i \in 1..Len(t) : u[i] = t[i]
  /\ u[Len(t) + 1] = sep
  /\ \A j \in 1..Len(p) : u[Len(t) + 1 + j] = p[j]

(* The characters of a text to which a separator and a part are appended.  *)
LEMMA InsertedAt ==
  ASSUME NEW t \in Seq(Char), NEW sep \in Char, NEW p \in Seq(Char)
  PROVE IsInsertion(Inserted(t, sep, p), t, sep, p)
<1> DEFINE a == t \o <<sep>>
<1>1. a \in Seq(Char) /\ Len(a) = Len(t) + 1
  OBVIOUS
<1>2. \A i \in 1..Len(t) : a[i] = t[i]
  OBVIOUS
<1>3. a[Len(t) + 1] = sep
  OBVIOUS
<1>4. Inserted(t, sep, p) = a \o p
  BY DEF Inserted
<1> HIDE DEF a
<1>5. a \o p \in Seq(Char) /\ Len(a \o p) = Len(t) + 1 + Len(p)
  BY <1>1
<1>6. \A i \in 1..Len(t) + 1 : (a \o p)[i] = a[i]
  BY <1>1
<1>7. \A j \in 1..Len(p) : (a \o p)[Len(t) + 1 + j] = p[j]
  <2> TAKE j \in 1..Len(p)
  <2> DEFINE k == Len(t) + 1 + j
  <2>1. k \in 1..Len(a) + Len(p) /\ ~(k <= Len(a)) /\ k - Len(a) = j
    BY <1>1
  <2> HIDE DEF k
  <2>2. (a \o p)[k] = p[j]
    BY <1>1, <2>1
  <2> QED BY <2>2 DEF k
<1> QED BY <1>2, <1>3, <1>4, <1>5, <1>6, <1>7 DEF IsInsertion

(* t is the first n parts with separators between them, and s says where    *)
(* each part starts.                                                       *)
RunStarts(t, n, s, parts) ==
  /\ s \in [1..n -> Nat \ {0}]
  /\ n # 0 => s[1] = 1
  /\ \A j, k \in 1..n : j < k => s[j] + Len(parts[j]) < s[k]
  /\ n = 0 <=> Len(t) = 0
RunParts(t, n, s, parts) ==
  \A k \in 1..n : /\ s[k] + Len(parts[k]) - 1 <= Len(t)
                  /\ \A j \in 1..Len(parts[k]) : t[s[k] + j - 1] = parts[k][j]
RunSeparated(t, n, s, parts, sep) ==
  /\ \A k \in 1..n : s[k] + Len(parts[k]) <= Len(t) => t[s[k] + Len(parts[k])] = sep
  /\ \A k \in 2..n : s[k] - 1 \in 1..Len(t) /\ t[s[k] - 1] = sep
  /\ \A i \in 1..Len(t) : t[i] = sep => \E k \in 2..n : i + 1 = s[k]
RunChars(t, n, parts, sep) ==
  /\ \A i \in 1..Len(t) : t[i] = sep \/ \E k \in 1..n : \E j \in 1..Len(parts[k]) : t[i] = parts[k][j]
  /\ n # 0 => t[Len(t)] = parts[n][Len(parts[n])]
IsRun(t, n, s, parts, sep) ==
  /\ RunStarts(t, n, s, parts) /\ RunParts(t, n, s, parts)
  /\ RunSeparated(t, n, s, parts, sep) /\ RunChars(t, n, parts, sep)

(* A numeral is a text of digits, which are no separators.                 *)
LEMMA NumeralChars ==
  ASSUME NEW base \in Bases, NEW d \in Numerals(base, 4)
  PROVE /\ d \in Seq(Char) /\ Len(d) \in Nat /\ Len(d) \in 1..4
        /\ 1 \in 1..Len(d) /\ Len(d) \in 1..Len(d)
        /\ \A j \in 1..Len(d) : d[j] \in 0..base - 1 /\ d[j] # Dot /\ d[j] # Colon
<1> USE DEF Bases, Widths, Separators
<1>1. d \in Seq(0..base - 1) /\ Len(d) \in 1..4
  BY DEF Numerals
<1>2. 0..base - 1 \subseteq Char
  BY DEF Char
<1>3. d \in Seq(Char)
  BY <1>1, <1>2
<1>4. \A j \in 1..Len(d) : d[j] \in 0..base - 1 /\ d[j] # Dot /\ d[j] # Colon
  BY <1>1 DEF Dot, Colon
<1> DEFINE l == Len(d)
<1>5. l \in 1..4
  BY <1>1
<1> HIDE DEF l
<1>6. l \in Nat /\ 1 \in 1..l /\ l \in 1..l
  BY <1>5
<1> QED BY <1>3, <1>4, <1>5, <1>6 DEF l

(* One part alone is a run.                                                *)
LEMMA RunOfOne ==
  ASSUME NEW base \in Bases, NEW sep \in Separators, NEW parts, parts[1] \in Numerals(base, 4)
  PROVE IsRun(parts[1], 1, [k \in 1..1 |-> 1], parts, sep)
<1> USE DEF Bases, Widths, Separators
<1> DEFINE d == parts[1]
           s == [k \in 1..1 |-> 1]
<1>1. /\ d \in Seq(Char) /\ Len(d) \in 1..4
      /\ \A j \in 1..Len(d) : d[j] # sep
  BY NumeralChars
<1>2. s[1] = 1 /\ \A k \in 1..1 : k = 1
  OBVIOUS
<1>3. RunStarts(d, 1, s, parts)
  <2>1. s \in [1..1 -> Nat \ {0}]
    OBVIOUS
  <2> HIDE DEF s
  <2> QED BY <1>1, <1>2, <2>1 DEF RunStarts
<1> HIDE DEF s
<1>4. RunParts(d, 1, s, parts)
  BY <1>1, <1>2 DEF RunParts
<1>5. RunSeparated(d, 1, s, parts, sep)
  BY <1>1, <1>2 DEF RunSeparated
<1>6. RunChars(d, 1, parts, sep)
  BY <1>1, <1>2 DEF RunChars
<1> QED BY <1>3, <1>4, <1>5, <1>6 DEF IsRun, s

(* A run stays one when a separator and a part are appended.               *)
LEMMA RunExtended ==
  ASSUME NEW base \in Bases, NEW sep \in Separators, NEW parts, NEW n \in Nat \ {0},
         \A k \in 1..n + 1 : parts[k] \in Numerals(base, 4),
         NEW t \in Seq(Char), NEW s, IsRun(t, n, s, parts, sep)
  PROVE IsRun(Inserted(t, sep, parts[n + 1]), n + 1,
              [k \in 1..n + 1 |-> IF k = n + 1 THEN Len(t) + 2 ELSE s[k]], parts, sep)
<1> USE DEF Bases, Widths, Separators
<1> DEFINE p == parts[n + 1]
           u == Inserted(t, sep, p)
           r == [k \in 1..n + 1 |-> IF k = n + 1 THEN Len(t) + 2 ELSE s[k]]
           L == Len(t)
<1>1. /\ p \in Seq(Char) /\ Len(p) \in 1..4
      /\ \A j \in 1..Len(p) : p[j] # sep
  BY NumeralChars
<1>2. \A k \in 1..n + 1 : Len(parts[k]) \in 1..4
  BY NumeralChars
<1>3. sep \in Char /\ L \in Nat
  BY DEF Dot, Colon, Char
<1>4. /\ u \in Seq(Char) /\ Len(u) = L + 1 + Len(p)
      /\ \A i \in 1..L : u[i] = t[i]
      /\ u[L + 1] = sep
      /\ \A j \in 1..Len(p) : u[L + 1 + j] = p[j]
  <2>1. p \in Seq(Char) /\ sep \in Char
    BY <1>1, <1>3
  <2>2. IsInsertion(u, t, sep, p)
    BY <2>1, InsertedAt
  <2> QED BY <2>2 DEF IsInsertion
<1>5. /\ r \in [1..n + 1 -> {L + 2} \cup {s[k] : k \in 1..n}]
      /\ r[n + 1] = L + 2
      /\ \A k \in 1..n : r[k] = s[k]
  OBVIOUS
<1>6. /\ s \in [1..n -> Nat \ {0}] /\ s[1] = 1 /\ L # 0
      /\ \A j, k \in 1..n : j < k => s[j] + Len(parts[j]) < s[k]
  BY DEF IsRun, RunStarts
<1>7. \A k \in 1..n : /\ s[k] + Len(parts[k]) - 1 <= L
                      /\ \A j \in 1..Len(parts[k]) : t[s[k] + j - 1] = parts[k][j]
  BY DEF IsRun, RunParts
<1>8. /\ \A k \in 1..n : s[k] + Len(parts[k]) <= L => t[s[k] + Len(parts[k])] = sep
      /\ \A k \in 2..n : s[k] - 1 \in 1..L /\ t[s[k] - 1] = sep
      /\ \A i \in 1..L : t[i] = sep => \E k \in 2..n : i + 1 = s[k]
  BY DEF IsRun, RunSeparated
<1>9. \A i \in 1..L : t[i] = sep \/ \E k \in 1..n : \E j \in 1..Len(parts[k]) : t[i] = parts[k][j]
  BY DEF IsRun, RunChars
<1>10. n + 1 \in 1..n + 1 /\ \A k \in 1..n + 1 : k = n + 1 \/ k \in 1..n
  OBVIOUS
<1>11. r \in [1..n + 1 -> Nat \ {0}]
  <2>1. \A k \in 1..n + 1 : r[k] \in Nat \ {0}
    BY <1>3, <1>6
  <2> QED BY <2>1
<1> HIDE DEF p, u, r, L
<1>12. ASSUME NEW i \in 1..Len(u), ~(i \in 1..L), i # L + 1
       PROVE i - L - 1 \in 1..Len(p) /\ u[i] = p[i - L - 1]
  <2> DEFINE j == i - L - 1
  <2>1. j \in 1..Len(p) /\ i = L + 1 + j
    BY <1>1, <1>3, <1>4, <1>12
  <2> HIDE DEF j
  <2>2. u[i] = p[j]
    BY <2>1, <1>4
  <2> QED BY <2>1, <2>2 DEF j
<1>13. RunStarts(u, n + 1, r, parts)
  <2>1. r[1] = 1
    BY <1>5, <1>6
  <2>2. ASSUME NEW j \in 1..n + 1, NEW k \in 1..n + 1, j < k PROVE r[j] + Len(parts[j]) < r[k]
    <3>1. j \in 1..n /\ r[j] = s[j]
      BY <2>2, <1>5
    <3>2. CASE k = n + 1
      <4>1. s[j] + Len(parts[j]) - 1 <= L /\ r[k] = L + 2 /\ s[j] \in Nat /\ Len(parts[j]) \in Nat
        BY <3>1, <3>2, <1>2, <1>5, <1>6, <1>7
      <4> QED BY <4>1, <3>1, <1>3
    <3>3. CASE k # n + 1
      BY <2>2, <3>1, <3>3, <1>5, <1>6, <1>10
    <3> QED BY <3>2, <3>3
  <2>3. n + 1 # 0 /\ Len(u) # 0
    BY <1>1, <1>3, <1>4
  <2> QED BY <2>1, <2>2, <2>3, <1>11 DEF RunStarts
<1>14. RunParts(u, n + 1, r, parts)
  <2> SUFFICES ASSUME NEW k \in 1..n + 1
               PROVE /\ r[k] + Len(parts[k]) - 1 <= Len(u)
                     /\ \A j \in 1..Len(parts[k]) : u[r[k] + j - 1] = parts[k][j]
    BY DEF RunParts
  <2>1. CASE k = n + 1
    <3>1. parts[k] = p /\ r[k] = L + 2
      BY <2>1, <1>5 DEF p
    <3>2. ASSUME NEW j \in 1..Len(p) PROVE u[L + 2 + j - 1] = p[j]
      <4>1. L + 2 + j - 1 = L + 1 + j
        BY <1>1, <1>3
      <4> QED BY <4>1, <1>4
    <3> QED BY <3>1, <3>2, <1>1, <1>3, <1>4
  <2>2. CASE k \in 1..n
    <3>1. r[k] = s[k] /\ s[k] + Len(parts[k]) - 1 <= L /\ s[k] \in Nat \ {0} /\ Len(parts[k]) \in 1..4
      BY <2>2, <1>2, <1>5, <1>6, <1>7
    <3>2. ASSUME NEW j \in 1..Len(parts[k]) PROVE u[s[k] + j - 1] = parts[k][j]
      <4>1. s[k] + j - 1 \in 1..L
        BY <3>1, <1>3
      <4> QED BY <4>1, <2>2, <1>4, <1>7
    <3> QED BY <3>1, <3>2, <1>1, <1>3, <1>4
  <2> QED BY <2>1, <2>2, <1>10
<1>15. RunSeparated(u, n + 1, r, parts, sep)
  <2>1. ASSUME NEW k \in 1..n + 1, r[k] + Len(parts[k]) <= Len(u) PROVE u[r[k] + Len(parts[k])] = sep
    <3>1. k # n + 1
      <4> SUFFICES ASSUME k = n + 1 PROVE FALSE
        OBVIOUS
      <4>1. parts[k] = p /\ r[k] = L + 2
        BY <1>5 DEF p
      <4>2. L + 2 + Len(p) <= L + 1 + Len(p) /\ Len(p) \in Nat
        BY <4>1, <2>1, <1>1, <1>4
      <4> QED BY <4>2, <1>3
    <3>2. k \in 1..n /\ r[k] = s[k]
      BY <3>1, <1>5, <1>10
    <3>3. s[k] \in Nat \ {0} /\ Len(parts[k]) \in 1..4 /\ s[k] + Len(parts[k]) - 1 <= L
      BY <3>2, <1>2, <1>6, <1>7
    <3>4. CASE s[k] + Len(parts[k]) = L + 1
      BY <3>2, <3>4, <1>4
    <3>5. CASE s[k] + Len(parts[k]) <= L
      <4>1. s[k] + Len(parts[k]) \in 1..L
        BY <3>3, <3>5, <1>3
      <4> QED BY <4>1, <3>2, <3>5, <1>4, <1>8
    <3> QED BY <3>3, <3>4, <3>5, <1>3
  <2>2. ASSUME NEW k \in 2..n + 1 PROVE r[k] - 1 \in 1..Len(u) /\ u[r[k] - 1] = sep
    <3>1. CASE k = n + 1
      <4>1. r[k] - 1 = L + 1
        BY <3>1, <1>3, <1>5
      <4> QED BY <4>1, <1>1, <1>3, <1>4
    <3>2. CASE k \in 2..n
      <4>1. r[k] = s[k] /\ s[k] - 1 \in 1..L /\ t[s[k] - 1] = sep
        BY <3>2, <1>5, <1>8
      <4> QED BY <4>1, <1>1, <1>3, <1>4
    <3> QED BY <3>1, <3>2
  <2>3. ASSUME NEW i \in 1..Len(u), u[i] = sep PROVE \E k \in 2..n + 1 : i + 1 = r[k]
    <3>1. CASE i \in 1..L
      <4>1. PICK k \in 2..n : i + 1 = s[k]
        BY <2>3, <3>1, <1>4, <1>8
      <4>2. k \in 2..n + 1 /\ r[k] = s[k]
        BY <1>5
      <4> QED BY <4>1, <4>2
    <3>2. CASE i = L + 1
      <4>1. n + 1 \in 2..n + 1 /\ i + 1 = r[n + 1]
        BY <3>2, <1>3, <1>5
      <4> QED BY <4>1
    <3>3. CASE ~(i \in 1..L) /\ i # L + 1
      BY <2>3, <3>3, <1>1, <1>12
    <3> QED BY <3>1, <3>2, <3>3
  <2> QED BY <2>1, <2>2, <2>3 DEF RunSeparated
<1>16. RunChars(u, n + 1, parts, sep)
  <2>1. ASSUME NEW i \in 1..Len(u)
        PROVE u[i] = sep \/ \E k \in 1..n + 1 : \E j \in 1..Len(parts[k]) : u[i] = parts[k][j]
    <3>1. CASE i \in 1..L
      <4>1. u[i] = t[i]
        BY <3>1, <1>4
      <4>2. t[i] = sep \/ \E k \in 1..n : \E j \in 1..Len(parts[k]) : t[i] = parts[k][j]
        BY <3>1, <1>9
      <4>3. \A k \in 1..n : k \in 1..n + 1
        OBVIOUS
      <4> QED BY <4>1, <4>2, <4>3
    <3>2. CASE i = L + 1
      BY <3>2, <1>4
    <3>3. CASE ~(i \in 1..L) /\ i # L + 1
      <4>1. i - L - 1 \in 1..Len(p) /\ u[i] = p[i - L - 1]
        BY <3>3, <1>12
      <4> QED BY <4>1, <1>10 DEF p
    <3> QED BY <3>1, <3>2, <3>3
  <2>2. u[Len(u)] = p[Len(p)]
    <3>0. Len(p) \in Nat /\ 1 <= Len(p)
      BY <1>1
    <3>1. Len(p) \in 1..Len(p) /\ Len(u) = L + 1 + Len(p)
      BY <3>0, <1>4
    <3> QED BY <3>1, <1>4
  <2> QED BY <2>1, <2>2 DEF RunChars, p
<1> QED BY <1>13, <1>14, <1>15, <1>16 DEF IsRun, p, u, r, L

(* The parts that Joined puts together are found in its text, one after    *)
(* each separator.                                                         *)
LEMMA JoinedRun ==
  ASSUME NEW base \in Bases, NEW sep \in Separators, NEW parts \in Seq(Numerals(base, 4))
  PROVE /\ Joined(parts, sep) \in Seq(Char)
        /\ \E s : IsRun(Joined(parts, sep), Len(parts), s, parts, sep)
<1> USE DEF Bases, Widths, Separators
<1> DEFINE N == Len(parts)
           F == CHOOSE g : g = [n \in 0..N |->
                  IF n = 0 THEN <<>>
                  ELSE IF n = 1 THEN parts[1] ELSE g[n - 1] \o <<sep>> \o parts[n]]
           h == [n \in 1..N |-> [v \in Seq(Char) |->
                  IF n = 1 THEN parts[1] ELSE Inserted(v, sep, parts[n])]]
<1>1. Joined(parts, sep) = F[N]
  BY Zenon DEF Joined
<1>2. N \in Nat /\ \A n \in 1..N : parts[n] \in Numerals(base, 4) /\ parts[n] \in Seq(Char)
  BY NumeralChars
<1>3. sep \in Char
  BY DEF Dot, Colon, Char
<1>4. \A v \in Seq(Char), n \in 1..N : Inserted(v, sep, parts[n]) \in Seq(Char)
  BY <1>2, <1>3, InsertedAt DEF IsInsertion
<1> HIDE DEF N
<1>5. h \in [1..N -> [Seq(Char) -> Seq(Char)]]
  BY <1>2, <1>4
<1> HIDE DEF h
<1>6. PICK f : Iterates(f, N, Seq(Char), <<>>, h)
  <2>1. <<>> \in Seq(Char)
    OBVIOUS
  <2> QED BY <1>2, <1>5, <2>1, Iteration
<1>7. f = [n \in 0..N |->
             IF n = 0 THEN <<>>
             ELSE IF n = 1 THEN parts[1] ELSE f[n - 1] \o <<sep>> \o parts[n]]
  <2>1. f \in [0..N -> Seq(Char)] /\ f[0] = <<>> /\ \A n \in 1..N : f[n] = h[n][f[n - 1]]
    BY <1>6 DEF Iterates
  <2>2. ASSUME NEW n \in 1..N
        PROVE f[n] = IF n = 1 THEN parts[1] ELSE f[n - 1] \o <<sep>> \o parts[n]
    <3>1. f[n - 1] \in Seq(Char) /\ f[n] = h[n][f[n - 1]]
      BY <2>1, <1>2
    <3> QED BY <3>1 DEF h, Inserted
  <2> DEFINE body(n) == IF n = 0 THEN <<>>
                        ELSE IF n = 1 THEN parts[1] ELSE f[n - 1] \o <<sep>> \o parts[n]
  <2>3. ASSUME NEW n \in 0..N PROVE f[n] = body(n)
    <3>1. CASE n = 0
      BY <3>1, <2>1
    <3>2. CASE n \in 1..N
      BY <3>2, <2>2
    <3> QED BY <3>1, <3>2, <1>2
  <2> HIDE DEF body
  <2>4. f = [n \in 0..N |-> body(n)]
    BY <2>1, <2>3
  <2> QED BY <2>4, Zenon DEF body
<1>8. F = [n \in 0..N |->
             IF n = 0 THEN <<>>
             ELSE IF n = 1 THEN parts[1] ELSE F[n - 1] \o <<sep>> \o parts[n]]
  BY <1>7, Zenon
<1> HIDE DEF F
<1> DEFINE Run(n) == F[n] \in Seq(Char) /\ \E s : IsRun(F[n], n, s, parts, sep)
           A == {n \in Nat : n <= N => Run(n)}
<1>9. Run(0)
  <2>1. F[0] = <<>>
    BY <1>2, <1>8
  <2>2. IsRun(<<>>, 0, <<>>, parts, sep)
    BY DEF IsRun, RunStarts, RunParts, RunSeparated, RunChars
  <2> QED BY <2>1, <2>2
<1>10. ASSUME NEW n \in Nat, n + 1 <= N, Run(n) PROVE Run(n + 1)
  <2> DEFINE m == n + 1
  <2>1. m \in 1..N /\ parts[m] \in Numerals(base, 4) /\ parts[m] \in Seq(Char)
    BY <1>2, <1>10
  <2>2. CASE n = 0
    <3>1. m = 1 /\ F[1] = parts[1]
      BY <2>1, <2>2, <1>8
    <3>2. IsRun(parts[1], 1, [k \in 1..1 |-> 1], parts, sep)
      BY <2>1, <3>1, RunOfOne
    <3> QED BY <2>1, <3>1, <3>2
  <2>3. CASE n # 0
    <3>1. m - 1 = n /\ m # 1 /\ m # 0 /\ m \in 0..N /\ n \in Nat \ {0}
      BY <2>1, <2>3, <1>2
    <3> HIDE DEF m
    <3>2. F[m] = F[n] \o <<sep>> \o parts[m]
      BY <3>1, <1>8
    <3>3. F[m] = Inserted(F[n], sep, parts[m])
      BY <3>2 DEF Inserted
    <3>4. PICK s : IsRun(F[n], n, s, parts, sep)
      BY <1>10
    <3>5. \A k \in 1..n + 1 : parts[k] \in Numerals(base, 4)
      BY <1>2, <1>10
    <3>6. F[n] \in Seq(Char)
      BY <1>10
    <3> DEFINE r == [k \in 1..n + 1 |-> IF k = n + 1 THEN Len(F[n]) + 2 ELSE s[k]]
    <3>7. IsRun(Inserted(F[n], sep, parts[n + 1]), n + 1, r, parts, sep)
      BY <3>1, <3>4, <3>5, <3>6, RunExtended
    <3>8. F[m] \in Seq(Char)
      BY <2>1, <3>3, <3>6, <1>4
    <3> QED BY <3>3, <3>7, <3>8 DEF m
  <2> QED BY <2>2, <2>3
<1>11. N \in A
  <2>1. 0 \in A
    BY <1>9
  <2>2. \A n \in Nat : n \in A => n + 1 \in A
    <3> TAKE n \in Nat
    <3> HAVE n \in A
    <3> SUFFICES ASSUME n + 1 <= N PROVE Run(n + 1)
      OBVIOUS
    <3>1. Run(n)
      BY <1>2
    <3> QED BY <3>1, <1>10
  <2> HIDE DEF A
  <2> QED BY <2>1, <2>2, <1>2, Induct
<1>12. Run(N)
  BY <1>2, <1>11
<1> QED BY <1>1, <1>12 DEF N

(* u is t, or t and a doubled separator and more.                           *)
StartsWith(u, t, sep) ==
  /\ Len(t) <= Len(u)
  /\ \A i \in 1..Len(t) : u[i] = t[i]
  /\ \/ Len(u) = Len(t)
     \/ Len(t) + 2 <= Len(u) /\ u[Len(t) + 1] = sep /\ u[Len(t) + 2] = sep

(* The scanning loop gets the first n parts from u.                         *)
Scans(u, sep, base, max, n, parts) ==
  /\ Scanned(u, sep, base, max) = 1..n
  /\ \A k \in 1..n, values \in Widths :
       sscanf(u, Start(u, sep, k), base, values) = Numeral(parts[k], base) % values

(* The scanning loops read the parts of a run, in a text that ends after   *)
(* it or goes on with a doubled separator.                                 *)
LEMMA RunScanned ==
  ASSUME NEW base \in Bases, NEW sep \in Separators, NEW max \in Nat, NEW n \in 0..max, NEW parts,
         \A k \in 1..n : parts[k] \in Numerals(base, 4),
         NEW t \in Seq(Char), NEW s, IsRun(t, n, s, parts, sep),
         NEW u \in Seq(Char), StartsWith(u, t, sep)
  PROVE Scans(u, sep, base, max, n, parts)
<1> DEFINE L == Len(t)
<1>1. /\ s \in [1..n -> Nat \ {0}] /\ (n # 0 => s[1] = 1) /\ (n = 0 <=> L = 0)
      /\ \A j, k \in 1..n : j < k => s[j] + Len(parts[j]) < s[k]
  BY DEF IsRun, RunStarts
<1>2. \A k \in 1..n : /\ s[k] + Len(parts[k]) - 1 <= L
                      /\ \A j \in 1..Len(parts[k]) : t[s[k] + j - 1] = parts[k][j]
  BY DEF IsRun, RunParts
<1>3. /\ \A k \in 1..n : s[k] + Len(parts[k]) <= L => t[s[k] + Len(parts[k])] = sep
      /\ \A k \in 2..n : s[k] - 1 \in 1..L /\ t[s[k] - 1] = sep
      /\ \A i \in 1..L : t[i] = sep => \E k \in 2..n : i + 1 = s[k]
  BY DEF IsRun, RunSeparated
<1>4. /\ L \in Nat /\ Len(u) \in Nat /\ L <= Len(u)
      /\ \A i \in 1..L : u[i] = t[i]
      /\ \/ Len(u) = L
         \/ L + 2 <= Len(u) /\ u[L + 1] = sep /\ u[L + 2] = sep
  BY DEF StartsWith
<1>5. \A k \in 1..n : Len(parts[k]) \in 1..4 /\ s[k] \in 1..L
  <2> TAKE k \in 1..n
  <2>1. Len(parts[k]) \in 1..4
    BY NumeralChars
  <2>2. s[k] \in Nat \ {0} /\ s[k] + Len(parts[k]) - 1 <= L /\ L \in Nat
    BY <1>1, <1>2, <1>4
  <2> HIDE DEF L
  <2> DEFINE l == Len(parts[k])
  <2>3. l \in 1..4 /\ s[k] + l - 1 <= L
    BY <2>1, <2>2
  <2> HIDE DEF l
  <2>4. s[k] \in 1..L
    BY <2>2, <2>3
  <2> QED BY <2>1, <2>4
<1>6. sep \in Nat /\ base \in Nat /\ sep >= base
  BY DEF Dot, Colon, Bases, Separators
<1> HIDE DEF L
<1>7. \A i : i \in Starts(u, sep) <=> i = 1 \/ \E j \in 1..Len(u) : u[j] = sep /\ i = j + 1
  BY Zenon DEF Starts
<1>8. ASSUME NEW k \in 1..n PROVE s[k] \in Starts(u, sep)
  <2>1. CASE k = 1
    BY <2>1, <1>1, <1>7
  <2>2. CASE k \in 2..n
    <3>1. s[k] - 1 \in 1..L /\ u[s[k] - 1] = sep
      BY <2>2, <1>3, <1>4
    <3> DEFINE j == s[k] - 1
    <3>2. j \in 1..Len(u) /\ s[k] = j + 1 /\ u[j] = sep
      BY <3>1, <1>4, <1>5
    <3> HIDE DEF j
    <3> QED BY <3>2, <1>7
  <2> QED BY <2>1, <2>2
<1>9. s \in [1..n -> Starts(u, sep)]
  BY <1>1, <1>8
<1>10. ASSUME NEW k \in 1..n PROVE IsNumber(u, s[k], parts[k], base)
  <2> DEFINE d == parts[k]
  <2>1. s[k] \in 1..L /\ Len(d) \in 1..4 /\ s[k] + Len(d) - 1 <= L
    BY <1>2, <1>5
  <2>2. ASSUME NEW j \in 1..Len(d) PROVE u[s[k] + j - 1] = d[j]
    <3> DEFINE i == s[k] + j - 1
    <3>1. t[i] = d[j]
      BY <2>2, <1>2, Zenon
    <3>2. i \in 1..L
      BY <2>1, <1>4
    <3> HIDE DEF i
    <3>3. u[i] = d[j]
      BY <3>1, <3>2, <1>4
    <3> QED BY <3>3 DEF i
  <2>3. ASSUME s[k] + Len(d) <= Len(u) PROVE u[s[k] + Len(d)] = sep
    <3> DEFINE i == s[k] + Len(d)
    <3>1. i <= L => t[i] = sep
      BY <1>3, Zenon
    <3>2. i \in 1..L + 1 /\ i <= Len(u)
      BY <2>1, <2>3, <1>4
    <3> HIDE DEF i
    <3>3. i <= L => u[i] = t[i]
      <4>1. i <= L => i \in 1..L
        BY <3>2, <1>4
      <4> QED BY <4>1, <1>4, Zenon
    <3>4. i = L + 1 => u[i] = sep
      BY <3>2, <1>4
    <3>5. u[i] = sep
      BY <3>1, <3>2, <3>3, <3>4, <1>4
    <3> QED BY <3>5 DEF i
  <2> HIDE DEF d
  <2>5. s[k] \in Nat \ {0} /\ s[k] + Len(d) - 1 <= Len(u)
    BY <2>1, <1>4
  <2>6. s[k] + Len(d) <= Len(u) => u[s[k] + Len(d)] >= base
    <3> SUFFICES ASSUME s[k] + Len(d) <= Len(u) PROVE u[s[k] + Len(d)] >= base
      OBVIOUS
    <3>1. u[s[k] + Len(d)] = sep
      BY <2>3
    <3> QED BY <3>1, <1>6, Zenon
  <2>4. IsNumber(u, s[k], d, base)
    BY <2>2, <2>5, <2>6, Zenon DEF IsNumber
  <2> QED BY <2>4 DEF d
<1>11. ASSUME NEW i \in Starts(u, sep)
       PROVE (\E k \in 1..n : i = s[k]) \/ (i >= L + 2 /\ Len(u) # L) \/ (i = 1 /\ n = 0)
  <2>1. CASE i = 1
    BY <2>1, <1>1
  <2>2. ASSUME NEW j \in 1..Len(u), u[j] = sep, i = j + 1
        PROVE (\E k \in 1..n : i = s[k]) \/ (i >= L + 2 /\ Len(u) # L)
    <3>1. CASE j \in 1..L
      BY <3>1, <2>2, <1>3, <1>4
    <3>2. CASE j >= L + 1
      BY <3>2, <2>2, <1>4
    <3> QED BY <3>1, <3>2, <1>4
  <2> QED BY <2>1, <2>2, <1>7
<1>12. \A i \in Starts(u, sep) : (\E k \in 1..n : i = s[k]) \/ (\A k \in 1..n : s[k] < i)
  <2> SUFFICES ASSUME NEW i \in Starts(u, sep), ~\E k \in 1..n : i = s[k], NEW k \in 1..n
               PROVE s[k] < i
    OBVIOUS
  <2>1. i >= L + 2 /\ i \in Nat
    BY <1>7, <1>11
  <2> QED BY <2>1, <1>4, <1>5
<1>13. \/ \A i \in Starts(u, sep) : \E k \in 1..n : i = s[k]
       \/ \E e \in Starts(u, sep) :
            /\ \A k \in 1..n : s[k] < e
            /\ \A i \in Starts(u, sep) : (\A k \in 1..n : s[k] < i) => e <= i
            /\ ~(e <= Len(u) /\ u[e] < base)
  <2>0. \A i \in Starts(u, sep) : i \in Nat /\ i >= 1
    BY <1>7
  <2>1. CASE n = 0
    <3>1. 1 \in Starts(u, sep)
      BY <1>7
    <3>2. L = 0
      BY <2>1, <1>1
    <3>3. ~(1 <= Len(u) /\ u[1] < base)
      BY <3>2, <1>4, <1>6
    <3> QED BY <2>0, <2>1, <3>1, <3>3
  <2>2. CASE n # 0 /\ Len(u) = L
    BY <2>2, <1>11
  <2>3. CASE n # 0 /\ Len(u) # L
    <3>1. L + 1 \in 1..Len(u) /\ u[L + 1] = sep /\ u[L + 2] = sep
      BY <2>3, <1>4
    <3>2. L + 2 \in Starts(u, sep)
      <4>1. L + 2 = (L + 1) + 1
        BY <1>4
      <4> QED BY <4>1, <3>1, <1>7
    <3>3. \A k \in 1..n : s[k] < L + 2
      BY <1>4, <1>5
    <3>4. ASSUME NEW i \in Starts(u, sep), \A k \in 1..n : s[k] < i PROVE L + 2 <= i
      <4>1. ~\E k \in 1..n : i = s[k]
        BY <3>4, <1>5
      <4> QED BY <4>1, <2>0, <2>3, <1>4, <1>11
    <3>5. ~(u[L + 2] < base)
      BY <3>1, <1>6
    <3> QED BY <3>2, <3>3, <3>4, <3>5
  <2> QED BY <2>1, <2>2, <2>3
<1>14. \A j \in 1..n, k \in 1..n : j < k => s[j] < s[k]
  BY <1>1, <1>5
<1>15. Scanned(u, sep, base, max) = 1..n /\ StartsAre(u, sep, n, s)
  <2>1. Numbered(u, sep, base, n, s, parts)
    BY <1>9, <1>10, <1>12, <1>13, <1>14 DEF Numbered
  <2> QED BY <2>1, ScannedRun
<1>16. ASSUME NEW k \in 1..n, NEW values \in Widths
       PROVE sscanf(u, s[k], base, values) = Numeral(parts[k], base) % values
  <2>1. parts[k] \in Numerals(base, 4) /\ IsNumber(u, s[k], parts[k], base)
    BY <1>10
  <2> QED BY <2>1, NumeralScanned
<1> QED BY <1>15, <1>16 DEF StartsAre, Scans

(* Digits and lone separators, and not one at the end.                      *)
Separated(t, base, sep) ==
  /\ \A i \in 1..Len(t) : t[i] = sep \/ t[i] \in 0..base - 1
  /\ Len(t) # 0 => t[Len(t)] # sep
  /\ \A i \in 1..Len(t) - 1 : ~(t[i] = sep /\ t[i + 1] = sep)

(* A run has digits and single separators only.                            *)
LEMMA RunText ==
  ASSUME NEW base \in Bases, NEW sep \in Separators, NEW n \in Nat, NEW parts,
         \A k \in 1..n : parts[k] \in Numerals(base, 4),
         NEW t \in Seq(Char), NEW s, IsRun(t, n, s, parts, sep)
  PROVE Separated(t, base, sep) /\ (n >= 2 => \E i \in 1..Len(t) : t[i] = sep)
<1>1. \A k \in 1..n : \A j \in 1..Len(parts[k]) : parts[k][j] \in 0..base - 1 /\ parts[k][j] # sep
  BY NumeralChars DEF Separators
<1>2. \A k \in 1..n : 1 \in 1..Len(parts[k]) /\ Len(parts[k]) \in 1..Len(parts[k])
  BY NumeralChars
<1>3. \A i \in 1..Len(t) : t[i] = sep \/ t[i] \in 0..base - 1
  BY <1>1 DEF IsRun, RunChars
<1>4. Len(t) # 0 => t[Len(t)] # sep
  <2> SUFFICES ASSUME Len(t) # 0 PROVE t[Len(t)] # sep
    OBVIOUS
  <2>1. n \in 1..n /\ t[Len(t)] = parts[n][Len(parts[n])]
    BY DEF IsRun, RunStarts, RunChars
  <2> QED BY <2>1, <1>1, <1>2
<1>5. ASSUME NEW i \in 1..Len(t) - 1, t[i] = sep, t[i + 1] = sep PROVE FALSE
  <2>1. PICK k \in 2..n : i + 1 = s[k]
    BY <1>5 DEF IsRun, RunSeparated
  <2>2. k \in 1..n /\ s[k] \in Nat
    BY DEF IsRun, RunStarts
  <2>3. 1 \in 1..Len(parts[k]) /\ s[k] + 1 - 1 = s[k]
    BY <1>2, <2>2
  <2>4. t[s[k] + 1 - 1] = parts[k][1]
    BY <2>2, <2>3 DEF IsRun, RunParts
  <2> QED BY <1>1, <1>5, <2>1, <2>2, <2>3, <2>4
<1>6. n >= 2 => \E i \in 1..Len(t) : t[i] = sep
  <2> SUFFICES ASSUME n >= 2 PROVE \E i \in 1..Len(t) : t[i] = sep
    OBVIOUS
  <2>1. 2 \in 2..n
    OBVIOUS
  <2>2. s[2] - 1 \in 1..Len(t) /\ t[s[2] - 1] = sep
    BY <2>1 DEF IsRun, RunSeparated
  <2> QED BY <2>2
<1> QED BY <1>3, <1>4, <1>5, <1>6 DEF Separated

(* The scanning loops read back what was joined.                           *)
LEMMA JoinedScanned ==
  ASSUME NEW base \in Bases, NEW sep \in Separators, NEW max \in Nat,
         NEW parts \in Seq(Numerals(base, 4)), Len(parts) <= max
  PROVE Scans(Joined(parts, sep), sep, base, max, Len(parts), parts)
<1> DEFINE t == Joined(parts, sep)
           n == Len(parts)
<1>1. t \in Seq(Char) /\ \E s : IsRun(t, n, s, parts, sep)
  BY JoinedRun
<1>2. PICK s : IsRun(t, n, s, parts, sep)
  BY <1>1
<1>3. StartsWith(t, t, sep)
  BY <1>1 DEF StartsWith
<1>4. n \in 0..max /\ \A k \in 1..n : parts[k] \in Numerals(base, 4)
  OBVIOUS
<1> HIDE DEF t, n
<1>5. Scans(t, sep, base, max, n, parts)
  BY <1>1, <1>2, <1>3, <1>4, RunScanned
<1> QED BY <1>5 DEF t, n

-----------------------------------------------------------------------------
(* What the parsers make of the texts of addresses.                        *)

(* A number below 256 is stored in a byte as it is.                        *)
LEMMA Fits256 == ASSUME NEW v \in Nat, v < 256 PROVE v % 256 = v
OBVIOUS

(* A number below 65536 is stored in two bytes as it is.                   *)
LEMMA Fits65536 == ASSUME NEW v \in Nat, v < 65536 PROVE v % 65536 = v
OBVIOUS

(* Four numbers that are bytes.                                            *)
IsQuad(parts) == Len(parts) = 4 /\ \A k \in 1..4 : Numeral(parts[k], 10) < 256

(* A sequence over a set is one over any larger set.                       *)
LEMMA Elsewhere ==
  ASSUME NEW P, NEW Q, NEW s \in Seq(P), P \subseteq Q
  PROVE s \in Seq(Q)
OBVIOUS

(* The parts of a dotted quad are numerals that fit in a byte.             *)
LEMMA QuadParts ==
  ASSUME NEW parts \in Seq(Numerals(10, 3)), Len(parts) = 4, IsQuad(parts)
  PROVE /\ parts \in Seq(Numerals(10, 4))
        /\ \A k \in 1..4 : parts[k] \in Numerals(10, 4)
        /\ \A k \in 1..4 : Numeral(parts[k], 10) \in Nat /\ Numeral(parts[k], 10) % 256 = Numeral(parts[k], 10)
<1>1. \A k \in 1..4 : parts[k] \in Numerals(10, 3)
  OBVIOUS
<1>2. \A k \in 1..4 : parts[k] \in Numerals(10, 4) /\ Numeral(parts[k], 10) \in Nat
  BY <1>1, DecimalNumeralType
<1>3. \A k \in 1..4 : Numeral(parts[k], 10) % 256 = Numeral(parts[k], 10)
  BY <1>2, Fits256 DEF IsQuad
<1>4. Numerals(10, 3) \subseteq Numerals(10, 4)
  BY DecimalNumeralType
<1>5. parts \in Seq(Numerals(10, 4))
  BY <1>4, Elsewhere
<1> QED BY <1>2, <1>3, <1>5

(* ipv4_from_address reads the four bytes of a dotted quad, and leaves the *)
(* others alone.                                                           *)
LEMMA IPv4Read ==
  ASSUME NEW parts \in Seq(Numerals(10, 3)), Len(parts) = 4, IsQuad(parts),
         NEW bytes \in [1..16 -> 0..255]
  PROVE /\ Joined(parts, Dot) \in Seq(Char) /\ ipv4_is_valid(Joined(parts, Dot))
        /\ ipv4_from_address(bytes, Joined(parts, Dot)) =
             [k \in 1..16 |-> IF k <= 4 THEN Numeral(parts[k], 10) ELSE bytes[k]]
<1> DEFINE t == Joined(parts, Dot)
<1>1. 10 \in Bases /\ Dot \in Separators /\ 256 \in Widths
  BY DEF Bases, Separators, Widths
<1>2. /\ parts \in Seq(Numerals(10, 4)) /\ \A k \in 1..4 : parts[k] \in Numerals(10, 4)
      /\ \A k \in 1..4 : Numeral(parts[k], 10) \in Nat /\ Numeral(parts[k], 10) % 256 = Numeral(parts[k], 10)
  BY QuadParts
<1>3. t \in Seq(Char) /\ \E s : IsRun(t, Len(parts), s, parts, Dot)
  BY <1>1, <1>2, JoinedRun
<1>4. Scans(t, Dot, 10, 4, Len(parts), parts)
  <2>1. 4 \in Nat /\ Len(parts) <= 4
    OBVIOUS
  <2> QED BY <1>1, <1>2, <2>1, JoinedScanned
<1> HIDE DEF t
<1>5. ipv4_is_valid(t)
  <2>1. PICK s : IsRun(t, Len(parts), s, parts, Dot)
    BY <1>3
  <2>2. Separated(t, 10, Dot)
    <3>1. Len(parts) \in Nat /\ \A k \in 1..Len(parts) : parts[k] \in Numerals(10, 4)
      BY <1>2
    <3> QED BY <1>1, <1>3, <2>1, <3>1, RunText
  <2> QED BY <1>3, <2>2 DEF ipv4_is_valid, Separated
<1>6. ipv4_from_address(bytes, t) =
        [k \in 1..16 |-> IF k <= 4 THEN Numeral(parts[k], 10) ELSE bytes[k]]
  <2>1. Scanned(t, Dot, 10, NSAPI_IPv4_BYTES) = 1..4
    BY <1>4 DEF Scans, NSAPI_IPv4_BYTES
  <2>2. ASSUME NEW k \in 1..4 PROVE sscanf(t, Start(t, Dot, k), 10, 256) = Numeral(parts[k], 10)
    <3>1. sscanf(t, Start(t, Dot, k), 10, 256) = Numeral(parts[k], 10) % 256
      BY <1>1, <1>4 DEF Scans
    <3> QED BY <3>1, <1>2
  <2>3. ipv4_from_address(bytes, t) =
          [k \in 1..16 |-> IF k \in 1..4 THEN sscanf(t, Start(t, Dot, k), 10, 256) ELSE bytes[k]]
    BY <2>1 DEF ipv4_from_address
  <2> QED BY <2>2, <2>3
<1> QED BY <1>3, <1>5, <1>6 DEF t

(* The numbers of the parts, and the shorts where there are no more parts. *)
Groups(parts, shorts) == [k \in 1..8 |-> IF k <= Len(parts) THEN Numeral(parts[k], 16) ELSE shorts[k]]

(* ipv6_scan_chunk counts and stores the groups that the scanning loop     *)
(* finds, and leaves the other shorts alone.                               *)
LEMMA ChunkScanned ==
  ASSUME NEW parts \in Seq(Numerals(16, 4)), Len(parts) <= 8, NEW u, NEW shorts,
         Scans(u, Colon, 16, 8, Len(parts), parts)
  PROVE /\ ipv6_scan_chunk(shorts, u).count = Len(parts)
        /\ ipv6_scan_chunk(shorts, u).shorts = Groups(parts, shorts)
<1> DEFINE n == Len(parts)
           Q == Numerals(16, 4)
<1>1. n \in Nat /\ n <= 8 /\ \A k \in 1..n : parts[k] \in Q
  <2> HIDE DEF Q
  <2>1. parts \in Seq(Q)
    BY DEF Q
  <2> QED BY <2>1
<1> HIDE DEF n
<1>2. Scans(u, Colon, 16, 8, n, parts)
  BY DEF n
<1>3. Scanned(u, Colon, 16, 8) = 1..n
  BY <1>2 DEF Scans
<1>4. Cardinality(1..n) = n
  <2>1. 1 \in Int /\ n \in Int
    BY <1>1
  <2>2. Cardinality(1..n) = IF 1 > n THEN 0 ELSE n - 1 + 1
    BY <2>1, FS_Interval
  <2> QED BY <1>1, <2>2
<1>5. ASSUME NEW k \in 1..n PROVE sscanf(u, Start(u, Colon, k), 16, 65536) = Numeral(parts[k], 16)
  <2>1. 65536 \in Widths
    BY DEF Widths
  <2>2. sscanf(u, Start(u, Colon, k), 16, 65536) = Numeral(parts[k], 16) % 65536
    BY <1>2, <2>1 DEF Scans
  <2>3. Numeral(parts[k], 16) \in Nat /\ Numeral(parts[k], 16) < 65536
    BY <1>1, HexNumeralType
  <2> QED BY <2>2, <2>3, Fits65536
<1>6. [k \in 1..8 |-> IF k \in 1..n THEN sscanf(u, Start(u, Colon, k), 16, 65536) ELSE shorts[k]]
        = [k \in 1..8 |-> IF k <= n THEN Numeral(parts[k], 16) ELSE shorts[k]]
  BY <1>1, <1>5
<1> DEFINE scanned == Scanned(u, Colon, 16, 8)
           got(k) == sscanf(u, Start(u, Colon, k), 16, 65536)
           c == ipv6_scan_chunk(shorts, u)
<1>7. c = [count |-> Cardinality(scanned),
           shorts |-> [k \in 1..8 |-> IF k \in scanned THEN got(k) ELSE shorts[k]]]
  BY DEF ipv6_scan_chunk
<1> HIDE DEF scanned, got, c
<1>8. c.count = Cardinality(scanned) /\ c.shorts = [k \in 1..8 |-> IF k \in scanned THEN got(k) ELSE shorts[k]]
  BY <1>7
<1>9. Groups(parts, shorts) = [k \in 1..8 |-> IF k <= n THEN Numeral(parts[k], 16) ELSE shorts[k]]
  BY Zenon DEF Groups, n
<1> QED BY <1>3, <1>4, <1>6, <1>8, <1>9 DEF n, scanned, got, c

(* a and b with a :: between.                                              *)
Doubled(a, b) == a \o <<Colon, Colon>> \o b

(* u is that text, character by character.                                 *)
IsDoubled(u, a, b) ==
  /\ u \in Seq(Char) /\ Len(u) = Len(a) + 2 + Len(b)
  /\ \A i \in 1..Len(a) : u[i] = a[i]
  /\ u[Len(a) + 1] = Colon /\ u[Len(a) + 2] = Colon
  /\ \A i \in 1..Len(b) : u[Len(a) + 2 + i] = b[i]
  /\ SubSeq(u, Len(a) + 3, Len(u)) = b

(* The characters of two texts with a :: between them.                     *)
LEMMA DoubledAt ==
  ASSUME NEW a \in Seq(Char), NEW b \in Seq(Char)
  PROVE IsDoubled(Doubled(a, b), a, b)
<1> DEFINE c == a \o <<Colon, Colon>>
           u == c \o b
           n == Len(a)
           m == Len(b)
<1>1. Colon \in Char
  BY DEF Colon, Char
<1>2. n \in Nat /\ m \in Nat
  OBVIOUS
<1>3. c \in Seq(Char) /\ Len(c) = n + 2 /\ (\A i \in 1..n : c[i] = a[i]) /\ c[n + 1] = Colon /\ c[n + 2] = Colon
  BY <1>1
<1> HIDE DEF c
<1>4. /\ u \in Seq(Char) /\ Len(u) = n + 2 + m
      /\ \A i \in 1..n + 2 : u[i] = c[i]
      /\ \A i \in 1..m : u[n + 2 + i] = b[i]
  <2>1. u \in Seq(Char) /\ Len(u) = n + 2 + m
    BY <1>3
  <2>2. \A i \in 1..Len(c) : u[i] = c[i]
    BY <1>3
  <2>3. \A i \in 1..m : u[Len(c) + i] = b[i]
    BY <1>3
  <2> HIDE DEF u
  <2> QED BY <1>3, <2>1, <2>2, <2>3
<1>5. SubSeq(u, n + 3, Len(u)) = b
  <2> DEFINE v == SubSeq(u, n + 3, Len(u))
  <2> HIDE DEF u
  <2>0. \A i \in n + 3..Len(u) : u[i] \in Char
    BY <1>2, <1>4
  <2>1. v \in Seq(Char) /\ Len(v) = m
    BY <1>2, <1>4
  <2>3. \A i \in 1..m : v[i] = u[n + 2 + i]
    <3>1. n + 3 \in Int /\ Len(u) \in Int
      BY <1>2, <1>4
    <3>2. \A i \in 1..Len(u) - (n + 3) + 1 : v[i] = u[(n + 3) + i - 1]
      BY <3>1, <2>0, SubSeqProperties
    <3>3. \A i \in 1..m : i \in 1..Len(u) - (n + 3) + 1 /\ (n + 3) + i - 1 = n + 2 + i
      BY <1>2, <1>4
    <3> HIDE DEF v, m
    <3> QED BY <3>2, <3>3
  <2>2. \A i \in 1..m : v[i] = b[i]
    <3> TAKE i \in 1..m
    <3> QED BY <2>3, <1>4
  <2> HIDE DEF v
  <2>4. v = b
    BY <2>1, <2>2
  <2> QED BY <2>4 DEF v
<1> HIDE DEF u
<1>6. IsDoubled(u, a, b)
  BY <1>2, <1>3, <1>4, <1>5 DEF IsDoubled
<1> QED BY <1>6 DEF u, c, Doubled

(* The scanning loop reads the groups at the start of a text, up to its    *)
(* end or to a ::.                                                         *)
LEMMA StartScanned ==
  ASSUME NEW parts \in Seq(Numerals(16, 4)), Len(parts) <= 8,
         NEW u \in Seq(Char), StartsWith(u, Joined(parts, Colon), Colon)
  PROVE Scans(u, Colon, 16, 8, Len(parts), parts)
<1> DEFINE n == Len(parts)
           t == Joined(parts, Colon)
           Q == Numerals(16, 4)
<1>1. 16 \in Bases /\ Colon \in Separators /\ 8 \in Nat
  BY DEF Bases, Separators
<1>2. n \in 0..8 /\ \A k \in 1..n : parts[k] \in Q
  <2> HIDE DEF Q
  <2>1. parts \in Seq(Q)
    BY DEF Q
  <2>2. n \in Nat /\ n <= 8 /\ \A k \in 1..n : parts[k] \in Q
    BY <2>1
  <2> HIDE DEF n
  <2> QED BY <2>2
<1>3. t \in Seq(Char) /\ \E s : IsRun(t, n, s, parts, Colon)
  BY <1>1, JoinedRun
<1>4. StartsWith(u, t, Colon)
  OBVIOUS
<1> HIDE DEF n, t
<1>5. PICK s : IsRun(t, n, s, parts, Colon)
  BY <1>3
<1>6. Scans(u, Colon, 16, 8, n, parts)
  BY <1>1, <1>2, <1>3, <1>4, <1>5, RunScanned
<1> QED BY <1>6 DEF n

(* Groups joined by colons make a text without a ::, and without a colon   *)
(* at its end.                                                             *)
LEMMA JoinedText ==
  ASSUME NEW parts \in Seq(Numerals(16, 4))
  PROVE /\ Joined(parts, Colon) \in Seq(Char) /\ Separated(Joined(parts, Colon), 16, Colon)
        /\ Len(parts) >= 2 => \E i \in 1..Len(Joined(parts, Colon)) : Joined(parts, Colon)[i] = Colon
<1> DEFINE n == Len(parts)
           t == Joined(parts, Colon)
           Q == Numerals(16, 4)
<1>1. 16 \in Bases /\ Colon \in Separators /\ 8 \in Nat
  BY DEF Bases, Separators
<1>2. n \in Nat /\ \A k \in 1..n : parts[k] \in Q
  <2> HIDE DEF Q
  <2>1. parts \in Seq(Q)
    BY DEF Q
  <2> QED BY <2>1
<1>3. t \in Seq(Char) /\ \E s : IsRun(t, n, s, parts, Colon)
  BY <1>1, JoinedRun
<1> HIDE DEF n, t
<1>4. PICK s : IsRun(t, n, s, parts, Colon)
  BY <1>3
<1>5. Separated(t, 16, Colon) /\ (n >= 2 => \E i \in 1..Len(t) : t[i] = Colon)
  BY <1>1, <1>2, <1>3, <1>4, RunText
<1> QED BY <1>3, <1>5 DEF n, t

(* A text with a colon is not an IPv4 address.                             *)
LEMMA ColonText ==
  ASSUME NEW t, NEW i \in DOMAIN t, t[i] = Colon
  PROVE ~ipv4_is_valid(t)
BY DEF ipv4_is_valid, Colon, Dot

(* ipv6_from_address reads eight groups as they are written.               *)
LEMMA FullRead ==
  ASSUME NEW parts \in Seq(Numerals(16, 4)), Len(parts) = 8
  PROVE /\ Joined(parts, Colon) \in Seq(Char)
        /\ ~ipv4_is_valid(Joined(parts, Colon)) /\ ipv6_is_valid(Joined(parts, Colon))
        /\ ipv6_from_address(Joined(parts, Colon)) = FlippedBytes([k \in 1..8 |-> Numeral(parts[k], 16)])
<1> DEFINE t == Joined(parts, Colon)
           zeroed == [k \in 1..8 |-> 0]
           suffix == [count |-> 0, shorts |-> zeroed]
<1>1. t \in Seq(Char) /\ Separated(t, 16, Colon) /\ \E i \in 1..Len(t) : t[i] = Colon
  BY JoinedText
<1>2. StartsWith(t, t, Colon)
  BY <1>1 DEF StartsWith
<1>a. Len(parts) <= 8
  OBVIOUS
<1>3. Scans(t, Colon, 16, 8, Len(parts), parts)
  BY <1>a, <1>1, <1>2, StartScanned, Zenon
<1> HIDE DEF t
<1>4. ~ipv4_is_valid(t) /\ ipv6_is_valid(t)
  BY <1>1, ColonText DEF Separated, ipv6_is_valid
<1>5. DoubleColons(t) = {}
  <2>1. \A i \in 1..Len(t) - 1 : ~(t[i] = Colon /\ t[i + 1] = Colon)
    BY <1>1, Zenon DEF Separated
  <2> QED BY <2>1, Zenon DEF DoubleColons
<1>6. ipv6_from_address(t) = FlippedBytes(ipv6_scan_chunk(move_suffix(suffix), t).shorts)
  BY <1>5, Zenon DEF ipv6_from_address
<1>7. ipv6_scan_chunk(move_suffix(suffix), t).shorts = Groups(parts, move_suffix(suffix))
  BY <1>a, <1>3, ChunkScanned, Zenon
<1>8. Groups(parts, move_suffix(suffix)) = [k \in 1..8 |-> Numeral(parts[k], 16)]
  BY DEF Groups
<1> QED BY <1>1, <1>4, <1>6, <1>7, <1>8 DEF t

(* strstr finds the :: where the head of the address ends.                 *)
LEMMA DoubleColonAt ==
  ASSUME NEW a \in Seq(Char), NEW b \in Seq(Char), Separated(a, 16, Colon), Separated(b, 16, Colon),
         NEW u, IsDoubled(u, a, b)
  PROVE /\ ~ipv4_is_valid(u) /\ ipv6_is_valid(u) /\ StartsWith(u, a, Colon)
        /\ DoubleColons(u) # {}
        /\ (CHOOSE i \in DoubleColons(u) : \A j \in DoubleColons(u) : i <= j) = Len(a) + 1
<1> DEFINE n == Len(a)
           m == Len(b)
<1>1. /\ n \in Nat /\ m \in Nat /\ u \in Seq(Char) /\ Len(u) = n + 2 + m
      /\ \A i \in 1..n : u[i] = a[i]
      /\ u[n + 1] = Colon /\ u[n + 2] = Colon
      /\ \A i \in 1..m : u[n + 2 + i] = b[i]
  BY DEF IsDoubled
<1>2. /\ \A i \in 1..n : a[i] = Colon \/ a[i] \in 0..15
      /\ n # 0 => a[n] # Colon
      /\ \A i \in 1..n - 1 : ~(a[i] = Colon /\ a[i + 1] = Colon)
      /\ \A i \in 1..m : b[i] = Colon \/ b[i] \in 0..15
  BY DEF Separated
<1> HIDE DEF n, m
<1>3. ASSUME NEW i \in 1..Len(u) PROVE u[i] = Colon \/ u[i] \in 0..15
  <2>1. CASE i <= n
    <3>1. i \in 1..n
      BY <2>1, <1>1
    <3> QED BY <3>1, <1>1, <1>2, Zenon
  <2>2. CASE i = n + 1
    BY <2>2, <1>1, Zenon
  <2>4. CASE i = n + 2
    BY <2>4, <1>1, Zenon
  <2>3. CASE i > n + 2
    <3> DEFINE j == i - n - 2
    <3>1. j \in 1..m /\ i = n + 2 + j
      BY <2>3, <1>1
    <3> HIDE DEF j
    <3> QED BY <3>1, <1>1, <1>2
  <2> QED BY <2>1, <2>2, <2>3, <2>4, <1>1
<1>4. ipv6_is_valid(u)
  BY <1>1, <1>3 DEF ipv6_is_valid
<1>5. ~ipv4_is_valid(u)
  <2>1. n + 1 \in DOMAIN u
    BY <1>1
  <2> QED BY <2>1, <1>1, ColonText
<1>6. StartsWith(u, a, Colon)
  BY <1>1 DEF StartsWith, n
<1>7. n + 1 \in DoubleColons(u)
  BY <1>1 DEF DoubleColons
<1>8. ASSUME NEW j \in DoubleColons(u) PROVE n + 1 <= j
  <2>1. j \in 1..Len(u) - 1 /\ u[j] = Colon /\ u[j + 1] = Colon
    BY DEF DoubleColons
  <2>2. CASE j \in 1..n - 1
    <3>1. j \in 1..n /\ j + 1 \in 1..n
      BY <2>2, <1>1
    <3>2. a[j] = Colon /\ a[j + 1] = Colon
      BY <3>1, <2>1, <1>1
    <3> QED BY <3>2, <2>2, <1>2
  <2>3. CASE j = n
    BY <2>1, <2>3, <1>1, <1>2
  <2> QED BY <2>1, <2>2, <2>3, <1>1
<1>9. \A i \in DoubleColons(u) : i \in Nat
  BY DEF DoubleColons
<1>10. (CHOOSE i \in DoubleColons(u) : \A j \in DoubleColons(u) : i <= j) = n + 1
  BY <1>1, <1>7, <1>8, <1>9
<1> QED BY <1>4, <1>5, <1>6, <1>7, <1>10 DEF n

(* What a :: stands for, when it is read as it should be.                   *)
Filled(head, tail) ==
  [k \in 1..8 |->
     IF k <= Len(head) THEN Numeral(head[k], 16)
     ELSE IF k > 8 - Len(tail) THEN Numeral(tail[k - (8 - Len(tail))], 16)
     ELSE 0]

(* ipv6_from_address reads an abbreviated address as it is meant, when no  *)
(* more groups come after the :: than before.                              *)
LEMMA AbbreviatedRead ==
  ASSUME NEW head \in Seq(Numerals(16, 4)), NEW tail \in Seq(Numerals(16, 4)),
         Len(head) + Len(tail) < 8
  PROVE LET u == Doubled(Joined(head, Colon), Joined(tail, Colon)) IN
        /\ u \in Seq(Char) /\ ~ipv4_is_valid(u) /\ ipv6_is_valid(u)
        /\ Len(tail) <= Len(head) => ipv6_from_address(u) = FlippedBytes(Filled(head, tail))
<1> DEFINE a == Joined(head, Colon)
           b == Joined(tail, Colon)
           u == Doubled(a, b)
           n == Len(head)
           m == Len(tail)
           zeroed == [k \in 1..8 |-> 0]
<1>1. a \in Seq(Char) /\ Separated(a, 16, Colon)
  BY JoinedText, Zenon
<1>2. b \in Seq(Char) /\ Separated(b, 16, Colon)
  BY JoinedText, Zenon
<1>3. IsDoubled(u, a, b)
  BY <1>1, <1>2, DoubledAt, Zenon
<1>4. u \in Seq(Char) /\ SubSeq(u, Len(a) + 3, Len(u)) = b
  BY <1>3 DEF IsDoubled
<1>5. /\ ~ipv4_is_valid(u) /\ ipv6_is_valid(u) /\ StartsWith(u, a, Colon)
      /\ DoubleColons(u) # {}
      /\ (CHOOSE i \in DoubleColons(u) : \A j \in DoubleColons(u) : i <= j) = Len(a) + 1
  BY <1>1, <1>2, <1>3, DoubleColonAt, Zenon
<1>6. StartsWith(b, b, Colon)
  <2> HIDE DEF b
  <2> QED BY <1>2 DEF StartsWith
<1>7. n \in Nat /\ m \in Nat /\ n <= 8 /\ m <= 8 /\ n + m < 8
  OBVIOUS
<1>8. Scans(b, Colon, 16, 8, m, tail)
  BY <1>2, <1>6, <1>7, StartScanned, Zenon
<1>9. Scans(u, Colon, 16, 8, n, head)
  BY <1>4, <1>5, <1>7, StartScanned, Zenon
<1> DEFINE suffix == ipv6_scan_chunk(zeroed, b)
           whole == ipv6_scan_chunk(move_suffix(suffix), u)
<1>10. suffix.count = m /\ suffix.shorts = Groups(tail, zeroed)
  BY <1>7, <1>8, ChunkScanned, Zenon
<1>11. whole.shorts = Groups(head, move_suffix(suffix))
  BY <1>7, <1>9, ChunkScanned, Zenon
<1>12. ipv6_from_address(u) = FlippedBytes(whole.shorts)
  <2>1. Len(a) + 1 + 2 = Len(a) + 3
    BY <1>1
  <2> HIDE DEF a, b, u
  <2> QED BY <1>4, <1>5, <2>1, Zenon DEF ipv6_from_address
<1>13. ASSUME m <= n PROVE Groups(head, move_suffix(suffix)) = Filled(head, tail)
  <2> HIDE DEF suffix
  <2> DEFINE move(k) == IF k > 8 - m THEN k - (8 - m) ELSE k
             g == Groups(tail, zeroed)
             s == move_suffix(suffix)
  <2>1. s = [k \in 1..8 |-> g[move(k)]]
    BY <1>10, Zenon DEF move_suffix
  <2>2. \A k \in 1..8 : g[k] = IF k <= m THEN Numeral(tail[k], 16) ELSE 0
    BY DEF Groups
  <2> HIDE DEF g, s, n, m
  <2>3. ASSUME NEW k \in 1..8, k > n
        PROVE s[k] = IF k > 8 - m THEN Numeral(tail[k - (8 - m)], 16) ELSE 0
    <3>1. s[k] = g[move(k)]
      BY <2>1
    <3>2. CASE k > 8 - m
      <4> DEFINE j == k - (8 - m)
      <4>1. j \in 1..8 /\ j <= m /\ move(k) = j
        BY <3>2, <1>7
      <4> HIDE DEF j, move
      <4>2. g[j] = Numeral(tail[j], 16)
        BY <4>1, <2>2
      <4> QED BY <3>1, <3>2, <4>1, <4>2 DEF j
    <3>3. CASE ~(k > 8 - m)
      <4>1. move(k) = k /\ ~(k <= m)
        BY <3>3, <2>3, <1>7, <1>13
      <4> HIDE DEF move
      <4> QED BY <3>1, <3>3, <4>1, <2>2
    <3> QED BY <3>2, <3>3
  <2>4. Groups(head, s) = [k \in 1..8 |-> IF k <= n THEN Numeral(head[k], 16) ELSE s[k]]
    BY Zenon DEF Groups, n
  <2>5. Filled(head, tail) =
          [k \in 1..8 |-> IF k <= n THEN Numeral(head[k], 16)
                          ELSE IF k > 8 - m THEN Numeral(tail[k - (8 - m)], 16) ELSE 0]
    BY Zenon DEF Filled, n, m
  <2>6. \A k \in 1..8 : k <= n \/ k > n
    BY <1>7
  <2>7. Groups(head, s) = Filled(head, tail)
    BY <2>3, <2>4, <2>5, <2>6
  <2> QED BY <2>7 DEF s
<1> QED BY <1>4, <1>5, <1>11, <1>12, <1>13, Zenon

(* The text of an IPv4 literal is valid and is read as what it means.      *)
LEMMA IPv4Text ==
  ASSUME NEW l \in IPv4Literals, NEW bytes \in [1..16 -> 0..255]
  PROVE /\ Text(l) \in Seq(Char) /\ ipv4_is_valid(Text(l))
        /\ l.version = "IPv4"
        /\ ipv4_from_address(bytes, Text(l)) =
             [k \in 1..16 |-> IF k <= 4 THEN Numeral(l.head[k], 10) ELSE bytes[k]]
        /\ Means(l) = [version |-> "IPv4", bytes |-> [k \in 1..4 |-> Numeral(l.head[k], 10)]]
<1>1. l.version = "IPv4" /\ l.head \in Seq(Numerals(10, 3)) /\ Len(l.head) = 4 /\ IsQuad(l.head)
  <2>1. l.version \in {"IPv4"}
        /\ l.head \in {h \in Seq(Numerals(10, 3)) : Len(h) = 4 /\ \A k \in 1..4 : Numeral(h[k], 10) < 256}
    BY DEF IPv4Literals
  <2> QED BY <2>1, Zenon DEF IsQuad
<1>2. Text(l) = Joined(l.head, Dot)
  BY <1>1, Zenon DEF Text
<1>3. /\ Joined(l.head, Dot) \in Seq(Char) /\ ipv4_is_valid(Joined(l.head, Dot))
      /\ ipv4_from_address(bytes, Joined(l.head, Dot)) =
             [k \in 1..16 |-> IF k <= 4 THEN Numeral(l.head[k], 10) ELSE bytes[k]]
  BY <1>1, IPv4Read, Zenon
<1>4. Means(l) = [version |-> "IPv4", bytes |-> [k \in 1..4 |-> Numeral(l.head[k], 10)]]
  BY <1>1 DEF Means
<1> QED BY <1>1, <1>2, <1>3, <1>4, Zenon

(* The text of an IPv6 literal is valid and, unless more groups come after *)
(* the ::, is read as what it means.                                       *)
LEMMA IPv6Text ==
  ASSUME NEW l \in IPv6Literals
  PROVE /\ Text(l) \in Seq(Char) /\ ~ipv4_is_valid(Text(l)) /\ ipv6_is_valid(Text(l))
        /\ l.version = "IPv6"
        /\ ~Lopsided(l) => ipv6_from_address(Text(l)) = FlippedBytes(Filled(l.head, l.tail))
        /\ Means(l) = [version |-> "IPv6", bytes |-> FlippedBytes(Filled(l.head, l.tail))]
<1>1. /\ l.version = "IPv6" /\ l.head \in Seq(Numerals(16, 4)) /\ l.tail \in Seq(Numerals(16, 4))
      /\ Len(l.head) + Len(l.tail) < 8 \/ (Len(l.head) = 8 /\ Len(l.tail) = 0)
  BY DEF IPv6Literals
<1>2. Means(l) = [version |-> "IPv6", bytes |-> FlippedBytes(Filled(l.head, l.tail))]
  <2>1. Means(l) =
          [version |-> l.version,
           bytes |-> FlippedBytes(
                [k \in 1..8 |->
                   IF k <= Len(l.head) THEN Numeral(l.head[k], 16)
                   ELSE IF k > 8 - Len(l.tail) THEN Numeral(l.tail[k - (8 - Len(l.tail))], 16)
                   ELSE 0])]
    <3>1. ~(l.version = "IPv4")
      BY <1>1
    <3> QED BY <3>1, Zenon DEF Means
  <2> QED BY <1>1, <2>1, Zenon DEF Filled
<1>3. CASE Len(l.head) = 8
  <2>1. Text(l) = Joined(l.head, Colon)
    <3>1. ~(l.version = "IPv4")
      BY <1>1
    <3> QED BY <1>3, <3>1, Zenon DEF Text
  <2>2. /\ Joined(l.head, Colon) \in Seq(Char)
        /\ ~ipv4_is_valid(Joined(l.head, Colon)) /\ ipv6_is_valid(Joined(l.head, Colon))
        /\ ipv6_from_address(Joined(l.head, Colon)) = FlippedBytes([k \in 1..8 |-> Numeral(l.head[k], 16)])
    BY <1>1, <1>3, FullRead, Zenon
  <2>3. Filled(l.head, l.tail) = [k \in 1..8 |-> Numeral(l.head[k], 16)]
    BY <1>3 DEF Filled
  <2> QED BY <1>1, <1>2, <2>1, <2>2, <2>3, Zenon
<1>4. CASE Len(l.head) # 8
  <2>1. Text(l) = Doubled(Joined(l.head, Colon), Joined(l.tail, Colon))
    <3>1. ~(l.version = "IPv4")
      BY <1>1
    <3> QED BY <1>4, <3>1, Zenon DEF Text, Doubled
  <2>2. Len(l.head) + Len(l.tail) < 8
    BY <1>1, <1>4
  <2> DEFINE u == Doubled(Joined(l.head, Colon), Joined(l.tail, Colon))
  <2>3. /\ u \in Seq(Char) /\ ~ipv4_is_valid(u) /\ ipv6_is_valid(u)
        /\ Len(l.tail) <= Len(l.head) => ipv6_from_address(u) = FlippedBytes(Filled(l.head, l.tail))
    BY <1>1, <2>2, AbbreviatedRead, Zenon
  <2>4. ~Lopsided(l) => Len(l.tail) <= Len(l.head)
    BY <1>1 DEF Lopsided
  <2> QED BY <1>1, <1>2, <2>1, <2>3, <2>4, Zenon
<1> QED BY <1>3, <1>4

-----------------------------------------------------------------------------
(* The parsers return bytes whatever the text is.                          *)

(* Sixteen bytes, and eight numbers of two bytes.                           *)
AllBytes == [1..16 -> 0..255]
IsShort(v) == v \in Nat /\ v < 65536
AreShorts(s) == \A k \in 1..8 : IsShort(s[k])

(* There are n numbers from 1 to n.                                        *)
LEMMA UpTo ==
  ASSUME NEW n \in Nat
  PROVE IsFiniteSet(1..n) /\ Cardinality(1..n) = n
<1>1. 1 \in Int /\ n \in Int
  OBVIOUS
<1>2. IsFiniteSet(1..n) /\ Cardinality(1..n) = IF 1 > n THEN 0 ELSE n - 1 + 1
  BY <1>1, FS_Interval
<1> QED BY <1>2

(* The high byte of a short.                                               *)
LEMMA HighByte == ASSUME NEW v, IsShort(v) PROVE v \div 256 \in 0..255
BY DEF IsShort

(* The low byte of a short.                                                *)
LEMMA LowByte == ASSUME NEW v, IsShort(v) PROVE v % 256 \in 0..255
BY DEF IsShort

(* Eight shorts make sixteen bytes.                                        *)
LEMMA FlippedType ==
  ASSUME NEW s, AreShorts(s)
  PROVE FlippedBytes(s) \in AllBytes
<1>1. ASSUME NEW k \in 1..16, k % 2 = 1 PROVE s[(k + 1) \div 2] \div 256 \in 0..255
  <2> DEFINE j == (k + 1) \div 2
  <2>1. j \in 1..8
    OBVIOUS
  <2> HIDE DEF j
  <2>2. IsShort(s[j])
    BY <2>1 DEF AreShorts
  <2>3. s[j] \div 256 \in 0..255
    BY <2>2, HighByte
  <2> QED BY <2>3 DEF j
<1>2. ASSUME NEW k \in 1..16, k % 2 # 1 PROVE s[k \div 2] % 256 \in 0..255
  <2> DEFINE j == k \div 2
  <2>0. k >= 2
    BY <1>2
  <2>1. j \in 1..8
    BY <2>0
  <2> HIDE DEF j
  <2>2. IsShort(s[j])
    BY <2>1 DEF AreShorts
  <2>3. s[j] % 256 \in 0..255
    BY <2>2, LowByte
  <2> QED BY <2>3 DEF j
<1> DEFINE byte(k) == IF k % 2 = 1 THEN s[(k + 1) \div 2] \div 256 ELSE s[k \div 2] % 256
<1>3. \A k \in 1..16 : byte(k) \in 0..255
  BY <1>1, <1>2
<1>4. FlippedBytes(s) = [k \in 1..16 |-> byte(k)]
  BY DEF FlippedBytes, NSAPI_IPv6_BYTES
<1> HIDE DEF byte
<1> QED BY <1>3, <1>4 DEF AllBytes

(* The loops read numbers only from places inside the text or just after   *)
(* it.                                                                     *)
LEMMA StartIsPlace ==
  ASSUME NEW t \in Seq(Char), NEW sep, NEW base, NEW max \in Nat, NEW k \in Scanned(t, sep, base, max)
  PROVE k \in 1..max /\ Start(t, sep, k) \in Nat \ {0}
<1> DEFINE starts == Starts(t, sep)
<1>1. starts \subseteq 1..Len(t) + 1
  BY StartsThere
<1>2. k \in 1..max /\ \A m \in 1..k : \E i \in starts : Place(starts, i) = m
  BY DEF Scanned
<1>3. \E i \in starts : Place(starts, i) = k
  BY <1>2
<1>4. Start(t, sep, k) = CHOOSE i \in starts : Place(starts, i) = k
  BY Zenon DEF Start
<1>5. Start(t, sep, k) \in starts
  BY <1>3, <1>4, Zenon
<1>6. 1..Len(t) + 1 \subseteq Nat \ {0}
  OBVIOUS
<1> QED BY <1>1, <1>2, <1>5, <1>6, Zenon

(* What sscanf stores for a number of a dotted quad.                       *)
QuadAt(t, i) == sscanf(t, i, 10, 256)

(* sscanf stores a byte.                                                   *)
LEMMA QuadType ==
  ASSUME NEW t \in Seq(Char), NEW i \in Nat \ {0}
  PROVE QuadAt(t, i) \in 0..255
<1>1. 10 \in Bases /\ 256 \in Widths
  BY DEF Bases, Widths
<1> DEFINE v == sscanf(t, i, 10, 256)
<1>2. v \in Nat /\ v < 256
  BY <1>1, sscanfType
<1> HIDE DEF v
<1>3. v \in 0..255
  BY <1>2
<1> QED BY <1>3 DEF v, QuadAt

(* Whatever the text, ipv4_from_address leaves sixteen bytes.              *)
LEMMA IPv4Type ==
  ASSUME NEW bytes \in AllBytes, NEW t \in Seq(Char)
  PROVE ipv4_from_address(bytes, t) \in AllBytes
<1> DEFINE scanned == Scanned(t, Dot, 10, NSAPI_IPv4_BYTES)
           got(k) == QuadAt(t, Start(t, Dot, k))
<1>1. ASSUME NEW k \in scanned PROVE got(k) \in 0..255
  <2>1. Start(t, Dot, k) \in Nat \ {0}
    BY StartIsPlace DEF NSAPI_IPv4_BYTES
  <2> QED BY <2>1, QuadType
<1>2. bytes \in [1..16 -> 0..255]
  BY DEF AllBytes
<1>3. ipv4_from_address(bytes, t) = [k \in DOMAIN bytes |-> IF k \in scanned THEN got(k) ELSE bytes[k]]
  BY Zenon DEF ipv4_from_address, QuadAt
<1> HIDE DEF scanned, got
<1> DEFINE byte(k) == IF k \in scanned THEN got(k) ELSE bytes[k]
<1>4. \A k \in 1..16 : byte(k) \in 0..255
  BY <1>1, <1>2
<1>5. ipv4_from_address(bytes, t) = [k \in 1..16 |-> byte(k)]
  BY <1>2, <1>3
<1> HIDE DEF byte
<1> QED BY <1>4, <1>5 DEF AllBytes

(* What sscanf stores for a group.                                         *)
GroupAt(t, i) == sscanf(t, i, 16, 65536)

(* sscanf stores a short.                                                  *)
LEMMA GroupType ==
  ASSUME NEW t \in Seq(Char), NEW i \in Nat \ {0}
  PROVE IsShort(GroupAt(t, i))
<1>1. 16 \in Bases /\ 65536 \in Widths
  BY DEF Bases, Widths
<1> QED BY <1>1, sscanfType DEF GroupAt, IsShort

(* Whatever the text, ipv6_scan_chunk counts at most eight groups and      *)
(* leaves eight shorts.                                                    *)
LEMMA ChunkType ==
  ASSUME NEW shorts, AreShorts(shorts), NEW t \in Seq(Char)
  PROVE /\ ipv6_scan_chunk(shorts, t).count \in Nat /\ ipv6_scan_chunk(shorts, t).count <= 8
        /\ AreShorts(ipv6_scan_chunk(shorts, t).shorts)
<1> DEFINE scanned == Scanned(t, Colon, 16, 8)
           got(k) == GroupAt(t, Start(t, Colon, k))
           c == ipv6_scan_chunk(shorts, t)
<1>1. ASSUME NEW k \in scanned PROVE IsShort(got(k))
  <2>1. Start(t, Colon, k) \in Nat \ {0}
    BY StartIsPlace
  <2> QED BY <2>1, GroupType, Zenon
<1>2. scanned \subseteq 1..8
  BY StartIsPlace
<1>3. Cardinality(scanned) \in Nat /\ Cardinality(scanned) <= 8
  <2>1. IsFiniteSet(1..8) /\ Cardinality(1..8) = 8
    BY UpTo
  <2> HIDE DEF scanned
  <2>2. IsFiniteSet(scanned) /\ Cardinality(scanned) <= Cardinality(1..8)
    BY <2>1, <1>2, FS_Subset
  <2> QED BY <2>1, <2>2, FS_CardinalityType
<1>4. c = [count |-> Cardinality(scanned),
           shorts |-> [k \in 1..8 |-> IF k \in scanned THEN got(k) ELSE shorts[k]]]
  BY DEF ipv6_scan_chunk, GroupAt
<1> HIDE DEF scanned, got, c
<1>5. c.count = Cardinality(scanned) /\ c.shorts = [k \in 1..8 |-> IF k \in scanned THEN got(k) ELSE shorts[k]]
  BY <1>4
<1>6. AreShorts(c.shorts)
  <2> SUFFICES ASSUME NEW k \in 1..8 PROVE IsShort(c.shorts[k])
    BY DEF AreShorts
  <2>1. c.shorts[k] = IF k \in scanned THEN got(k) ELSE shorts[k]
    BY <1>5
  <2>2. IsShort(shorts[k])
    BY DEF AreShorts
  <2> QED BY <2>1, <2>2, <1>1, Zenon
<1> QED BY <1>3, <1>5, <1>6 DEF c

(* move_suffix reads only the eight shorts.                                *)
LEMMA MoveType ==
  ASSUME NEW s, s.count \in Nat, s.count <= 8, AreShorts(s.shorts)
  PROVE AreShorts(move_suffix(s))
<1> DEFINE c == s.count
           from(k) == IF k > 8 - c THEN k - (8 - c) ELSE k
<1>1. \A k \in 1..8 : from(k) \in 1..8
  OBVIOUS
<1>2. move_suffix(s) = [k \in 1..8 |-> s.shorts[from(k)]]
  BY Zenon DEF move_suffix
<1> HIDE DEF from
<1> QED BY <1>1, <1>2 DEF AreShorts

(* Whatever the text, ipv6_from_address makes sixteen bytes.               *)
LEMMA IPv6Type ==
  ASSUME NEW t \in Seq(Char)
  PROVE ipv6_from_address(t) \in AllBytes
<1> DEFINE zeroed == [k \in 1..8 |-> 0]
           D == DoubleColons(t)
           at == CHOOSE i \in D : \A j \in D : i <= j
           chunk == ipv6_scan_chunk(zeroed, SubSeq(t, at + 2, Len(t)))
           suffix == IF D = {} THEN [count |-> 0, shorts |-> zeroed] ELSE chunk
<1>1. AreShorts(zeroed)
  BY DEF AreShorts, IsShort
<1>2. ASSUME D # {} PROVE chunk.count \in Nat /\ chunk.count <= 8 /\ AreShorts(chunk.shorts)
  <2>1. D \subseteq 1..Len(t) - 1
    BY DEF DoubleColons
  <2>2. D \subseteq Nat
    BY <2>1
  <2>3. \E i \in D : \A j \in D : i <= j
    BY <1>2, <2>2, Least
  <2> HIDE DEF D
  <2>4. at \in D
    BY <2>3, Zenon
  <2> HIDE DEF at
  <2>5. at \in Nat /\ at + 2 \in Int /\ Len(t) \in Int
    BY <2>2, <2>4
  <2>6. \A i \in at + 2..Len(t) : t[i] \in Char
    BY <2>5
  <2>7. SubSeq(t, at + 2, Len(t)) \in Seq(Char)
    BY <2>5, <2>6, SubSeqProperties, Zenon
  <2> QED BY <1>1, <2>7, ChunkType, Zenon
<1>3. suffix.count \in Nat /\ suffix.count <= 8 /\ AreShorts(suffix.shorts)
  <2>1. CASE D = {}
    <3> HIDE DEF zeroed
    <3>1. suffix = [count |-> 0, shorts |-> zeroed]
      BY <2>1, Zenon
    <3> HIDE DEF suffix
    <3> QED BY <3>1, <1>1
  <2>2. CASE D # {}
    <3>1. suffix = chunk
      BY <2>2, Zenon
    <3> HIDE DEF suffix
    <3> QED BY <3>1, <2>2, <1>2, Zenon
  <2> QED BY <2>1, <2>2
<1> HIDE DEF suffix
<1>4. AreShorts(move_suffix(suffix))
  BY <1>3, MoveType, Zenon
<1>5. AreShorts(ipv6_scan_chunk(move_suffix(suffix), t).shorts)
  BY <1>4, ChunkType, Zenon
<1>6. ipv6_from_address(t) = FlippedBytes(ipv6_scan_chunk(move_suffix(suffix), t).shorts)
  BY Zenon DEF ipv6_from_address, suffix
<1> QED BY <1>5, <1>6, FlippedType, Zenon

-----------------------------------------------------------------------------
(* The printers, whose texts the parsers read back.                        *)

(* A function on 1..n is a sequence.                                       *)
LEMMA SeqOf ==
  ASSUME NEW Q, NEW n \in Nat, NEW f \in [1..n -> Q]
  PROVE f \in Seq(Q)
OBVIOUS

(* A numeral of one digit, and its number.                                 *)
LEMMA OneDigit ==
  ASSUME NEW a \in 0..9
  PROVE <<a>> \in Numerals(10, 3) /\ Numeral(<<a>>, 10) = a
<1> DEFINE d == <<a>>
<1>1. d \in Seq(0..9) /\ Len(d) = 1 /\ d[1] = a
  OBVIOUS
<1> HIDE DEF d
<1>2. d \in Numerals(10, 3)
  BY <1>1 DEF Numerals
<1>3. Numeral(d, 10) = a
  BY <1>1 DEF Numeral
<1> QED BY <1>2, <1>3 DEF d

(* A numeral of two digits, and its number.                                *)
LEMMA TwoDigits ==
  ASSUME NEW a \in 0..9, NEW b \in 0..9
  PROVE <<a, b>> \in Numerals(10, 3) /\ Numeral(<<a, b>>, 10) = 10 * a + b
<1> DEFINE d == <<a, b>>
<1>1. d \in Seq(0..9) /\ Len(d) = 2 /\ d[1] = a /\ d[2] = b
  OBVIOUS
<1> HIDE DEF d
<1>2. d \in Numerals(10, 3)
  BY <1>1 DEF Numerals
<1>3. Numeral(d, 10) = 10 * a + b
  BY <1>1 DEF Numeral
<1> QED BY <1>2, <1>3 DEF d

(* A numeral of three digits, and its number.                              *)
LEMMA ThreeDigits ==
  ASSUME NEW a \in 0..9, NEW b \in 0..9, NEW c \in 0..9
  PROVE <<a, b, c>> \in Numerals(10, 3) /\ Numeral(<<a, b, c>>, 10) = 100 * a + 10 * b + c
<1> DEFINE d == <<a, b, c>>
<1>1. d \in Seq(0..9) /\ Len(d) = 3 /\ d[1] = a /\ d[2] = b /\ d[3] = c
  OBVIOUS
<1> HIDE DEF d
<1>2. d \in Numerals(10, 3)
  BY <1>1 DEF Numerals
<1>3. Numeral(d, 10) = 100 * a + 10 * b + c
  BY <1>1 DEF Numeral
<1> QED BY <1>2, <1>3 DEF d

(* A byte is printed as the numeral of its value.                          *)
LEMMA DecimalIsNumeral ==
  ASSUME NEW n \in 0..255
  PROVE Decimal(n) \in Numerals(10, 3) /\ Numeral(Decimal(n), 10) = n
<1>1. CASE n < 10
  <2>1. n \in 0..9 /\ Decimal(n) = <<n>>
    BY <1>1 DEF Decimal
  <2> QED BY <2>1, OneDigit
<1>2. CASE n >= 10 /\ n < 100
  <2>1. /\ Decimal(n) = <<n \div 10, n % 10>>
        /\ n \div 10 \in 0..9 /\ n % 10 \in 0..9 /\ n = 10 * (n \div 10) + (n % 10)
    BY <1>2 DEF Decimal
  <2> QED BY <2>1, TwoDigits
<1>3. CASE n >= 100
  <2>1. Decimal(n) = <<n \div 100, (n \div 10) % 10, n % 10>>
    BY <1>3 DEF Decimal
  <2>2. /\ n \div 100 \in 0..9 /\ (n \div 10) % 10 \in 0..9 /\ n % 10 \in 0..9
        /\ n = 100 * (n \div 100) + 10 * ((n \div 10) % 10) + (n % 10)
    BY <1>3
  <2> DEFINE a == n \div 100
             b == (n \div 10) % 10
             c == n % 10
  <2>3. a \in 0..9 /\ b \in 0..9 /\ c \in 0..9 /\ n = 100 * a + 10 * b + c /\ Decimal(n) = <<a, b, c>>
    BY <2>1, <2>2, Zenon
  <2> HIDE DEF a, b, c
  <2>4. <<a, b, c>> \in Numerals(10, 3) /\ Numeral(<<a, b, c>>, 10) = 100 * a + 10 * b + c
    BY <2>3, ThreeDigits, Zenon
  <2> QED BY <2>3, <2>4, Zenon
<1> QED BY <1>1, <1>2, <1>3

(* The number of four hexadecimal digits.                                  *)
OfFour(a, b, c, e) == e + 16 * c + 256 * b + 4096 * a

(* A numeral of four hexadecimal digits, and its number.                   *)
LEMMA FourNumeral ==
  ASSUME NEW a \in 0..15, NEW b \in 0..15, NEW c \in 0..15, NEW e \in 0..15
  PROVE /\ <<a, b, c, e>> \in Numerals(16, 4)
        /\ Numeral(<<a, b, c, e>>, 16) = OfFour(a, b, c, e)
<1> DEFINE d == <<a, b, c, e>>
<1>1. d \in Seq(0..15) /\ Len(d) = 4 /\ d[1] = a /\ d[2] = b /\ d[3] = c /\ d[4] = e
  OBVIOUS
<1> HIDE DEF d
<1>2. d \in Numerals(16, 4)
  BY <1>1 DEF Numerals
<1>3. Numeral(d, 16) = OfFour(a, b, c, e)
  BY <1>1 DEF Numeral, OfFour
<1> QED BY <1>2, <1>3 DEF d

(* A pair of bytes is printed as the numeral of its value.                 *)
LEMMA TwoBytesIsNumeral ==
  ASSUME NEW high \in 0..255, NEW low \in 0..255
  PROVE TwoBytes(high, low) \in Numerals(16, 4) /\ Numeral(TwoBytes(high, low), 16) = 256 * high + low
<1>1. TwoBytes(high, low) = <<high \div 16, high % 16, low \div 16, low % 16>>
  BY DEF TwoBytes
<1>2. /\ high \div 16 \in 0..15 /\ high % 16 \in 0..15 /\ low \div 16 \in 0..15 /\ low % 16 \in 0..15
      /\ high = 16 * (high \div 16) + (high % 16)
      /\ low = 16 * (low \div 16) + (low % 16)
  OBVIOUS
<1> DEFINE a == high \div 16
           b == high % 16
           c == low \div 16
           e == low % 16
<1>3. a \in 0..15 /\ b \in 0..15 /\ c \in 0..15 /\ e \in 0..15 /\ high = 16 * a + b /\ low = 16 * c + e
  BY <1>2
<1>4. TwoBytes(high, low) = <<a, b, c, e>>
  BY <1>1
<1> HIDE DEF a, b, c, e
<1>5. OfFour(a, b, c, e) = 256 * (16 * a + b) + (16 * c + e)
  BY <1>3 DEF OfFour
<1>6. /\ <<a, b, c, e>> \in Numerals(16, 4)
      /\ Numeral(<<a, b, c, e>>, 16) = OfFour(a, b, c, e)
  BY <1>3, FourNumeral, Zenon
<1>7. 256 * (16 * a + b) + (16 * c + e) = 256 * high + low
  BY <1>3
<1>8. Numeral(TwoBytes(high, low), 16) = OfFour(a, b, c, e)
  BY <1>4, <1>6
<1> QED BY <1>4, <1>5, <1>6, <1>7, <1>8

(* A number put together from two bytes comes apart into them.             *)
LEMMA ApartAgain ==
  ASSUME NEW h \in 0..255, NEW l \in 0..255
  PROVE (256 * h + l) \div 256 = h /\ (256 * h + l) % 256 = l
OBVIOUS

(* Bytes that are put together in pairs come apart again.                  *)
LEMMA FlippedBack ==
  ASSUME NEW bytes \in AllBytes, NEW s, \A k \in 1..8 : s[k] = 256 * bytes[2 * k - 1] + bytes[2 * k]
  PROVE FlippedBytes(s) = bytes
<1> DEFINE byte(k) == IF k % 2 = 1 THEN s[(k + 1) \div 2] \div 256 ELSE s[k \div 2] % 256
<1>1. bytes \in [1..16 -> 0..255]
  BY DEF AllBytes
<1>3. ASSUME NEW k \in 1..16 PROVE byte(k) = bytes[k]
  <2>1. CASE k % 2 = 1
    <3> DEFINE j == (k + 1) \div 2
    <3>1. j \in 1..8 /\ 2 * j - 1 = k /\ 2 * j \in 1..16
      BY <2>1
    <3> HIDE DEF j
    <3>2. s[j] = 256 * bytes[k] + bytes[2 * j]
      BY <3>1
    <3>4. bytes[k] \in 0..255 /\ bytes[2 * j] \in 0..255
      BY <3>1, <1>1
    <3> DEFINE h == bytes[k]
               l == bytes[2 * j]
    <3>5. h \in 0..255 /\ l \in 0..255 /\ s[j] = 256 * h + l
      BY <3>2, <3>4, Zenon
    <3> HIDE DEF h, l
    <3>6. (256 * h + l) \div 256 = h
      BY <3>5, ApartAgain
    <3>7. s[j] \div 256 = h
      BY <3>5, <3>6, Zenon
    <3>3. s[j] \div 256 = bytes[k]
      BY <3>7, Zenon DEF h
    <3> QED BY <2>1, <3>3 DEF j
  <2>2. CASE k % 2 # 1
    <3> DEFINE j == k \div 2
    <3>0. k >= 2
      BY <2>2
    <3>1. j \in 1..8 /\ 2 * j = k /\ 2 * j - 1 \in 1..16
      BY <2>2, <3>0
    <3> HIDE DEF j
    <3>2. s[j] = 256 * bytes[2 * j - 1] + bytes[k]
      BY <3>1
    <3>4. bytes[k] \in 0..255 /\ bytes[2 * j - 1] \in 0..255
      BY <3>1, <1>1
    <3> DEFINE h == bytes[2 * j - 1]
               l == bytes[k]
    <3>5. h \in 0..255 /\ l \in 0..255 /\ s[j] = 256 * h + l
      BY <3>2, <3>4, Zenon
    <3> HIDE DEF h, l
    <3>6. (256 * h + l) % 256 = l
      BY <3>5, ApartAgain
    <3>7. s[j] % 256 = l
      BY <3>5, <3>6, Zenon
    <3>3. s[j] % 256 = bytes[k]
      BY <3>7, Zenon DEF l
    <3> QED BY <2>2, <3>3 DEF j
  <2> QED BY <2>1, <2>2
<1>4. FlippedBytes(s) = [k \in 1..16 |-> byte(k)]
  BY DEF FlippedBytes, NSAPI_IPv6_BYTES
<1> HIDE DEF byte
<1> QED BY <1>1, <1>3, <1>4

(* What ipv4_to_address prints is read back by ipv4_from_address.          *)
THEOREM IPv4Printed ==
  ASSUME NEW bytes \in AllBytes, NEW others \in AllBytes
  PROVE /\ ipv4_to_address(bytes) \in Seq(Char) /\ ipv4_is_valid(ipv4_to_address(bytes))
        /\ ipv4_from_address(others, ipv4_to_address(bytes)) =
             [k \in 1..16 |-> IF k <= 4 THEN bytes[k] ELSE others[k]]
<1> DEFINE parts == [k \in 1..4 |-> Decimal(bytes[k])]
           Q == Numerals(10, 3)
<1>1. \A k \in 1..16 : bytes[k] \in 0..255
  BY DEF AllBytes
<1>2. \A k \in 1..4 : Decimal(bytes[k]) \in Q /\ Numeral(Decimal(bytes[k]), 10) = bytes[k]
  <2> TAKE k \in 1..4
  <2>1. bytes[k] \in 0..255
    BY <1>1
  <2> QED BY <2>1, DecimalIsNumeral, Zenon
<1>3. /\ \A k \in 1..4 : parts[k] = Decimal(bytes[k])
      /\ Len(parts) = 4
  OBVIOUS
<1>4. parts \in Seq(Q)
  <2> HIDE DEF Q
  <2>1. parts \in [1..4 -> Q]
    BY <1>2
  <2>2. 4 \in Nat
    OBVIOUS
  <2> HIDE DEF parts
  <2> QED BY <2>1, <2>2, SeqOf, Zenon
<1>5. ipv4_to_address(bytes) = Joined(parts, Dot)
  BY Zenon DEF ipv4_to_address
<1> HIDE DEF parts
<1>6. \A k \in 1..4 : Numeral(parts[k], 10) = bytes[k]
  BY <1>2, <1>3
<1>7. IsQuad(parts)
  BY <1>1, <1>3, <1>6 DEF IsQuad
<1>8. others \in [1..16 -> 0..255]
  BY DEF AllBytes
<1>9. /\ Joined(parts, Dot) \in Seq(Char) /\ ipv4_is_valid(Joined(parts, Dot))
      /\ ipv4_from_address(others, Joined(parts, Dot)) =
             [k \in 1..16 |-> IF k <= 4 THEN Numeral(parts[k], 10) ELSE others[k]]
  BY <1>3, <1>4, <1>7, <1>8, IPv4Read, Zenon
<1>10. [k \in 1..16 |-> IF k <= 4 THEN Numeral(parts[k], 10) ELSE others[k]]
         = [k \in 1..16 |-> IF k <= 4 THEN bytes[k] ELSE others[k]]
  BY <1>6
<1> QED BY <1>5, <1>9, <1>10, Zenon

(* What ipv6_to_address prints is read back by ipv6_from_address.          *)
THEOREM IPv6Printed ==
  ASSUME NEW bytes \in AllBytes
  PROVE /\ ipv6_to_address(bytes) \in Seq(Char)
        /\ ~ipv4_is_valid(ipv6_to_address(bytes)) /\ ipv6_is_valid(ipv6_to_address(bytes))
        /\ ipv6_from_address(ipv6_to_address(bytes)) = bytes
<1> DEFINE group(k) == TwoBytes(bytes[2 * k - 1], bytes[2 * k])
           parts == [k \in 1..8 |-> group(k)]
           Q == Numerals(16, 4)
<1>1. \A k \in 1..8 : bytes[2 * k - 1] \in 0..255 /\ bytes[2 * k] \in 0..255
  BY DEF AllBytes
<1>2. \A k \in 1..8 : group(k) \in Q /\ Numeral(group(k), 16) = 256 * bytes[2 * k - 1] + bytes[2 * k]
  BY <1>1, TwoBytesIsNumeral
<1>3. ipv6_to_address(bytes) = Joined(parts, Colon)
  BY Zenon DEF ipv6_to_address
<1> HIDE DEF group
<1>4. (\A k \in 1..8 : parts[k] = group(k)) /\ Len(parts) = 8
  OBVIOUS
<1>5. parts \in Seq(Q)
  <2> HIDE DEF Q
  <2>1. parts \in [1..8 -> Q]
    BY <1>2
  <2>2. 8 \in Nat
    OBVIOUS
  <2> HIDE DEF parts
  <2> QED BY <2>1, <2>2, SeqOf, Zenon
<1> HIDE DEF parts
<1>6. /\ Joined(parts, Colon) \in Seq(Char)
      /\ ~ipv4_is_valid(Joined(parts, Colon)) /\ ipv6_is_valid(Joined(parts, Colon))
      /\ ipv6_from_address(Joined(parts, Colon)) = FlippedBytes([k \in 1..8 |-> Numeral(parts[k], 16)])
  BY <1>4, <1>5, FullRead, Zenon
<1> DEFINE s == [k \in 1..8 |-> Numeral(parts[k], 16)]
<1>7. \A k \in 1..8 : s[k] = 256 * bytes[2 * k - 1] + bytes[2 * k]
  BY <1>2, <1>4
<1> HIDE DEF s
<1>8. FlippedBytes(s) = bytes
  BY <1>7, FlippedBack
<1> QED BY <1>3, <1>6, <1>8 DEF s

-----------------------------------------------------------------------------
(* What the methods make of an object.                                     *)

(* The fields of an object.                                                *)
AnObject(a) ==
  /\ a = [version |-> a.version, bytes |-> a.bytes, text |-> a.text, port |-> a.port]
  /\ a.bytes \in AllBytes
  /\ a.text \in Seq(Char)

(* The new object of set_ip_address, field by field.                       *)
LEMMA SetAddress ==
  ASSUME NEW a, AnObject(a), NEW t
  PROVE LET b == set_ip_address(a, t) IN
        /\ b = [version |-> b.version, bytes |-> b.bytes, text |-> b.text, port |-> b.port]
        /\ b.text = <<>> /\ b.port = a.port
        /\ b.version = IF t # NULL /\ ~ipv4_is_valid(t) /\ ipv6_is_valid(t) THEN "IPv6" ELSE "IPv4"
        /\ b.bytes = IF t = NULL THEN ClearIPv4(a.bytes)
                     ELSE IF ipv4_is_valid(t) THEN ipv4_from_address(a.bytes, t)
                     ELSE IF ipv6_is_valid(t) THEN ipv6_from_address(t)
                     ELSE ClearIPv4(a.bytes)
<1>1. a = [version |-> a.version, bytes |-> a.bytes, text |-> a.text, port |-> a.port]
  BY DEF AnObject
<1> DEFINE v == IF t # NULL /\ ~ipv4_is_valid(t) /\ ipv6_is_valid(t) THEN "IPv6" ELSE "IPv4"
           bytes == IF t = NULL THEN ClearIPv4(a.bytes)
                    ELSE IF ipv4_is_valid(t) THEN ipv4_from_address(a.bytes, t)
                    ELSE IF ipv6_is_valid(t) THEN ipv6_from_address(t)
                    ELSE ClearIPv4(a.bytes)
           b == set_ip_address(a, t)
<1>2. b = [a EXCEPT !.text = <<>>, !.version = v, !.bytes = bytes]
  BY DEF set_ip_address, dropped_text
<1> HIDE DEF v, bytes, b
<1>3. b = [version |-> v, bytes |-> bytes, text |-> <<>>, port |-> a.port]
  BY <1>1, <1>2
<1>4. /\ b = [version |-> b.version, bytes |-> b.bytes, text |-> b.text, port |-> b.port]
      /\ b.text = <<>> /\ b.port = a.port /\ b.version = v /\ b.bytes = bytes
  BY <1>3
<1> QED BY <1>4 DEF v, bytes, b

(* Clearing leaves sixteen bytes, the first four of them zero.             *)
LEMMA ClearedType ==
  ASSUME NEW bytes \in AllBytes
  PROVE ClearIPv4(bytes) \in AllBytes /\ \A k \in 1..4 : ClearIPv4(bytes)[k] = 0
BY DEF ClearIPv4, AllBytes, NSAPI_IPv4_BYTES

(* set_ip_address makes an object with no cached text and the port it had, *)
(* whatever the text.                                                      *)
LEMMA AddressSet ==
  ASSUME NEW a, AnObject(a), NEW t, t = NULL \/ t \in Seq(Char)
  PROVE LET b == set_ip_address(a, t) IN
        AnObject(b) /\ b.text = <<>> /\ b.port = a.port
<1> DEFINE b == set_ip_address(a, t)
<1>1. a.bytes \in AllBytes
  BY DEF AnObject
<1>2. ClearIPv4(a.bytes) \in AllBytes
  BY <1>1, ClearedType
<1>3. t \in Seq(Char) => ipv4_from_address(a.bytes, t) \in AllBytes /\ ipv6_from_address(t) \in AllBytes
  BY <1>1, IPv4Type, IPv6Type
<1>4. /\ b = [version |-> b.version, bytes |-> b.bytes, text |-> b.text, port |-> b.port]
      /\ b.text = <<>> /\ b.port = a.port
      /\ b.bytes = IF t = NULL THEN ClearIPv4(a.bytes)
                   ELSE IF ipv4_is_valid(t) THEN ipv4_from_address(a.bytes, t)
                   ELSE IF ipv6_is_valid(t) THEN ipv6_from_address(t)
                   ELSE ClearIPv4(a.bytes)
  BY SetAddress, Zenon
<1>5. <<>> \in Seq(Char)
  OBVIOUS
<1> HIDE DEF b
<1>6. b.bytes \in AllBytes
  BY <1>2, <1>3, <1>4, Zenon
<1>7. AnObject(b)
  BY <1>4, <1>5, <1>6, Zenon DEF AnObject
<1> QED BY <1>4, <1>7, Zenon DEF b

(* set_ip_address with the text of a literal makes the object mean what    *)
(* the literal means.                                                      *)
THEOREM LiteralSet ==
  ASSUME NEW a, AnObject(a), NEW l \in Literals
  PROVE /\ Text(l) \in Seq(Char) /\ ~NeedsDNS(Text(l))
        /\ ~Lopsided(l) => Meaning(set_ip_address(a, Text(l))) = Means(l)
<1> DEFINE b == set_ip_address(a, Text(l))
           t == Text(l)
<1>1. b.version = (IF t # NULL /\ ~ipv4_is_valid(t) /\ ipv6_is_valid(t) THEN "IPv6" ELSE "IPv4")
      /\ b.bytes = IF t = NULL THEN ClearIPv4(a.bytes)
                   ELSE IF ipv4_is_valid(t) THEN ipv4_from_address(a.bytes, t)
                   ELSE IF ipv6_is_valid(t) THEN ipv6_from_address(t)
                   ELSE ClearIPv4(a.bytes)
  BY SetAddress, Zenon
<1>2. \A x \in Seq(Char) : x # NULL
  BY InputsAssumption
<1>3. a.bytes \in [1..16 -> 0..255]
  BY DEF AnObject, AllBytes
<1>4. Meaning(b) = [version |-> b.version, bytes |-> [k \in 1..Bytes(b.version) |-> b.bytes[k]]]
  BY Zenon DEF Meaning
<1> HIDE DEF b
<1>5. CASE l \in IPv4Literals
  <2>1. /\ t \in Seq(Char) /\ ipv4_is_valid(t)
        /\ ipv4_from_address(a.bytes, t) =
             [k \in 1..16 |-> IF k <= 4 THEN Numeral(l.head[k], 10) ELSE (a.bytes)[k]]
        /\ Means(l) = [version |-> "IPv4", bytes |-> [k \in 1..4 |-> Numeral(l.head[k], 10)]]
    BY <1>3, <1>5, IPv4Text, Zenon
  <2> HIDE DEF t
  <2>2. b.version = "IPv4" /\ b.bytes = ipv4_from_address(a.bytes, t)
    BY <1>1, <1>2, <2>1, Zenon
  <2>3. Bytes("IPv4") = 4
    BY DEF Bytes, NSAPI_IPv4_BYTES
  <2>4. \A k \in 1..4 : b.bytes[k] = Numeral(l.head[k], 10)
    BY <2>1, <2>2
  <2>5. [k \in 1..4 |-> b.bytes[k]] = [k \in 1..4 |-> Numeral(l.head[k], 10)]
    BY <2>4
  <2>6. Meaning(b) = Means(l)
    BY <2>1, <2>2, <2>3, <2>5, <1>4, Zenon
  <2> QED BY <2>1, <2>6, Zenon DEF b, t, NeedsDNS
<1>6. CASE l \in IPv6Literals
  <2>1. /\ t \in Seq(Char) /\ ~ipv4_is_valid(t) /\ ipv6_is_valid(t)
        /\ ~Lopsided(l) => ipv6_from_address(t) = FlippedBytes(Filled(l.head, l.tail))
        /\ Means(l) = [version |-> "IPv6", bytes |-> FlippedBytes(Filled(l.head, l.tail))]
    BY <1>6, IPv6Text, Zenon
  <2> HIDE DEF t
  <2>2. b.version = "IPv6" /\ b.bytes = ipv6_from_address(t)
    BY <1>1, <1>2, <2>1, Zenon
  <2>3. Bytes("IPv6") = 16
    BY DEF Bytes, NSAPI_IPv6_BYTES
  <2>4. b.bytes \in AllBytes
    BY <2>1, <2>2, IPv6Type, Zenon
  <2>5. [k \in 1..16 |-> b.bytes[k]] = b.bytes
    BY <2>4 DEF AllBytes
  <2>6. ~Lopsided(l) => Meaning(b) = Means(l)
    BY <2>1, <2>2, <2>3, <2>5, <1>4, Zenon
  <2> QED BY <2>1, <2>6, Zenon DEF b, t, NeedsDNS
<1> QED BY <1>5, <1>6, LiteralsAssumption

(* The text that get_ip_address prints gives the address it was printed     *)
(* from.                                                                    *)
Printed(a) ==
  a.text # <<>> =>
    \/ a.version = "IPv4" /\ a.text = ipv4_to_address(a.bytes)
    \/ a.version = "IPv6" /\ a.text = ipv6_to_address(a.bytes)

(* An object whose text get_ip_address printed keeps its meaning when it   *)
(* is set from that text.                                                  *)
LEMMA PrintedParses ==
  ASSUME NEW a, AnObject(a), Printed(a), a.text # <<>>
  PROVE Meaning(set_ip_address(a, a.text)) = Meaning(a)
<1> DEFINE t == a.text
           b == set_ip_address(a, t)
<1>1. b.version = (IF t # NULL /\ ~ipv4_is_valid(t) /\ ipv6_is_valid(t) THEN "IPv6" ELSE "IPv4")
      /\ b.bytes = IF t = NULL THEN ClearIPv4(a.bytes)
                   ELSE IF ipv4_is_valid(t) THEN ipv4_from_address(a.bytes, t)
                   ELSE IF ipv6_is_valid(t) THEN ipv6_from_address(t)
                   ELSE ClearIPv4(a.bytes)
  BY SetAddress, Zenon
<1>2. \A x \in Seq(Char) : x # NULL
  BY InputsAssumption
<1>3. a.bytes \in AllBytes
  BY DEF AnObject
<1>4. /\ Meaning(b) = [version |-> b.version, bytes |-> [k \in 1..Bytes(b.version) |-> b.bytes[k]]]
      /\ Meaning(a) = [version |-> a.version, bytes |-> [k \in 1..Bytes(a.version) |-> a.bytes[k]]]
  BY Zenon DEF Meaning
<1> HIDE DEF b
<1>5. CASE a.version = "IPv4" /\ t = ipv4_to_address(a.bytes)
  <2>1. /\ t \in Seq(Char) /\ ipv4_is_valid(t)
        /\ ipv4_from_address(a.bytes, t) = [k \in 1..16 |-> IF k <= 4 THEN (a.bytes)[k] ELSE (a.bytes)[k]]
    BY <1>3, <1>5, IPv4Printed, Zenon
  <2>2. b.version = "IPv4" /\ b.bytes = ipv4_from_address(a.bytes, t)
    BY <1>1, <1>2, <2>1, Zenon
  <2>3. ipv4_from_address(a.bytes, t) = a.bytes
    BY <1>3, <2>1 DEF AllBytes
  <2> QED BY <1>4, <1>5, <2>2, <2>3, Zenon DEF b
<1>6. CASE a.version = "IPv6" /\ t = ipv6_to_address(a.bytes)
  <2>1. /\ t \in Seq(Char) /\ ~ipv4_is_valid(t) /\ ipv6_is_valid(t)
        /\ ipv6_from_address(t) = a.bytes
    BY <1>3, <1>6, IPv6Printed, Zenon
  <2>2. b.version = "IPv6" /\ b.bytes = a.bytes
    BY <1>1, <1>2, <2>1, Zenon
  <2> QED BY <1>4, <1>6, <2>2, Zenon DEF b
<1> QED BY <1>5, <1>6 DEF Printed

(* set_ip_bytes makes an object with no cached text and the port it had.   *)
LEMMA BytesSet ==
  ASSUME NEW a, AnObject(a), NEW raw, raw.bytes \in AllBytes
  PROVE LET b == set_ip_bytes(a, raw) IN
        AnObject(b) /\ b.text = <<>> /\ b.port = a.port
<1> DEFINE v == IF a.version = "IPv6" THEN "IPv6" ELSE "IPv4"
           n == Bytes(a.version)
           copied == [k \in DOMAIN a.bytes |-> IF k <= n THEN (raw.bytes)[k] ELSE (a.bytes)[k]]
           bytes == IF a.version \notin {"IPv4", "IPv6"} THEN ClearIPv4(a.bytes) ELSE copied
           b == set_ip_bytes(a, raw)
<1>1. /\ a = [version |-> a.version, bytes |-> a.bytes, text |-> a.text, port |-> a.port]
      /\ a.bytes \in AllBytes
  BY DEF AnObject
<1>2. copied \in AllBytes
  <2> HIDE DEF n
  <2> QED BY <1>1 DEF AllBytes
<1>3. bytes \in AllBytes
  <2> HIDE DEF copied
  <2> QED BY <1>1, <1>2, ClearedType, Zenon
<1>4. b = [a EXCEPT !.text = <<>>, !.version = v, !.bytes = bytes]
  BY DEF set_ip_bytes, dropped_text
<1> HIDE DEF v, bytes, b, copied, n
<1>5. b = [version |-> v, bytes |-> bytes, text |-> <<>>, port |-> a.port]
  BY <1>1, <1>4
<1>6. /\ b = [version |-> b.version, bytes |-> b.bytes, text |-> b.text, port |-> b.port]
      /\ b.text = <<>> /\ b.port = a.port /\ b.bytes = bytes /\ <<>> \in Seq(Char)
  BY <1>5
<1>7. AnObject(b)
  BY <1>3, <1>6, Zenon DEF AnObject
<1> QED BY <1>6, <1>7, Zenon DEF b

(* set_port changes the port only.                                         *)
LEMMA PortSet ==
  ASSUME NEW a, AnObject(a), NEW p
  PROVE LET b == set_port(a, p) IN
        AnObject(b) /\ b.version = a.version /\ b.bytes = a.bytes /\ b.text = a.text /\ b.port = p
<1> DEFINE b == set_port(a, p)
<1>1. /\ a = [version |-> a.version, bytes |-> a.bytes, text |-> a.text, port |-> a.port]
      /\ a.bytes \in AllBytes /\ a.text \in Seq(Char)
  BY DEF AnObject
<1>2. b = [a EXCEPT !.port = p]
  BY DEF set_port
<1> HIDE DEF b
<1>3. b = [version |-> a.version, bytes |-> a.bytes, text |-> a.text, port |-> p]
  BY <1>1, <1>2
<1>4. /\ b.version = a.version /\ b.bytes = a.bytes /\ b.text = a.text /\ b.port = p
      /\ b = [version |-> b.version, bytes |-> b.bytes, text |-> b.text, port |-> b.port]
  BY <1>3
<1> QED BY <1>1, <1>4, Zenon DEF b, AnObject

(* get_ip_address changes the cached text only, and what it puts there is  *)
(* printed from the bytes.                                                 *)
LEMMA TextGot ==
  ASSUME NEW a, AnObject(a)
  PROVE LET b == get_ip_address(a) IN
        /\ AnObject(b) /\ b.version = a.version /\ b.bytes = a.bytes /\ b.port = a.port
        /\ Printed(a) => Printed(b)
<1> DEFINE b == get_ip_address(a)
           t == IF a.text # <<>> THEN a.text
                ELSE CASE a.version = "IPv4" -> ipv4_to_address(a.bytes)
                       [] a.version = "IPv6" -> ipv6_to_address(a.bytes)
                       [] OTHER -> a.text
<1>1. /\ a = [version |-> a.version, bytes |-> a.bytes, text |-> a.text, port |-> a.port]
      /\ a.bytes \in AllBytes /\ a.text \in Seq(Char)
  BY DEF AnObject
<1>2. b = [a EXCEPT !.text = t]
  BY DEF get_ip_address
<1>3. ipv4_to_address(a.bytes) \in Seq(Char) /\ ipv6_to_address(a.bytes) \in Seq(Char)
  BY <1>1, IPv4Printed, IPv6Printed, Zenon
<1>4. t \in Seq(Char)
  BY <1>1, <1>3, Zenon
<1>5. Printed(a) =>
        (t # <<>> => \/ a.version = "IPv4" /\ t = ipv4_to_address(a.bytes)
                     \/ a.version = "IPv6" /\ t = ipv6_to_address(a.bytes))
  <2>1. "IPv4" # "IPv6"
    OBVIOUS
  <2> QED BY <2>1, Zenon DEF Printed
<1> HIDE DEF b, t
<1>6. b = [version |-> a.version, bytes |-> a.bytes, text |-> t, port |-> a.port]
  BY <1>1, <1>2
<1>7. /\ b.version = a.version /\ b.bytes = a.bytes /\ b.text = t /\ b.port = a.port
      /\ b = [version |-> b.version, bytes |-> b.bytes, text |-> b.text, port |-> b.port]
  BY <1>6
<1>8. Printed(a) => Printed(b)
  BY <1>5, <1>7, Zenon DEF Printed
<1> QED BY <1>1, <1>4, <1>7, <1>8, Zenon DEF b, AnObject

(* An object's meaning is that of its version and its bytes.               *)
LEMMA SameAddress ==
  ASSUME NEW a, NEW b, b.version = a.version, b.bytes = a.bytes
  PROVE Meaning(b) = Meaning(a) /\ (NonZero(b) <=> NonZero(a))
BY Zenon DEF Meaning, NonZero

(* A lookup that failed leaves the zero address and port 0.                *)
LEMMA NoAddress ==
  ASSUME NEW a, AnObject(a)
  PROVE LET b == no_address(a) IN
        AnObject(b) /\ b.port = 0 /\ ~NonZero(b)
<1> DEFINE b == no_address(a)
           bytes == ClearIPv4(a.bytes)
<1>1. /\ a = [version |-> a.version, bytes |-> a.bytes, text |-> a.text, port |-> a.port]
      /\ a.bytes \in AllBytes /\ a.text \in Seq(Char)
  BY DEF AnObject
<1>2. b = [a EXCEPT !.version = "IPv4", !.bytes = bytes, !.port = 0]
  BY DEF no_address
<1>3. bytes \in AllBytes /\ \A k \in 1..4 : bytes[k] = 0
  BY <1>1, ClearedType
<1> HIDE DEF b, bytes
<1>4. b = [version |-> "IPv4", bytes |-> bytes, text |-> a.text, port |-> 0]
  BY <1>1, <1>2
<1>5. /\ b.version = "IPv4" /\ b.bytes = bytes /\ b.text = a.text /\ b.port = 0
      /\ b = [version |-> b.version, bytes |-> b.bytes, text |-> b.text, port |-> b.port]
  BY <1>4
<1>6. ~NonZero(b)
  BY <1>3, <1>5 DEF NonZero, Bytes, NSAPI_IPv4_BYTES
<1> QED BY <1>1, <1>3, <1>5, <1>6, Zenon DEF b, AnObject

(* The constructor with a host that is a literal makes an object.          *)
LEMMA LiteralHost ==
  ASSUME NEW a, AnObject(a), NEW host \in Seq(Char), ~NeedsDNS(host), NEW p, NEW answer
  PROVE AnObject(FromHost(a, host, p, answer))
<1> DEFINE b == FromHost(a, host, p, answer)
           v == IF ipv4_is_valid(host) THEN "IPv4" ELSE "IPv6"
           bytes == ipv4_from_address(a.bytes, host)
<1>1. /\ a = [version |-> a.version, bytes |-> a.bytes, text |-> a.text, port |-> a.port]
      /\ a.bytes \in AllBytes /\ a.text \in Seq(Char)
  BY DEF AnObject
<1>2. bytes \in AllBytes
  BY <1>1, IPv4Type
<1>3. b = [a EXCEPT !.version = v, !.bytes = bytes]
  BY DEF FromHost, NeedsDNS
<1> HIDE DEF b, v, bytes
<1>4. b = [version |-> v, bytes |-> bytes, text |-> a.text, port |-> a.port]
  BY <1>1, <1>3
<1>5. /\ b.bytes = bytes /\ b.text = a.text
      /\ b = [version |-> b.version, bytes |-> b.bytes, text |-> b.text, port |-> b.port]
  BY <1>4
<1> QED BY <1>1, <1>2, <1>5, Zenon DEF b, AnObject

-----------------------------------------------------------------------------
(* The invariant of the objects.                                           *)

(* A request.                                                              *)
IsAsked(q) ==
  /\ q = [by |-> q.by, literal |-> q.literal, port |-> q.port]
  /\ q.literal \in Literals \cup {NULL}

(* What an object a is, after the request q, in a call that came to c.      *)
TextKept(a, q) ==
  (q.by \notin {"nobody", "literal"} /\ ~(q.by = "dns" /\ q.literal = NULL)) => Printed(a)
TextMeant(a, q) ==
  (q.by = "text" /\ q.literal # NULL /\ ~Lopsided(q.literal)) => Meaning(a) = Means(q.literal)
LookedUp(a, q, c) ==
  (q.by = "dns" /\ (q.literal # NULL => ~Lopsided(q.literal))) =>
    /\ a.port = q.port
    /\ IF q.literal = NULL THEN c # "stack" /\ ~NonZero(a)
       ELSE /\ Meaning(a) = Means(q.literal)
            /\ c = "stack" => NonZero(a)
            /\ c = "DNS_FAILURE" => ~NonZero(a)
Good(a, q, c) == AnObject(a) /\ IsAsked(q) /\ TextKept(a, q) /\ TextMeant(a, q) /\ LookedUp(a, q, c)

(* The inductive invariant.                                                 *)
ObjectsInv ==
  /\ obj = [o \in Objects |-> obj[o]]
  /\ asked = [o \in Objects |-> asked[o]]
  /\ called = [o \in Objects |-> called[o]]
  /\ \A o \in Objects : Good(obj[o], asked[o], called[o])

(* Memory before a constructor holds some version, bytes, text and port.   *)
LEMMA JunkObjects == \A a \in Junk : AnObject(a)
BY InputsAssumption DEF AnObject, AllBytes, NSAPI_IPv6_BYTES

(* The inductive invariant holds initially: no object has been             *)
(* constructed.                                                            *)
LEMMA InvInit == Init => ObjectsInv
<1> SUFFICES ASSUME Init PROVE ObjectsInv
  OBVIOUS
<1>1. /\ obj \in [Objects -> Junk]
      /\ called = [o \in Objects |-> "no"]
      /\ asked = [o \in Objects |-> [by |-> "nobody", literal |-> NULL, port |-> 0]]
  BY DEF Init
<1>2. \A a \in Junk : AnObject(a)
  BY JunkObjects
<1>3. ASSUME NEW o \in Objects PROVE Good(obj[o], asked[o], called[o])
  <2> DEFINE q == asked[o]
             a == obj[o]
  <2>1. AnObject(a)
    BY <1>1, <1>2
  <2>2. q = [by |-> "nobody", literal |-> NULL, port |-> 0]
    BY <1>1
  <2> HIDE DEF q, a
  <2>3. q.by = "nobody" /\ q.literal = NULL /\ q = [by |-> q.by, literal |-> q.literal, port |-> q.port]
    BY <2>2
  <2>4. IsAsked(q)
    BY <2>3, Zenon DEF IsAsked
  <2>5. TextKept(a, q) /\ TextMeant(a, q) /\ LookedUp(a, q, called[o])
    <3>1. q.by # "dns" /\ q.by # "text" /\ q.by \in {"nobody", "literal"}
      BY <2>3
    <3> QED BY <3>1, Zenon DEF TextKept, TextMeant, LookedUp
  <2> QED BY <2>1, <2>4, <2>5, Zenon DEF Good, a, q
<1>4. /\ obj = [o \in Objects |-> obj[o]]
      /\ asked = [o \in Objects |-> asked[o]]
      /\ called = [o \in Objects |-> called[o]]
  BY <1>1
<1> QED BY <1>3, <1>4 DEF ObjectsInv

(* A step that changes one object keeps the invariant when what it leaves  *)
(* there is good.                                                          *)
LEMMA InvStep ==
  ASSUME ObjectsInv, NEW o \in Objects, NEW a, NEW q, NEW c, Good(a, q, c),
         obj' = [obj EXCEPT ![o] = a], asked' = [asked EXCEPT ![o] = q], called' = [called EXCEPT ![o] = c]
  PROVE ObjectsInv'
<1>1. /\ obj' = [x \in Objects |-> obj'[x]]
      /\ asked' = [x \in Objects |-> asked'[x]]
      /\ called' = [x \in Objects |-> called'[x]]
  BY DEF ObjectsInv
<1>2. ASSUME NEW x \in Objects PROVE Good(obj'[x], asked'[x], called'[x])
  <2>1. CASE x = o
    <3>1. obj'[x] = a /\ asked'[x] = q /\ called'[x] = c
      BY <2>1 DEF ObjectsInv
    <3> QED BY <3>1, Zenon
  <2>2. CASE x # o
    <3>1. obj'[x] = obj[x] /\ asked'[x] = asked[x] /\ called'[x] = called[x]
      BY <2>2 DEF ObjectsInv
    <3>2. Good(obj[x], asked[x], called[x])
      BY Zenon DEF ObjectsInv
    <3> QED BY <3>1, <3>2, Zenon
  <2> QED BY <2>1, <2>2
<1> QED BY <1>1, <1>2, Zenon DEF ObjectsInv

(* The fields of a request.                                                *)
LEMMA AskedFor ==
  ASSUME NEW by, NEW literal \in Literals \cup {NULL}, NEW p
  PROVE LET q == [by |-> by, literal |-> literal, port |-> p] IN
        IsAsked(q) /\ q.by = by /\ q.literal = literal /\ q.port = p
BY DEF IsAsked

(* An object whose text has been dropped is good when its address is what  *)
(* was asked for.                                                          *)
LEMMA GoodText ==
  ASSUME NEW a, AnObject(a), NEW q, IsAsked(q), NEW c, a.text = <<>>, q.by = "text", TextMeant(a, q)
  PROVE Good(a, q, c)
<1>1. "text" # "dns"
  OBVIOUS
<1> QED BY <1>1, Zenon DEF Good, TextKept, LookedUp, Printed

(* An object made from bytes is good when its text has been dropped.       *)
LEMMA GoodBytes ==
  ASSUME NEW a, AnObject(a), NEW q, IsAsked(q), NEW c, a.text = <<>>, q.by = "bytes"
  PROVE Good(a, q, c)
<1>1. "bytes" # "dns" /\ "bytes" # "text"
  OBVIOUS
<1> QED BY <1>1, Zenon DEF Good, TextKept, TextMeant, LookedUp, Printed

(* A caller passes no text, the text of a literal with that literal, or    *)
(* another text.                                                           *)
LEMMA Inputs ==
  ASSUME NEW in \in Texts \cup {NoText}
  PROVE /\ in.literal \in Literals \cup {NULL} /\ (in.text = NULL \/ in.text \in Seq(Char))
        /\ in.literal # NULL => in.literal \in Literals /\ in.text = Text(in.literal)
        /\ in # NoText => in.text \in Seq(Char)
<1>1. CASE in = NoText
  BY <1>1 DEF NoText
<1>2. CASE in \in OtherInputs
  BY <1>2, InputsAssumption DEF OtherInputs
<1>3. CASE in \in LiteralInputs
  <2>1. PICK l \in Literals : in = [text |-> Text(l), literal |-> l]
    BY <1>3 DEF LiteralInputs
  <2>2. in.literal = l /\ in.text = Text(l)
    BY <2>1
  <2>3. PICK a : AnObject(a)
    <3> DEFINE b == [version |-> "IPv4", bytes |-> [k \in 1..16 |-> 0], text |-> <<>>, port |-> 0]
    <3>1. AnObject(b)
      BY DEF AnObject, AllBytes
    <3> QED BY <3>1
  <2>4. Text(l) \in Seq(Char)
    BY <2>3, LiteralSet
  <2> QED BY <2>2, <2>4
<1> QED BY <1>1, <1>2, <1>3 DEF Texts

(* An object set from a text is good.                                      *)
LEMMA TextAsked ==
  ASSUME NEW a, AnObject(a), NEW in \in Texts \cup {NoText}, NEW p, NEW c, NEW b,
         AnObject(b), b.text = <<>>, Meaning(b) = Meaning(set_ip_address(a, in.text))
  PROVE Good(b, [by |-> "text", literal |-> in.literal, port |-> p], c)
<1> DEFINE q == [by |-> "text", literal |-> in.literal, port |-> p]
<1>1. /\ in.literal \in Literals \cup {NULL}
      /\ in.literal # NULL => in.literal \in Literals /\ in.text = Text(in.literal)
  BY Inputs, Zenon
<1>2. IsAsked(q) /\ q.by = "text" /\ q.literal = in.literal
  BY <1>1, AskedFor, Zenon
<1> HIDE DEF q
<1>3. TextMeant(b, q)
  BY <1>1, <1>2, LiteralSet, Zenon DEF TextMeant
<1>4. Good(b, q, c)
  BY <1>2, <1>3, GoodText, Zenon
<1> QED BY <1>4 DEF q

(* The constructor from a text keeps the invariant.                        *)
LEMMA TextConstructorStep == ASSUME ObjectsInv, text_constructor PROVE ObjectsInv'
<1>1. PICK o \in Objects, a \in Junk, in \in Texts \cup {NoText}, p \in Ports :
        /\ Becomes(o, set_port(set_ip_address(a, in.text), p), "text", in.literal, p)
        /\ NoCall(o)
  BY Zenon DEF text_constructor
<1> DEFINE m == set_ip_address(a, in.text)
           b == set_port(m, p)
           q == [by |-> "text", literal |-> in.literal, port |-> p]
<1>2. AnObject(a) /\ (in.text = NULL \/ in.text \in Seq(Char))
  BY JunkObjects, Inputs, Zenon
<1>3. AnObject(m) /\ m.text = <<>>
  BY <1>2, AddressSet, Zenon
<1>4. AnObject(b) /\ b.version = m.version /\ b.bytes = m.bytes /\ b.text = m.text
  BY <1>3, PortSet, Zenon
<1>5. Meaning(b) = Meaning(m) /\ b.text = <<>>
  BY <1>3, <1>4, SameAddress, Zenon
<1>6. Good(b, q, "no")
  BY <1>2, <1>4, <1>5, TextAsked, Zenon
<1>7. obj' = [obj EXCEPT ![o] = b] /\ asked' = [asked EXCEPT ![o] = q] /\ called' = [called EXCEPT ![o] = "no"]
  BY <1>1, Zenon DEF Becomes, NoCall
<1> HIDE DEF b, q
<1> QED BY <1>6, <1>7, InvStep, Zenon

(* An object set from bytes is good.                                       *)
LEMMA BytesAsked ==
  ASSUME NEW b, AnObject(b), b.text = <<>>, NEW p, NEW c
  PROVE Good(b, [by |-> "bytes", literal |-> NULL, port |-> p], c)
<1> DEFINE q == [by |-> "bytes", literal |-> NULL, port |-> p]
<1>1. NULL \in Literals \cup {NULL}
  OBVIOUS
<1>2. IsAsked(q) /\ q.by = "bytes"
  BY <1>1, AskedFor, Zenon
<1> HIDE DEF q
<1>3. Good(b, q, c)
  BY <1>2, GoodBytes, Zenon
<1> QED BY <1>3 DEF q

(* A constructor from bytes, a copy's included, keeps the invariant.       *)
LEMMA BytesMade ==
  ASSUME ObjectsInv, NEW o \in Objects, NEW a, AnObject(a), NEW raw, raw.bytes \in AllBytes, NEW p,
         Becomes(o, set_port(set_ip_bytes(a, raw), p), "bytes", NULL, p), NoCall(o)
  PROVE ObjectsInv'
<1> DEFINE m == set_ip_bytes(a, raw)
           b == set_port(m, p)
           q == [by |-> "bytes", literal |-> NULL, port |-> p]
<1>1. AnObject(m) /\ m.text = <<>>
  BY BytesSet, Zenon
<1>2. AnObject(b) /\ b.text = m.text
  BY <1>1, PortSet, Zenon
<1>3. Good(b, q, "no")
  BY <1>1, <1>2, BytesAsked, Zenon
<1>4. obj' = [obj EXCEPT ![o] = b] /\ asked' = [asked EXCEPT ![o] = q] /\ called' = [called EXCEPT ![o] = "no"]
  BY Zenon DEF Becomes, NoCall
<1> HIDE DEF b, q
<1> QED BY <1>3, <1>4, InvStep, Zenon

(* The addresses that callers pass have sixteen bytes.                     *)
LEMMA RawAddresses == \A raw \in Addresses : raw.bytes \in AllBytes
BY InputsAssumption DEF AllBytes, NSAPI_IPv6_BYTES

(* The constructor from bytes keeps the invariant.                         *)
LEMMA BytesConstructorStep == ASSUME ObjectsInv, bytes_constructor PROVE ObjectsInv'
<1>1. PICK o \in Objects, a \in Junk, raw \in Addresses, p \in Ports :
        Becomes(o, set_port(set_ip_bytes(a, raw), p), "bytes", NULL, p) /\ NoCall(o)
  BY Zenon DEF bytes_constructor
<1> QED BY <1>1, JunkObjects, RawAddresses, BytesMade, Zenon

(* The copy constructor keeps the invariant.                               *)
LEMMA CopyConstructorStep == ASSUME ObjectsInv, copy_constructor PROVE ObjectsInv'
<1>1. PICK o \in Objects, a \in Junk, from \in Constructed :
        /\ Becomes(o, set_port(set_ip_bytes(a, obj[from]), obj[from].port), "bytes", NULL, obj[from].port)
        /\ NoCall(o)
  BY Zenon DEF copy_constructor
<1>2. from \in Objects
  BY DEF Constructed
<1>3. obj[from].bytes \in AllBytes
  BY <1>2, Zenon DEF ObjectsInv, Good, AnObject
<1> QED BY <1>1, <1>3, JunkObjects, BytesMade, Zenon

(* An object that has been constructed is good.                            *)
LEMMA ConstructedGood ==
  ASSUME ObjectsInv, NEW o \in Constructed
  PROVE o \in Objects /\ Good(obj[o], asked[o], called[o]) /\ AnObject(obj[o])
<1>1. o \in Objects
  BY DEF Constructed
<1> QED BY <1>1, Zenon DEF ObjectsInv, Good

(* set_ip_address and set_ip_bytes keep the invariant.                     *)
LEMMA ChangeAddressStep == ASSUME ObjectsInv, ChangeAddress PROVE ObjectsInv'
<1>1. PICK o \in Constructed :
        /\ \/ \E in \in Texts \cup {NoText} :
                Becomes(o, set_ip_address(obj[o], in.text), "text", in.literal, asked[o].port)
           \/ \E raw \in Addresses :
                Becomes(o, set_ip_bytes(obj[o], raw), "bytes", NULL, asked[o].port)
        /\ NoCall(o)
  BY Zenon DEF ChangeAddress
<1> DEFINE a == obj[o]
           p == asked[o].port
<1>2. o \in Objects /\ AnObject(a)
  BY ConstructedGood, Zenon
<1>3. called' = [called EXCEPT ![o] = "no"]
  BY <1>1, Zenon DEF NoCall
<1>4. ASSUME NEW in \in Texts \cup {NoText}, Becomes(o, set_ip_address(a, in.text), "text", in.literal, p)
      PROVE ObjectsInv'
  <2> DEFINE b == set_ip_address(a, in.text)
             q == [by |-> "text", literal |-> in.literal, port |-> p]
  <2>1. in.text = NULL \/ in.text \in Seq(Char)
    BY Inputs, Zenon
  <2>2. AnObject(b) /\ b.text = <<>>
    BY <2>1, <1>2, AddressSet, Zenon
  <2>3. Good(b, q, "no")
    BY <2>2, <1>2, TextAsked, Zenon
  <2>4. obj' = [obj EXCEPT ![o] = b] /\ asked' = [asked EXCEPT ![o] = q]
    BY <1>4, Zenon DEF Becomes
  <2> HIDE DEF b, q
  <2> QED BY <2>3, <2>4, <1>2, <1>3, InvStep, Zenon
<1>5. ASSUME NEW raw \in Addresses, Becomes(o, set_ip_bytes(a, raw), "bytes", NULL, p)
      PROVE ObjectsInv'
  <2> DEFINE b == set_ip_bytes(a, raw)
             q == [by |-> "bytes", literal |-> NULL, port |-> p]
  <2>1. AnObject(b) /\ b.text = <<>>
    BY <1>2, RawAddresses, BytesSet, Zenon
  <2>2. Good(b, q, "no")
    BY <2>1, BytesAsked, Zenon
  <2>3. obj' = [obj EXCEPT ![o] = b] /\ asked' = [asked EXCEPT ![o] = q]
    BY <1>5, Zenon DEF Becomes
  <2> HIDE DEF b, q
  <2> QED BY <2>2, <2>3, <1>2, <1>3, InvStep, Zenon
<1> QED BY <1>1, <1>4, <1>5, Zenon

(* set_port keeps the invariant: the request is then for the new port.     *)
LEMMA ChangePortStep == ASSUME ObjectsInv, ChangePort PROVE ObjectsInv'
<1>1. PICK o \in Constructed, p \in Ports :
        /\ obj' = [obj EXCEPT ![o] = set_port(@, p)]
        /\ asked' = [asked EXCEPT ![o].port = p]
        /\ NoCall(o)
  BY Zenon DEF ChangePort
<1> DEFINE a == obj[o]
           q == asked[o]
           b == set_port(a, p)
           r == [q EXCEPT !.port = p]
<1>2. o \in Objects /\ Good(a, q, called[o]) /\ AnObject(a)
  BY ConstructedGood, Zenon
<1>3. AnObject(b) /\ b.version = a.version /\ b.bytes = a.bytes /\ b.text = a.text /\ b.port = p
  BY <1>2, PortSet, Zenon
<1>4. Meaning(b) = Meaning(a) /\ (NonZero(b) <=> NonZero(a))
  BY <1>3, SameAddress, Zenon
<1>5. q = [by |-> q.by, literal |-> q.literal, port |-> q.port] /\ q.literal \in Literals \cup {NULL}
  BY <1>2, Zenon DEF Good, IsAsked
<1>6. obj' = [obj EXCEPT ![o] = b] /\ asked' = [asked EXCEPT ![o] = r]
  <2> HIDE <1>5
  <2> QED BY <1>1
<1>7. called' = [called EXCEPT ![o] = "no"]
  BY <1>1, Zenon DEF NoCall
<1>8. TextKept(a, q) /\ TextMeant(a, q) /\ LookedUp(a, q, called[o])
  BY <1>2, Zenon DEF Good
<1> HIDE DEF a, q, b
<1>9. r.by = q.by /\ r.literal = q.literal /\ r.port = p /\ r = [by |-> r.by, literal |-> r.literal, port |-> r.port]
  BY <1>5
<1> HIDE DEF r
<1>10. IsAsked(r)
  BY <1>5, <1>9, Zenon DEF IsAsked
<1>11. TextKept(b, r)
  BY <1>3, <1>8, <1>9, Zenon DEF TextKept, Printed
<1>12. TextMeant(b, r)
  BY <1>4, <1>8, <1>9, Zenon DEF TextMeant
<1>13. LookedUp(b, r, "no")
  <2>1. "no" # "stack" /\ "no" # "DNS_FAILURE"
    OBVIOUS
  <2> QED BY <2>1, <1>3, <1>4, <1>8, <1>9, Zenon DEF LookedUp
<1>14. Good(b, r, "no")
  BY <1>3, <1>10, <1>11, <1>12, <1>13, Zenon DEF Good
<1> QED BY <1>2, <1>6, <1>7, <1>14, InvStep, Zenon

(* get_ip_address keeps the invariant: it caches a text of the object's    *)
(* own bytes.                                                              *)
LEMMA ReadStep == ASSUME ObjectsInv, Read PROVE ObjectsInv'
<1>1. PICK o \in Constructed :
        obj' = [obj EXCEPT ![o] = get_ip_address(@)] /\ UNCHANGED <<called, asked>>
  BY Zenon DEF Read
<1> DEFINE a == obj[o]
           q == asked[o]
           c == called[o]
           b == get_ip_address(a)
<1>2. o \in Objects /\ Good(a, q, c) /\ AnObject(a)
  BY ConstructedGood, Zenon
<1>3. /\ AnObject(b) /\ b.version = a.version /\ b.bytes = a.bytes /\ b.port = a.port
      /\ Printed(a) => Printed(b)
  BY <1>2, TextGot, Zenon
<1>4. Meaning(b) = Meaning(a) /\ (NonZero(b) <=> NonZero(a))
  BY <1>3, SameAddress, Zenon
<1>5. obj' = [obj EXCEPT ![o] = b] /\ asked' = [asked EXCEPT ![o] = q] /\ called' = [called EXCEPT ![o] = c]
  <2>1. asked = [x \in Objects |-> asked[x]] /\ called = [x \in Objects |-> called[x]]
    BY Zenon DEF ObjectsInv
  <2>2. asked = [asked EXCEPT ![o] = asked[o]] /\ called = [called EXCEPT ![o] = called[o]]
    BY <2>1
  <2>3. obj' = [obj EXCEPT ![o] = b] /\ asked' = asked /\ called' = called
    BY <1>1
  <2> QED BY <2>2, <2>3, Zenon
<1>6. IsAsked(q) /\ TextKept(a, q) /\ TextMeant(a, q) /\ LookedUp(a, q, c)
  BY <1>2, Zenon DEF Good
<1> HIDE DEF a, q, b, c
<1>7. TextKept(b, q) /\ TextMeant(b, q)
  BY <1>3, <1>4, <1>6, Zenon DEF TextKept, TextMeant
<1>8. LookedUp(b, q, c)
  BY <1>3, <1>4, <1>6, Zenon DEF LookedUp
<1>9. Good(b, q, c)
  BY <1>3, <1>6, <1>7, <1>8, Zenon DEF Good
<1> QED BY <1>2, <1>5, <1>9, InvStep, Zenon

(* The constructor with a name that was looked up makes the answer's       *)
(* address with the caller's port.                                         *)
LEMMA Answered ==
  ASSUME NEW a, AnObject(a), NEW l \in Literals, NEW host, NeedsDNS(host), NEW p
  PROVE LET b == FromHost(a, host, p, Text(l)) IN
        /\ AnObject(b) /\ b.text = <<>> /\ b.port = p
        /\ ~Lopsided(l) => Meaning(b) = Means(l)
<1> DEFINE m == set_ip_address(a, Text(l))
           b == set_port(m, p)
<1>1. Text(l) \in Seq(Char) /\ (~Lopsided(l) => Meaning(m) = Means(l))
  BY LiteralSet, Zenon
<1>2. Text(l) # NULL
  BY <1>1, InputsAssumption
<1>3. FromHost(a, host, p, Text(l)) = b
  BY <1>2, Zenon DEF FromHost, NeedsDNS, gethostbyname
<1>4. AnObject(m) /\ m.text = <<>>
  BY <1>1, AddressSet, Zenon
<1>5. AnObject(b) /\ b.version = m.version /\ b.bytes = m.bytes /\ b.text = m.text /\ b.port = p
  BY <1>4, PortSet, Zenon
<1>6. Meaning(b) = Meaning(m)
  BY <1>5, SameAddress, Zenon
<1> QED BY <1>1, <1>3, <1>4, <1>5, <1>6, Zenon

(* The constructor with a name that was not found makes the zero address.  *)
LEMMA Unanswered ==
  ASSUME NEW a, AnObject(a), NEW host, NeedsDNS(host), NEW p
  PROVE LET b == FromHost(a, host, p, NULL) IN
        AnObject(b) /\ b.port = 0 /\ ~NonZero(b)
<1>1. FromHost(a, host, p, NULL) = no_address(a)
  BY Zenon DEF FromHost, NeedsDNS
<1> QED BY <1>1, NoAddress, Zenon

(* connect and sendto go on to the stack only with an address that is not  *)
(* zero.                                                                   *)
LEMMA PassedOnIs ==
  ASSUME NEW b
  PROVE /\ PassedOn(b) = "stack" => NonZero(b)
        /\ PassedOn(b) = "DNS_FAILURE" => ~NonZero(b)
        /\ ~NonZero(b) => PassedOn(b) # "stack"
<1>1. "stack" # "DNS_FAILURE"
  OBVIOUS
<1> QED BY <1>1, Zenon DEF PassedOn

(* What a lookup leaves is good.                                           *)
LEMMA GoodLookup ==
  ASSUME NEW b, AnObject(b), NEW q, IsAsked(q), q.by = "dns", b.port = q.port,
         q.literal = NULL => ~NonZero(b),
         q.literal # NULL => b.text = <<>>,
         (q.literal # NULL /\ ~Lopsided(q.literal)) => Meaning(b) = Means(q.literal)
  PROVE Good(b, q, PassedOn(b))
<1>1. "dns" # "text"
  OBVIOUS
<1>2. TextKept(b, q)
  BY Zenon DEF TextKept, Printed
<1>3. TextMeant(b, q)
  BY <1>1, Zenon DEF TextMeant
<1>4. LookedUp(b, q, PassedOn(b))
  BY PassedOnIs, Zenon DEF LookedUp
<1> QED BY <1>2, <1>3, <1>4, Zenon DEF Good

(* connect and sendto with a host keep the invariant.                      *)
LEMMA ConnectHostStep == ASSUME ObjectsInv, connect_host PROVE ObjectsInv'
<1>1. PICK o \in Objects, a \in Junk, host \in Texts, p \in Ports :
        \E answer \in IF NeedsDNS(host.text) THEN LiteralInputs \cup {NoText} ELSE {NoText} :
          LET made == FromHost(a, host.text, p, answer.text) IN
          /\ IF NeedsDNS(host.text)
             THEN Becomes(o, made, "dns", answer.literal, IF answer = NoText THEN 0 ELSE p)
             ELSE Becomes(o, made, "literal", host.literal, p)
          /\ called' = [called EXCEPT ![o] = PassedOn(made)]
  BY Zenon DEF connect_host
<1>2. PICK answer \in IF NeedsDNS(host.text) THEN LiteralInputs \cup {NoText} ELSE {NoText} :
        LET made == FromHost(a, host.text, p, answer.text) IN
        /\ IF NeedsDNS(host.text)
           THEN Becomes(o, made, "dns", answer.literal, IF answer = NoText THEN 0 ELSE p)
           ELSE Becomes(o, made, "literal", host.literal, p)
        /\ called' = [called EXCEPT ![o] = PassedOn(made)]
  BY <1>1, Zenon
<1> DEFINE b == FromHost(a, host.text, p, answer.text)
<1>3. AnObject(a)
  BY JunkObjects, Zenon
<1>4. NoText.text = NULL /\ NoText.literal = NULL
  BY DEF NoText
<1>5. CASE ~NeedsDNS(host.text)
  <2> DEFINE q == [by |-> "literal", literal |-> host.literal, port |-> p]
  <2>1. host # NoText => host.text \in Seq(Char)
    BY Inputs, Zenon
  <2>2. host # NoText
    <3>1. CASE host \in LiteralInputs
      <4>1. PICK l \in Literals : host = [text |-> Text(l), literal |-> l]
        BY <3>1 DEF LiteralInputs
      <4>2. host.literal = l
        BY <4>1
      <4>3. l # NULL
        BY InputsAssumption
      <4> QED BY <4>2, <4>3, <1>4
    <3>2. CASE host \in OtherInputs
      <4>1. PICK t \in OtherTexts : host = [text |-> t, literal |-> NULL]
        BY <3>2 DEF OtherInputs
      <4>2. host.text = t
        BY <4>1
      <4>3. t # NULL
        BY InputsAssumption
      <4> QED BY <4>2, <4>3, <1>4
    <3> QED BY <3>1, <3>2 DEF Texts
  <2>3. host.text \in Seq(Char) /\ host.literal \in Literals \cup {NULL}
    BY <2>1, <2>2, Inputs, Zenon
  <2>4. AnObject(b)
    BY <1>3, <1>5, <2>3, LiteralHost, Zenon
  <2>5. IsAsked(q) /\ q.by = "literal"
    BY <2>3, AskedFor, Zenon
  <2>6. obj' = [obj EXCEPT ![o] = b] /\ asked' = [asked EXCEPT ![o] = q]
        /\ called' = [called EXCEPT ![o] = PassedOn(b)]
    BY <1>2, <1>5, Zenon DEF Becomes
  <2> HIDE DEF b, q
  <2>7. "literal" # "dns" /\ "literal" # "text"
    OBVIOUS
  <2>8. Good(b, q, PassedOn(b))
    BY <2>4, <2>5, <2>7, Zenon DEF Good, TextKept, TextMeant, LookedUp
  <2> QED BY <2>6, <2>8, InvStep, Zenon
<1>6. CASE NeedsDNS(host.text) /\ answer = NoText
  <2> DEFINE q == [by |-> "dns", literal |-> NULL, port |-> 0]
  <2>1. NULL \in Literals \cup {NULL}
    OBVIOUS
  <2>2. IsAsked(q) /\ q.by = "dns" /\ q.literal = NULL /\ q.port = 0
    BY <2>1, AskedFor, Zenon
  <2>3. AnObject(b) /\ b.port = 0 /\ ~NonZero(b)
    BY <1>3, <1>4, <1>6, Unanswered, Zenon
  <2>4. obj' = [obj EXCEPT ![o] = b] /\ asked' = [asked EXCEPT ![o] = q]
        /\ called' = [called EXCEPT ![o] = PassedOn(b)]
    BY <1>2, <1>4, <1>6, Zenon DEF Becomes
  <2> HIDE DEF b, q
  <2>5. Good(b, q, PassedOn(b))
    BY <2>2, <2>3, GoodLookup, Zenon
  <2> QED BY <2>4, <2>5, InvStep, Zenon
<1>7. ASSUME NeedsDNS(host.text), NEW l \in Literals, answer = [text |-> Text(l), literal |-> l]
      PROVE ObjectsInv'
  <2> DEFINE q == [by |-> "dns", literal |-> l, port |-> p]
  <2>1. l \in Literals \cup {NULL} /\ l # NULL
    BY InputsAssumption
  <2>2. IsAsked(q) /\ q.by = "dns" /\ q.literal = l /\ q.port = p
    BY <2>1, AskedFor, Zenon
  <2>3. answer.text = Text(l) /\ answer.literal = l
    BY <1>7
  <2>4. answer # NoText
    BY <1>4, <2>1, <2>3, Zenon
  <2>5. AnObject(b) /\ b.text = <<>> /\ b.port = p /\ (~Lopsided(l) => Meaning(b) = Means(l))
    <3> DEFINE c == FromHost(a, host.text, p, Text(l))
    <3>1. AnObject(c) /\ c.text = <<>> /\ c.port = p /\ (~Lopsided(l) => Meaning(c) = Means(l))
      BY <1>3, <1>7, Answered, Zenon
    <3>2. b = c
      BY <2>3, Zenon
    <3> HIDE DEF b, c
    <3> QED BY <3>1, <3>2, Zenon
  <2>6. obj' = [obj EXCEPT ![o] = b] /\ asked' = [asked EXCEPT ![o] = q]
        /\ called' = [called EXCEPT ![o] = PassedOn(b)]
    BY <1>2, <1>7, <2>3, <2>4, Zenon DEF Becomes
  <2> HIDE DEF b, q
  <2>7. Good(b, q, PassedOn(b))
    BY <2>1, <2>2, <2>5, GoodLookup, Zenon
  <2> QED BY <2>6, <2>7, InvStep, Zenon
<1>8. NeedsDNS(host.text) => answer = NoText \/ answer \in LiteralInputs
  BY <1>2
<1>9. answer \in LiteralInputs => \E l \in Literals : answer = [text |-> Text(l), literal |-> l]
  BY Zenon DEF LiteralInputs
<1> QED BY <1>5, <1>6, <1>7, <1>8, <1>9, Zenon

(* The invariant of the objects holds.                                     *)
LEMMA ObjectsInvariant == Spec => []ObjectsInv
<1>1. ASSUME ObjectsInv, [Next]_vars PROVE ObjectsInv'
  <2>1. CASE UNCHANGED vars
    <3>1. obj' = obj /\ asked' = asked /\ called' = called
      BY <2>1 DEF vars
    <3> QED BY <3>1, <1>1, Zenon DEF ObjectsInv
  <2> QED BY <2>1, <1>1, TextConstructorStep, BytesConstructorStep, CopyConstructorStep, ConnectHostStep,
             ChangeAddressStep, ChangePortStep, ReadStep, Zenon DEF Next
<1> QED BY <1>1, InvInit, PTL DEF Spec

(* For every literal, object and content of memory, a text of an address   *)
(* gives that address (set_ip_address), unless more groups come after the  *)
(* :: than before it.                                                      *)
THEOREM TextGivesItsAddressHolds == Spec => []TextGivesItsAddress
<1>1. ObjectsInv => TextGivesItsAddress
  BY Zenon DEF ObjectsInv, Good, TextMeant, TextGivesItsAddress
<1> QED BY <1>1, ObjectsInvariant, PTL

(* For every address of sixteen bytes, the cached text is that of the      *)
(* object's own address: reading it back gives the address                 *)
(* (get_ip_address, set_ip_address, set_ip_bytes).                         *)
THEOREM CachedTextIsCurrentHolds == Spec => []CachedTextIsCurrent
<1>1. ASSUME ObjectsInv, NEW o \in Constructed, obj[o].text # <<>>, asked[o].by # "literal", ~LookupFailed(o)
      PROVE Meaning(set_ip_address(obj[o], obj[o].text)) = Meaning(obj[o])
  <2>1. Good(obj[o], asked[o], called[o]) /\ AnObject(obj[o])
    BY <1>1, ConstructedGood, Zenon
  <2>2. asked[o].by \notin {"nobody", "literal"}
    BY <1>1 DEF Constructed
  <2>3. Printed(obj[o])
    BY <2>1, <2>2, <1>1, Zenon DEF Good, TextKept, LookupFailed
  <2> QED BY <1>1, <2>1, <2>3, PrintedParses, Zenon
<1>2. ObjectsInv => CachedTextIsCurrent
  BY <1>1, Zenon DEF CachedTextIsCurrent
<1> QED BY <1>2, ObjectsInvariant, PTL

(* For every name, answer and content of memory, a call by host name       *)
(* reaches the stack with the answer's address and the caller's port, and  *)
(* never after a failed lookup (the constructor with a host).              *)
THEOREM LookupReachesTheStackHolds == Spec => []LookupReachesTheStack
<1>1. ASSUME ObjectsInv, NEW o \in Objects, asked[o].by = "dns",
             asked[o].literal # NULL => ~Lopsided(asked[o].literal)
      PROVE /\ obj[o].port = asked[o].port
            /\ IF LookupFailed(o) THEN called[o] # "stack" /\ ~NonZero(obj[o])
               ELSE /\ Meaning(obj[o]) = Means(asked[o].literal)
                    /\ called[o] = "stack" => NonZero(obj[o])
                    /\ called[o] = "DNS_FAILURE" => ~NonZero(obj[o])
  <2>1. LookedUp(obj[o], asked[o], called[o])
    BY <1>1, Zenon DEF ObjectsInv, Good
  <2> QED BY <1>1, <2>1, Zenon DEF LookedUp, LookupFailed
<1>2. ObjectsInv => LookupReachesTheStack
  BY <1>1, Zenon DEF LookupReachesTheStack
<1> QED BY <1>2, ObjectsInvariant, PTL
=============================================================================
