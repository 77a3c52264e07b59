----------------------------- MODULE SumsProofs -----------------------------
(***************************************************************************)
(* What sums over lists add up to.  Each lemma is an induction, made from  *)
(* the well-foundedness of the naturals: a least place at which it failed  *)
(* would follow one at which it held.                                      *)
(***************************************************************************)
EXTENDS Sums, WellFoundedInduction, TLAPS

(* A set of naturals has a least element.                                   *)
LEMMA Least ==
    ASSUME NEW S, S \subseteq Nat, S # {}
    PROVE  \E x \in S : \A y \in S : x <= y
<1>1. PICK x \in S : \A y \in S : ~(<<y, x>> \in OpToRel(<, Nat))
  BY NatLessThanWellFounded, WFMin
<1>2. \A y \in S : x <= y
  <2>1. \A y \in S : ~(y < x)
    BY <1>1 DEF OpToRel
  <2> QED BY <2>1
<1> QED BY <1>2

(* What holds at the first place, and at each place if at the one before,   *)
(* holds everywhere.                                                        *)
LEMMA Upwards ==
    ASSUME NEW S, NEW a \in Int, NEW b \in Int, a <= b => a \in S,
           \A k \in a..(b - 1) : k \in S => k + 1 \in S
    PROVE  \A k \in a..b : k \in S
<1> DEFINE Out == {d \in Nat : a + d <= b /\ a + d \notin S}
<1>1. Out = {}
  <2> SUFFICES ASSUME Out # {} PROVE FALSE
    OBVIOUS
  <2>1. PICK d \in Out : \A e \in Out : d <= e
    BY Least
  <2>2. d \in Nat /\ a + d <= b /\ a + d \notin S
    OBVIOUS
  <2>3. d # 0
    BY <2>2
  <2>4. d - 1 \in Nat /\ d - 1 \notin Out /\ a + (d - 1) \in a..(b - 1) /\ a + (d - 1) + 1 = a + d
    BY <2>1, <2>2, <2>3
  <2>5. a + (d - 1) \in S
    BY <2>4
  <2> QED BY <2>2, <2>4, <2>5
<1> SUFFICES ASSUME NEW k \in a..b PROVE k \in S
  OBVIOUS
<1>2. k - a \in Nat /\ a + (k - a) = k /\ k <= b
  OBVIOUS
<1>3. k - a \notin Out
  BY <1>1
<1> QED BY <1>2, <1>3

(* The function that SumOver is the last value of.                          *)
IsSum(v, i, j, f) ==
    f = [k \in (i - 1)..j |-> IF k < i THEN 0 ELSE f[k - 1] + v[k]]

LEMMA IsSumValues ==
    ASSUME NEW v, NEW i \in Int, NEW j \in Int, NEW f, IsSum(v, i, j, f)
    PROVE  /\ j >= i - 1 => f[i - 1] = 0
           /\ \A k \in i..j : f[k] = f[k - 1] + v[k]
<1>1. \A k \in (i - 1)..j : f[k] = IF k < i THEN 0 ELSE f[k - 1] + v[k]
  <2> DEFINE g == [k \in (i - 1)..j |-> IF k < i THEN 0 ELSE f[k - 1] + v[k]]
  <2>1. f = g
    BY DEF IsSum
  <2>2. \A k \in (i - 1)..j : g[k] = IF k < i THEN 0 ELSE f[k - 1] + v[k]
    OBVIOUS
  <2> HIDE DEF g
  <2> QED BY <2>1, <2>2
<1> QED BY <1>1

LEMMA SumsAgree ==
    ASSUME NEW v, NEW i \in Int, NEW j \in Int, NEW m \in Int, NEW f, NEW g,
           IsSum(v, i, j, f), IsSum(v, i, m, g), j <= m
    PROVE  \A k \in (i - 1)..j : f[k] = g[k]
<1> DEFINE S == {d \in Nat : i - 1 + d <= j /\ f[i - 1 + d] # g[i - 1 + d]}
<1>1. S = {}
  <2> SUFFICES ASSUME S # {} PROVE FALSE
    OBVIOUS
  <2>1. PICK d \in S : \A e \in S : d <= e
    BY Least
  <2>2. d \in Nat /\ i - 1 + d <= j /\ f[i - 1 + d] # g[i - 1 + d]
    OBVIOUS
  <2>3. d # 0
    BY <2>2, IsSumValues
  <2>4. d - 1 \notin S
    BY <2>1, <2>2, <2>3
  <2> DEFINE k == i - 1 + d
  <2>5. f[k - 1] = g[k - 1]
    BY <2>2, <2>3, <2>4
  <2>6. k \in i..j /\ k \in i..m
    BY <2>2, <2>3
  <2>7. f[k] = f[k - 1] + v[k] /\ g[k] = g[k - 1] + v[k]
    <3> HIDE DEF k
    <3> QED BY <2>6, IsSumValues
  <2> QED BY <2>2, <2>5, <2>7
<1> SUFFICES ASSUME NEW k \in (i - 1)..j PROVE f[k] = g[k]
  OBVIOUS
<1>2. k - (i - 1) \in Nat /\ i - 1 + (k - (i - 1)) = k /\ k <= j
  OBVIOUS
<1>3. k - (i - 1) \notin S
  BY <1>1
<1> HIDE DEF S
<1>4. ~(f[i - 1 + (k - (i - 1))] # g[i - 1 + (k - (i - 1))])
  BY <1>2, <1>3 DEF S
<1> QED BY <1>2, <1>4

LEMMA SumExists ==
    ASSUME NEW v, NEW i \in Int, NEW j \in Int, j >= i - 1
    PROVE  \E f : IsSum(v, i, j, f)
<1> DEFINE S == {d \in Nat : ~\E f : IsSum(v, i, i - 1 + d, f)}
<1>1. S = {}
  <2> SUFFICES ASSUME S # {} PROVE FALSE
    OBVIOUS
  <2>1. PICK d \in S : \A e \in S : d <= e
    BY Least
  <2>2. d \in Nat /\ ~\E f : IsSum(v, i, i - 1 + d, f)
    OBVIOUS
  <2>3. CASE d = 0
    <3>1. IsSum(v, i, i - 1 + 0, [k \in (i - 1)..(i - 1) |-> 0])
      BY DEF IsSum
    <3> QED BY <2>2, <2>3, <3>1
  <2>4. CASE d # 0
    <3>1. PICK f : IsSum(v, i, i - 1 + (d - 1), f)
      BY <2>1, <2>2, <2>4
    <3> DEFINE m == i - 1 + d
               g == [k \in (i - 1)..m |-> IF k < m THEN f[k] ELSE f[k - 1] + v[k]]
    <3>2. /\ f[i - 1] = 0
          /\ \A k \in i..(m - 1) : f[k] = f[k - 1] + v[k]
      BY <3>1, <2>2, <2>4, IsSumValues
    <3>3. m \in Int /\ i <= m
      BY <2>2, <2>4
    <3>4. ASSUME NEW k \in (i - 1)..m
          PROVE  g[k] = IF k < i THEN 0 ELSE g[k - 1] + v[k]
      <4> HIDE DEF m
      <4>1. CASE k < i
        BY <3>2, <3>3, <4>1
      <4>2. CASE ~(k < i)
        <5>1. g[k] = IF k < m THEN f[k] ELSE f[k - 1] + v[k]
          OBVIOUS
        <5>2. k - 1 \in (i - 1)..m /\ k - 1 < m
          BY <3>3, <4>2
        <5>3. g[k - 1] = f[k - 1]
          BY <5>2
        <5>4. g[k] = f[k - 1] + v[k]
          BY <3>2, <3>3, <4>2, <5>1
        <5> QED BY <4>2, <5>3, <5>4
      <4> QED BY <4>1, <4>2
    <3>5. IsSum(v, i, m, g)
      <4> DEFINE h == [k \in (i - 1)..m |-> IF k < i THEN 0 ELSE g[k - 1] + v[k]]
      <4>1. g = h
        BY <3>4
      <4> QED BY <4>1 DEF IsSum
    <3> QED BY <2>2, <3>5
  <2> QED BY <2>3, <2>4
<1>2. j - (i - 1) \in Nat /\ i - 1 + (j - (i - 1)) = j
  OBVIOUS
<1>3. j - (i - 1) \notin S
  BY <1>1
<1> QED BY <1>2, <1>3

LEMMA SumIsLast ==
    ASSUME NEW v, NEW i \in Int, NEW j \in Int, NEW m \in Int, NEW f,
           IsSum(v, i, m, f), i - 1 <= j, j <= m
    PROVE  SumOver(v, i, j) = f[j]
<1>1. CASE j < i
  <2>1. SumOver(v, i, j) = 0 /\ j = i - 1
    BY <1>1 DEF SumOver
  <2> QED BY <2>1, IsSumValues
<1>2. CASE i <= j
  <2> DEFINE g == CHOOSE h : IsSum(v, i, j, h)
  <2>1. \E h : IsSum(v, i, j, h)
    BY <1>2, SumExists
  <2>2. IsSum(v, i, j, g)
    BY <2>1
  <2>3. SumOver(v, i, j) = g[j]
    BY <1>2 DEF SumOver, IsSum
  <2> HIDE DEF g
  <2> QED BY <2>2, <2>3, SumsAgree
<1> QED BY <1>1, <1>2
-----------------------------------------------------------------------------
(* A sum of nothing, and a sum and what comes next.                         *)
LEMMA SumEmpty ==
    ASSUME NEW v, NEW i \in Int, NEW j \in Int, j < i
    PROVE  SumOver(v, i, j) = 0
BY DEF SumOver

LEMMA SumNext ==
    ASSUME NEW v, NEW i \in Int, NEW j \in Int, i <= j
    PROVE  SumOver(v, i, j) = SumOver(v, i, j - 1) + v[j]
<1>0. j >= i - 1
  OBVIOUS
<1>1. PICK f : IsSum(v, i, j, f)
  BY <1>0, SumExists
<1>2. SumOver(v, i, j) = f[j] /\ SumOver(v, i, j - 1) = f[j - 1]
  BY <1>1, SumIsLast
<1>3. f[j] = f[j - 1] + v[j]
  BY <1>1, IsSumValues
<1> QED BY <1>2, <1>3

(* Sums of natural numbers are natural numbers.                             *)
LEMMA SumNat ==
    ASSUME NEW v, NEW i \in Int, NEW j \in Int, \A k \in i..j : v[k] \in Nat
    PROVE  SumOver(v, i, j) \in Nat
<1> DEFINE S == {d \in Nat : i - 1 + d <= j /\ SumOver(v, i, i - 1 + d) \notin Nat}
<1>1. S = {}
  <2> SUFFICES ASSUME S # {} PROVE FALSE
    OBVIOUS
  <2>1. PICK d \in S : \A e \in S : d <= e
    BY Least
  <2>2. d \in Nat /\ i - 1 + d <= j /\ SumOver(v, i, i - 1 + d) \notin Nat
    OBVIOUS
  <2> DEFINE m == i - 1 + d
  <2>3. d # 0
    BY <2>2, SumEmpty
  <2>4. m \in Int /\ i <= m /\ m \in i..j
    BY <2>2, <2>3
  <2>5. SumOver(v, i, m - 1) \in Nat
    <3>1. d - 1 \in Nat /\ i - 1 + (d - 1) <= j /\ d - 1 \notin S /\ m - 1 = i - 1 + (d - 1)
      BY <2>1, <2>2, <2>3
    <3> HIDE DEF m
    <3> QED BY <3>1
  <2>6. SumOver(v, i, m) = SumOver(v, i, m - 1) + v[m] /\ v[m] \in Nat
    <3> HIDE DEF m
    <3> QED BY <2>4, SumNext
  <2> QED BY <2>2, <2>5, <2>6
<1>2. CASE j < i
  BY <1>2, SumEmpty
<1>3. CASE i <= j
  <2>1. j - (i - 1) \in Nat /\ i - 1 + (j - (i - 1)) = j
    BY <1>3
  <2>2. j - (i - 1) \notin S
    BY <1>1
  <2> QED BY <2>1, <2>2
<1> QED BY <1>2, <1>3

(* A sum of noughts is nought.                                              *)
LEMMA SumZero ==
    ASSUME NEW v, NEW i \in Int, NEW j \in Int, \A k \in i..j : v[k] = 0
    PROVE  SumOver(v, i, j) = 0
<1> DEFINE S == {k \in Int : SumOver(v, i, k) = 0}
<1>1. i - 1 \in S
  BY SumEmpty
<1>2. ASSUME NEW k \in (i - 1)..(j - 1), k \in S PROVE k + 1 \in S
  <2>1. k + 1 \in Int /\ i <= k + 1 /\ k + 1 \in i..j /\ (k + 1) - 1 = k
    OBVIOUS
  <2>2. SumOver(v, i, k + 1) = SumOver(v, i, (k + 1) - 1) + v[k + 1]
    BY <2>1, SumNext
  <2> QED BY <1>2, <2>1, <2>2
<1>3. \A k \in (i - 1)..j : k \in S
  <2>1. i - 1 \in Int
    OBVIOUS
  <2> HIDE DEF S
  <2> QED BY <1>1, <1>2, <2>1, Upwards
<1>4. CASE j < i
  BY <1>4, SumEmpty
<1>5. CASE i <= j
  <2>1. j \in (i - 1)..j
    BY <1>5
  <2> QED BY <1>3, <2>1
<1> QED BY <1>4, <1>5

(* Equal entries, also at other places, have equal sums.                    *)
LEMMA SumShifted ==
    ASSUME NEW v, NEW i \in Int, NEW j \in Int,
           NEW w, NEW a \in Int, NEW b \in Int, b - a = j - i,
           \A k \in i..j : v[k] = w[a + (k - i)]
    PROVE  SumOver(v, i, j) = SumOver(w, a, b)
<1> DEFINE S == {d \in Nat : /\ i - 1 + d <= j
                             /\ SumOver(v, i, i - 1 + d) # SumOver(w, a, a - 1 + d)}
<1>1. S = {}
  <2> SUFFICES ASSUME S # {} PROVE FALSE
    OBVIOUS
  <2>1. PICK d \in S : \A e \in S : d <= e
    BY Least
  <2> DEFINE m == i - 1 + d
             n == a - 1 + d
  <2>2. /\ d \in Nat /\ m <= j /\ m \in Int /\ n \in Int
        /\ SumOver(v, i, m) # SumOver(w, a, n)
    OBVIOUS
  <2>3. d # 0
    <3> SUFFICES ASSUME d = 0 PROVE FALSE
      OBVIOUS
    <3>1. m < i /\ n < a
      BY <2>2
    <3> HIDE DEF m, n
    <3> QED BY <2>2, <3>1, SumEmpty
  <2>4. i <= m /\ m \in i..j /\ a <= n /\ n = a + (m - i)
    BY <2>2, <2>3
  <2>5. SumOver(v, i, m - 1) = SumOver(w, a, n - 1)
    <3>1. /\ d - 1 \in Nat /\ i - 1 + (d - 1) <= j /\ d - 1 \notin S
          /\ m - 1 = i - 1 + (d - 1) /\ n - 1 = a - 1 + (d - 1)
      BY <2>1, <2>2, <2>3
    <3> HIDE DEF m, n
    <3> QED BY <3>1
  <2> HIDE DEF m, n
  <2>6. /\ SumOver(v, i, m) = SumOver(v, i, m - 1) + v[m]
        /\ SumOver(w, a, n) = SumOver(w, a, n - 1) + w[n]
    BY <2>2, <2>4, SumNext
  <2>7. v[m] = w[n]
    BY <2>4
  <2> QED BY <2>2, <2>5, <2>6, <2>7
<1>2. CASE j < i
  <2>1. b < a
    BY <1>2
  <2> QED BY <1>2, <2>1, SumEmpty
<1>3. CASE i <= j
  <2>1. /\ j - (i - 1) \in Nat /\ i - 1 + (j - (i - 1)) = j
        /\ a - 1 + (j - (i - 1)) = b
    BY <1>3
  <2>2. j - (i - 1) \notin S
    BY <1>1
  <2> QED BY <2>1, <2>2
<1> QED BY <1>2, <1>3

LEMMA SumSame ==
    ASSUME NEW v, NEW w, NEW i \in Int, NEW j \in Int, \A k \in i..j : v[k] = w[k]
    PROVE  SumOver(v, i, j) = SumOver(w, i, j)
<1>1. j - i = j - i /\ \A k \in i..j : v[k] = w[i + (k - i)]
  OBVIOUS
<1> QED BY <1>1, SumShifted

(* A sum is made of two sums.                                               *)
LEMMA SumSplit ==
    ASSUME NEW v, NEW i \in Int, NEW j \in Int, NEW m \in Int, i <= m + 1, m <= j,
           \A k \in i..j : v[k] \in Nat
    PROVE  SumOver(v, i, j) = SumOver(v, i, m) + SumOver(v, m + 1, j)
<1> DEFINE S == {d \in Nat : /\ m + d <= j
                             /\ SumOver(v, i, m + d) # SumOver(v, i, m) + SumOver(v, m + 1, m + d)}
<1>0. SumOver(v, i, m) \in Nat
  <2>1. \A k \in i..m : v[k] \in Nat
    OBVIOUS
  <2> QED BY <2>1, SumNat
<1>1. S = {}
  <2> SUFFICES ASSUME S # {} PROVE FALSE
    OBVIOUS
  <2>1. PICK d \in S : \A e \in S : d <= e
    BY Least
  <2> DEFINE n == m + d
  <2>2. /\ d \in Nat /\ n <= j /\ n \in Int
        /\ SumOver(v, i, n) # SumOver(v, i, m) + SumOver(v, m + 1, n)
    OBVIOUS
  <2>3. d # 0
    <3> SUFFICES ASSUME d = 0 PROVE FALSE
      OBVIOUS
    <3>1. n = m /\ m < m + 1 /\ m + 1 \in Int
      BY <2>2
    <3>2. SumOver(v, m + 1, m) = 0
      BY <3>1, SumEmpty
    <3> HIDE DEF n
    <3> QED BY <1>0, <2>2, <3>1, <3>2
  <2>4. i <= n /\ m + 1 <= n /\ m + 1 \in Int /\ n \in i..j
    BY <2>2, <2>3
  <2>5. SumOver(v, i, n - 1) = SumOver(v, i, m) + SumOver(v, m + 1, n - 1)
    <3>1. d - 1 \in Nat /\ m + (d - 1) <= j /\ d - 1 \notin S /\ n - 1 = m + (d - 1)
      BY <2>1, <2>2, <2>3
    <3> HIDE DEF n
    <3> QED BY <3>1
  <2> HIDE DEF n
  <2>6. SumOver(v, i, n) = SumOver(v, i, n - 1) + v[n]
    BY <2>2, <2>4, SumNext
  <2>7. SumOver(v, m + 1, n) = SumOver(v, m + 1, n - 1) + v[n]
    BY <2>2, <2>4, SumNext
  <2>8. v[n] \in Nat /\ SumOver(v, m + 1, n - 1) \in Nat
    <3>1. \A k \in (m + 1)..(n - 1) : v[k] \in Nat
      BY <2>2
    <3>2. m + 1 \in Int /\ n - 1 \in Int
      BY <2>2
    <3> QED BY <2>4, <3>1, <3>2, SumNat
  <2> QED BY <1>0, <2>2, <2>5, <2>6, <2>7, <2>8
<1>2. j - m \in Nat /\ m + (j - m) = j
  OBVIOUS
<1>3. j - m \notin S
  BY <1>1
<1> QED BY <1>2, <1>3

(* One entry more, or less, makes the sum as much more or less.             *)
LEMMA SumOneChanged ==
    ASSUME NEW v, NEW w, NEW i \in Int, NEW j \in Int, NEW m \in i..j, NEW n \in Int,
           \A k \in i..j : v[k] \in Nat /\ w[k] \in Nat,
           \A k \in i..j : k # m => w[k] = v[k],
           w[m] = v[m] + n
    PROVE  SumOver(w, i, j) = SumOver(v, i, j) + n
<1>1. /\ m \in Int /\ i <= m /\ m <= j /\ m - 1 \in Int /\ m + 1 \in Int
      /\ i <= m + 1
  OBVIOUS
<1>2. SumOver(w, i, m - 1) = SumOver(v, i, m - 1)
  <2>1. \A k \in i..(m - 1) : w[k] = v[k]
    OBVIOUS
  <2> QED BY <1>1, <2>1, SumSame
<1>3. SumOver(w, m + 1, j) = SumOver(v, m + 1, j)
  <2>1. \A k \in (m + 1)..j : w[k] = v[k]
    OBVIOUS
  <2> QED BY <1>1, <2>1, SumSame
<1>4. /\ SumOver(w, i, j) = SumOver(w, i, m) + SumOver(w, m + 1, j)
      /\ SumOver(v, i, j) = SumOver(v, i, m) + SumOver(v, m + 1, j)
  BY <1>1, SumSplit
<1>5. /\ SumOver(w, i, m) = SumOver(w, i, m - 1) + w[m]
      /\ SumOver(v, i, m) = SumOver(v, i, m - 1) + v[m]
  BY <1>1, SumNext
<1>6. /\ SumOver(v, i, m - 1) \in Nat /\ SumOver(v, m + 1, j) \in Nat
      /\ v[m] \in Nat
  <2>1. (\A k \in i..(m - 1) : v[k] \in Nat) /\ (\A k \in (m + 1)..j : v[k] \in Nat)
    OBVIOUS
  <2> QED BY <1>1, <2>1, SumNat
<1> QED BY <1>2, <1>3, <1>4, <1>5, <1>6

(* A sum of equal numbers.                                                  *)
LEMMA SumConstant ==
    ASSUME NEW v, NEW i \in Int, NEW j \in Int, NEW c \in Nat, i - 1 <= j,
           \A k \in i..j : v[k] = c
    PROVE  SumOver(v, i, j) = (j - i + 1) * c
<1> DEFINE S == {k \in Int : SumOver(v, i, k) = (k - i + 1) * c}
<1>1. i - 1 \in S
  <2>1. i - 1 \in Int /\ i - 1 < i
    OBVIOUS
  <2>2. SumOver(v, i, i - 1) = 0
    BY <2>1, SumEmpty
  <2>3. i - 1 - i + 1 = 0 /\ 0 * c = 0
    OBVIOUS
  <2> QED BY <2>1, <2>2, <2>3
<1>2. \A k \in (i - 1)..(j - 1) : k \in S => k + 1 \in S
  <2> SUFFICES ASSUME NEW k \in (i - 1)..(j - 1), k \in S PROVE k + 1 \in S
    OBVIOUS
  <2>1. k + 1 \in Int /\ i <= k + 1 /\ k + 1 \in i..j /\ k + 1 - 1 = k
    OBVIOUS
  <2>2. SumOver(v, i, k + 1) = SumOver(v, i, k + 1 - 1) + v[k + 1]
    BY <2>1, SumNext
  <2>3. SumOver(v, i, k + 1) = (k - i + 1) * c + c
    BY <2>1, <2>2
  <2>4. (k - i + 1) * c + c = ((k + 1) - i + 1) * c
    OBVIOUS
  <2> QED BY <2>1, <2>3, <2>4
<1> HIDE DEF S
<1>3. \A k \in (i - 1)..j : k \in S
  <2>1. i - 1 \in Int
    OBVIOUS
  <2> QED BY <1>1, <1>2, <2>1, Upwards
<1>4. j \in S
  BY <1>3
<1> QED BY <1>4 DEF S
=============================================================================
