------------------------ MODULE FragmentWriterProofs ------------------------
(***************************************************************************)
(* What the writing of fragments promises, for movies of any number of     *)
(* tracks and samples, with any decode times, plans and sizes.  Fragments  *)
(* are planned by sample number, written by decode time and measured by    *)
(* two walks over run-length coded sizes: the argument is that a track's   *)
(* cursors always stand at the same place of its plan (Cursor).            *)
(***************************************************************************)
EXTENDS FragmentWriter, SumsProofs, FiniteSetTheorems, SequenceTheorems

(* A number that all others of a set are not above, or not below.           *)
LEMMA MinIs ==
    ASSUME NEW S, NEW x \in S, S \subseteq Int, \A y \in S : x <= y
    PROVE  Min(S) = x
<1>1. Min(S) \in S /\ \A y \in S : Min(S) <= y
  BY DEF Min
<1>2. Min(S) \in Int /\ x \in Int /\ Min(S) <= x /\ x <= Min(S)
  BY <1>1
<1> QED BY <1>2

LEMMA MaxIs ==
    ASSUME NEW S, NEW x \in S, S \subseteq Int, \A y \in S : x >= y
    PROVE  Max(S) = x
<1>1. Max(S) \in S /\ \A y \in S : Max(S) >= y
  BY DEF Max
<1>2. Max(S) \in Int /\ x \in Int /\ Max(S) >= x /\ x >= Max(S)
  BY <1>1
<1> QED BY <1>2

LEMMA MinOf ==
    ASSUME NEW S, S \subseteq Nat, S # {}
    PROVE  Min(S) \in S /\ \A y \in S : Min(S) <= y
<1>1. \E x \in S : \A y \in S : x <= y
  BY Least
<1> QED BY <1>1 DEF Min

(* Steps up from each number to the next go up from any to any later one.   *)
LEMMA Rising ==
    ASSUME NEW s, NEW n \in Int, \A k \in 1..n : s[k] \in Int,
           \A k \in 1..(n - 1) : s[k] < s[k + 1]
    PROVE  \A i, j \in 1..n : i < j => s[i] < s[j]
<1> SUFFICES ASSUME NEW i \in 1..n PROVE \A j \in 1..n : i < j => s[i] < s[j]
  OBVIOUS
<1> DEFINE S == {k \in Int : s[i] < s[k]}
<1>1. i + 1 \in Int /\ (i + 1 <= n => i + 1 \in S)
  <2>1. i + 1 <= n => i \in 1..(n - 1)
    OBVIOUS
  <2> QED BY <2>1
<1>2. \A k \in (i + 1)..(n - 1) : k \in S => k + 1 \in S
  <2> SUFFICES ASSUME NEW k \in (i + 1)..(n - 1), k \in S PROVE k + 1 \in S
    OBVIOUS
  <2>1. k \in 1..(n - 1) /\ k \in 1..n /\ k + 1 \in 1..n /\ s[i] < s[k]
    OBVIOUS
  <2>2. s[k] < s[k + 1] /\ s[k] \in Int /\ s[k + 1] \in Int /\ s[i] \in Int
    BY <2>1
  <2> QED BY <2>1, <2>2
<1> HIDE DEF S
<1>3. \A k \in (i + 1)..n : k \in S
  BY ONLY <1>1, <1>2, n \in Int, Upwards
<1> QED BY <1>3 DEF S
-----------------------------------------------------------------------------
(* The sample a track's kth fragment starts with, and the end of the last;  *)
(* and when samples start, and the last one ends.                           *)
Edge(T, k) == IF k <= Len(T.plan) THEN T.plan[k].start ELSE Len(T.dts)
TimeAt(T, i) == IF i < Len(T.dts) THEN T.dts[i + 1] ELSE T.duration

LEMMA TrackTypes ==
    ASSUME NEW T \in Track, IsPlanned(T)
    PROVE  /\ Len(T.dts) \in Nat /\ Len(T.dts) > 0
           /\ Len(T.plan) \in Nat /\ Len(T.plan) > 0
           /\ Len(T.sds) \in Nat /\ Len(T.sds) > 0
           /\ Len(T.sizes) \in Nat
           /\ \A i \in 1..Len(T.dts) : T.dts[i] \in Nat
           /\ \A k \in 1..Len(T.plan) : T.plan[k].start \in Nat /\ T.plan[k].stop \in Nat
           /\ \A d \in 1..Len(T.sds) : T.sds[d] \in Nat
           /\ \A k \in 1..Len(T.sizes) : /\ T.sizes[k].count \in Nat \ {0}
                                         /\ T.sizes[k].value \in Nat
           /\ T.duration \in Nat /\ T.scale \in Nat \ {0}
<1>1. /\ T.dts \in Seq(Nat) /\ T.sds \in Seq(Nat)
      /\ T.sizes \in Seq([count : Nat \ {0}, value : Nat])
      /\ T.plan \in Seq([start : Nat, stop : Nat])
      /\ T.duration \in Nat /\ T.scale \in Nat \ {0}
  BY DEF Track
<1>2. Len(T.dts) > 0 /\ T.plan # << >> /\ T.sds # << >>
  BY DEF IsPlanned
<1>3. \A k \in 1..Len(T.plan) : T.plan[k] \in [start : Nat, stop : Nat]
  <2> DEFINE R == [start : Nat, stop : Nat]
  <2>1. T.plan \in Seq(R)
    BY <1>1
  <2> HIDE DEF R
  <2>2. \A k \in 1..Len(T.plan) : T.plan[k] \in R
    BY <2>1
  <2> QED BY <2>2 DEF R
<1>4. \A k \in 1..Len(T.sizes) : T.sizes[k] \in [count : Nat \ {0}, value : Nat]
  <2> DEFINE R == [count : Nat \ {0}, value : Nat]
  <2>1. T.sizes \in Seq(R)
    BY <1>1
  <2> HIDE DEF R
  <2>2. \A k \in 1..Len(T.sizes) : T.sizes[k] \in R
    BY <2>1
  <2> QED BY <2>2 DEF R
<1>5. Len(T.plan) \in Nat /\ Len(T.sds) \in Nat /\ Len(T.sizes) \in Nat /\ Len(T.dts) \in Nat
  BY <1>1
<1>6. Len(T.plan) > 0 /\ Len(T.sds) > 0
  BY <1>1, <1>2
<1>7. /\ \A i \in 1..Len(T.dts) : T.dts[i] \in Nat
      /\ \A d \in 1..Len(T.sds) : T.sds[d] \in Nat
  BY <1>1
<1> QED BY <1>1, <1>2, <1>3, <1>4, <1>5, <1>6, <1>7

(* Fragments follow one another from the first sample to the last.          *)
LEMMA PlanEdges ==
    ASSUME NEW T \in Track, IsPlanned(T)
    PROVE  /\ \A k \in 1..(Len(T.plan) + 1) : Edge(T, k) \in 0..Len(T.dts)
           /\ Edge(T, 1) = 0 /\ Edge(T, Len(T.plan) + 1) = Len(T.dts)
           /\ \A k \in 1..Len(T.plan) : /\ T.plan[k].start = Edge(T, k)
                                        /\ T.plan[k].stop = Edge(T, k + 1)
           /\ \A i, j \in 1..(Len(T.plan) + 1) : i < j => Edge(T, i) < Edge(T, j)
<1> DEFINE n == Len(T.plan)
           p == T.plan
           num == Len(T.dts)
           e == [k \in 1..(n + 1) |-> Edge(T, k)]
<1>1. /\ n \in Nat /\ n > 0 /\ num \in Nat
      /\ \A k \in 1..n : p[k].start \in Nat /\ p[k].stop \in Nat
  BY TrackTypes
<1>2. /\ p[1].start = 0 /\ p[n].stop = num
      /\ \A f \in 1..n : p[f].start < p[f].stop
      /\ \A f \in 2..n : p[f].start = p[f - 1].stop
  BY DEF IsPlanned
<1>3. \A k : Edge(T, k) = IF k <= n THEN p[k].start ELSE num
  BY DEF Edge
<1> HIDE DEF n, p, num
<1>4. \A k \in 1..n : p[k].start = Edge(T, k) /\ p[k].stop = Edge(T, k + 1)
  <2> SUFFICES ASSUME NEW k \in 1..n
               PROVE  p[k].start = Edge(T, k) /\ p[k].stop = Edge(T, k + 1)
    OBVIOUS
  <2>1. CASE k = n
    BY <2>1, <1>1, <1>2, <1>3
  <2>2. CASE k # n
    <3>1. k + 1 \in 2..n /\ k + 1 - 1 = k /\ k + 1 <= n
      BY <2>2, <1>1
    <3> QED BY <3>1, <1>1, <1>2, <1>3
  <2> QED BY <2>1, <2>2
<1>5. Edge(T, 1) = 0 /\ Edge(T, n + 1) = num
  BY <1>1, <1>2, <1>3
<1>6. \A k \in 1..(n + 1) : e[k] \in Int /\ Edge(T, k) \in Nat
  BY <1>1, <1>3
<1>7. \A k \in 1..((n + 1) - 1) : e[k] < e[k + 1]
  <2> SUFFICES ASSUME NEW k \in 1..((n + 1) - 1) PROVE e[k] < e[k + 1]
    OBVIOUS
  <2>1. k \in 1..n /\ k \in 1..(n + 1) /\ k + 1 \in 1..(n + 1)
    BY <1>1
  <2>2. e[k] = p[k].start /\ e[k + 1] = p[k].stop
    BY <2>1, <1>4
  <2> QED BY <2>1, <2>2, <1>2
<1>8. \A i, j \in 1..(n + 1) : i < j => Edge(T, i) < Edge(T, j)
  <2>1. n + 1 \in Int
    BY <1>1
  <2>2. \A i, j \in 1..(n + 1) : i < j => e[i] < e[j]
    <3> HIDE DEF e
    <3> QED BY <2>1, <1>6, <1>7, Rising
  <2> QED BY <2>2
<1>9. \A k \in 1..(n + 1) : Edge(T, k) \in 0..num
  <2> SUFFICES ASSUME NEW k \in 1..(n + 1) PROVE Edge(T, k) \in 0..num
    OBVIOUS
  <2>1. CASE k = n + 1
    BY <2>1, <1>1, <1>5
  <2>2. CASE k # n + 1
    <3>1. n + 1 \in 1..(n + 1) /\ k < n + 1
      BY <1>1, <2>2
    <3>2. Edge(T, k) < Edge(T, n + 1)
      BY <3>1, <1>8
    <3>3. Edge(T, k) \in Nat /\ Edge(T, n + 1) = num
      BY <1>5, <1>6
    <3> QED BY <3>2, <3>3, <1>1
  <2> QED BY <2>1, <2>2
<1> QED BY <1>4, <1>5, <1>8, <1>9 DEF n, p, num

(* Decode times grow to the end of the track, below half of their range.    *)
LEMMA TimesGrow ==
    ASSUME NEW T \in Track, IsPlanned(T)
    PROVE  /\ \A i \in 0..Len(T.dts) : TimeAt(T, i) \in Nat
           /\ \A i, j \in 0..Len(T.dts) : i < j => TimeAt(T, i) < TimeAt(T, j)
           /\ TimeAt(T, 0) = 0 /\ TimeAt(T, Len(T.dts)) = T.duration
           /\ \A i \in 0..Len(T.dts) : 2 * TimeAt(T, i) <= NoDts
<1> DEFINE d == T.dts
           num == Len(d)
<1>1. num \in Nat /\ num > 0 /\ (\A i \in 1..num : d[i] \in Nat) /\ T.duration \in Nat
  BY TrackTypes
<1>2. /\ d[1] = 0 /\ \A i \in 1..(num - 1) : d[i] < d[i + 1]
      /\ d[num] < T.duration /\ 2 * T.duration <= NoDts
  BY DEF IsPlanned
<1>3. \A i : TimeAt(T, i) = IF i < num THEN d[i + 1] ELSE T.duration
  BY DEF TimeAt
<1>n. NoDts \in Nat
  BY FragmentWriterAssumption
<1> HIDE DEF d, num
<1>4. \A i, j \in 1..num : i < j => d[i] < d[j]
  <2>1. num \in Int /\ \A k \in 1..num : d[k] \in Int
    BY <1>1
  <2> QED BY <2>1, <1>2, Rising
<1>5. \A i \in 1..num : d[i] < T.duration
  BY <1>1, <1>2, <1>4
<1>6. \A i \in 0..num : i < num => i + 1 \in 1..num
  BY <1>1
<1>7. \A i \in 0..num : TimeAt(T, i) \in Nat /\ TimeAt(T, i) <= T.duration
  BY <1>1, <1>3, <1>5, <1>6
<1>8. \A i, j \in 0..num : i < j => TimeAt(T, i) < TimeAt(T, j)
  <2> SUFFICES ASSUME NEW i \in 0..num, NEW j \in 0..num, i < j
               PROVE  TimeAt(T, i) < TimeAt(T, j)
    OBVIOUS
  <2>1. i < num /\ i + 1 \in 1..num
    BY <1>1
  <2>2. CASE j < num
    BY <2>1, <2>2, <1>1, <1>3, <1>4
  <2>3. CASE ~(j < num)
    BY <2>1, <2>3, <1>3, <1>5
  <2> QED BY <2>2, <2>3
<1>9. TimeAt(T, 0) = 0 /\ TimeAt(T, num) = T.duration
  BY <1>1, <1>2, <1>3
<1>10. \A i \in 0..num : 2 * TimeAt(T, i) <= NoDts
  BY <1>1, <1>2, <1>7, <1>n
<1> QED BY <1>7, <1>8, <1>9, <1>10 DEF d, num
-----------------------------------------------------------------------------
(* The runs of size_lst hold all samples, each some of them.                *)
LEMMA RunsCover ==
    ASSUME NEW T \in Track, IsPlanned(T)
    PROVE  /\ Len(T.sizes) > 0
           /\ SamplesIn(T.sizes, 0) = 0
           /\ SamplesIn(T.sizes, Len(T.sizes)) = Len(T.dts)
           /\ \A k \in 0..Len(T.sizes) : SamplesIn(T.sizes, k) \in Nat
           /\ \A k \in 1..Len(T.sizes) :
                 SamplesIn(T.sizes, k) = SamplesIn(T.sizes, k - 1) + T.sizes[k].count
           /\ \A i, j \in 0..Len(T.sizes) :
                 i < j => SamplesIn(T.sizes, i) < SamplesIn(T.sizes, j)
<1> DEFINE z == T.sizes
           r == Len(z)
           c == [j \in 1..r |-> z[j].count]
           up == [k \in 1..(r + 1) |-> SumOver(c, 1, k - 1)]
<1>1. r \in Nat /\ \A k \in 1..r : z[k].count \in Nat \ {0}
  BY TrackTypes
<1>2. SamplesIn(z, r) = Len(T.dts) /\ Len(T.dts) \in Nat /\ Len(T.dts) > 0
  BY TrackTypes DEF IsPlanned
<1>3. \A k : SamplesIn(z, k) = SumOver(c, 1, k)
  BY DEF SamplesIn
<1> HIDE DEF z, r
<1>4. \A k \in 1..r : c[k] = z[k].count /\ c[k] \in Nat \ {0}
  BY <1>1
<1> HIDE DEF c
<1>5. SumOver(c, 1, 0) = 0
  <2>1. 1 \in Int /\ 0 \in Int /\ 0 < 1
    OBVIOUS
  <2> QED BY ONLY <2>1, SumEmpty
<1>6. \A k \in 1..r : SumOver(c, 1, k) = SumOver(c, 1, k - 1) + c[k]
  <2> SUFFICES ASSUME NEW k \in 1..r PROVE SumOver(c, 1, k) = SumOver(c, 1, k - 1) + c[k]
    OBVIOUS
  <2>1. 1 \in Int /\ k \in Int /\ 1 <= k
    BY <1>1
  <2> QED BY ONLY <2>1, SumNext
<1>7. \A k \in 0..r : SumOver(c, 1, k) \in Nat
  <2> SUFFICES ASSUME NEW k \in 0..r PROVE SumOver(c, 1, k) \in Nat
    OBVIOUS
  <2>1. 1 \in Int /\ k \in Int /\ \A j \in 1..k : c[j] \in Nat
    BY <1>1, <1>4
  <2> QED BY ONLY <2>1, SumNat
<1>8. r > 0
  <2>1. CASE r = 0
    BY <2>1, <1>2, <1>3, <1>5
  <2> QED BY <2>1, <1>1
<1>9. \A i, j \in 1..(r + 1) : i < j => up[i] < up[j]
  <2>1. r + 1 \in Int /\ \A k \in 1..(r + 1) : up[k] \in Int
    <3>1. \A k \in 1..(r + 1) : k - 1 \in 0..r
      BY <1>1
    <3> QED BY <3>1, <1>1, <1>7
  <2>2. \A k \in 1..((r + 1) - 1) : up[k] < up[k + 1]
    <3> SUFFICES ASSUME NEW k \in 1..((r + 1) - 1) PROVE up[k] < up[k + 1]
      OBVIOUS
    <3>1. k \in 1..r /\ k - 1 \in 0..r /\ k + 1 \in 1..(r + 1) /\ k \in 1..(r + 1)
      BY <1>1
    <3>2. up[k] = SumOver(c, 1, k - 1) /\ up[k + 1] = SumOver(c, 1, k)
      <4>1. k + 1 - 1 = k
        BY <3>1
      <4> QED BY <3>1, <4>1
    <3> HIDE DEF up
    <3> QED BY <3>1, <3>2, <1>4, <1>6, <1>7
  <2> HIDE DEF up
  <2> QED BY ONLY <2>1, <2>2, Rising
<1>10. ASSUME NEW i \in 0..r, NEW j \in 0..r, i < j
       PROVE  SumOver(c, 1, i) < SumOver(c, 1, j)
  <2>1. i + 1 \in 1..(r + 1) /\ j + 1 \in 1..(r + 1) /\ i + 1 < j + 1
        /\ i + 1 - 1 = i /\ j + 1 - 1 = j
    BY <1>1, <1>10
  <2>2. up[i + 1] = SumOver(c, 1, i) /\ up[j + 1] = SumOver(c, 1, j)
    BY <2>1
  <2> HIDE DEF up
  <2> QED BY <2>1, <2>2, <1>9
<1>11. /\ SamplesIn(z, 0) = 0
       /\ \A k \in 0..r : SamplesIn(z, k) \in Nat
       /\ \A k \in 1..r : SamplesIn(z, k) = SamplesIn(z, k - 1) + z[k].count
       /\ \A i, j \in 0..r : i < j => SamplesIn(z, i) < SamplesIn(z, j)
  <2>1. \A k \in 1..r : SamplesIn(z, k) = SamplesIn(z, k - 1) + z[k].count
    BY <1>3, <1>4, <1>6
  <2> QED BY <2>1, <1>3, <1>5, <1>7, <1>10
<1> QED BY <1>2, <1>8, <1>11 DEF z, r

(* The run that the ith sample lies in: of those that end at it or after    *)
(* it the first, and the only one that starts before it.                    *)
LEMMA Reached ==
    ASSUME NEW t \in Tracks, movie[t] \in Track, IsPlanned(movie[t]), NEW i \in 0..Num(t)
    PROVE  /\ Reaching(t, i) \in 1..Len(movie[t].sizes)
           /\ After(t, Reaching(t, i)) >= i
           /\ i > 0 => After(t, Reaching(t, i) - 1) < i
           /\ i = 0 => Reaching(t, i) = 1
           /\ \A k \in 1..Len(movie[t].sizes) :
                 After(t, k - 1) < i /\ i <= After(t, k) => Reaching(t, i) = k
<1> DEFINE r == Len(movie[t].sizes)
           S == {k \in 1..r : After(t, k) >= i}
           m == Reaching(t, i)
<1>1. /\ r \in Nat /\ r > 0 /\ After(t, 0) = 0 /\ After(t, r) = Num(t) /\ Num(t) \in Nat
      /\ \A k \in 0..r : After(t, k) \in Nat
      /\ \A a, b \in 0..r : a < b => After(t, a) < After(t, b)
  BY TrackTypes, RunsCover DEF After, Num
<1>2. r \in S
  BY <1>1
<1>3. m \in S /\ \A k \in S : m <= k
  <2>1. S \subseteq Nat /\ S # {}
    BY <1>1, <1>2
  <2>2. m = Min(S)
    BY DEF Reaching
  <2> HIDE DEF S, m
  <2> QED BY <2>1, <2>2, MinOf
<1> HIDE DEF m, r
<1>4. m \in 1..r /\ After(t, m) >= i
  BY <1>3
<1>5. ASSUME i > 0 PROVE After(t, m - 1) < i
  <2>1. CASE m = 1
    BY <2>1, <1>1, <1>5
  <2>2. CASE m # 1
    <3>1. m - 1 \in 1..r /\ m - 1 \notin S /\ m - 1 \in 0..r
      BY <2>2, <1>1, <1>3
    <3> QED BY <3>1, <1>1
  <2> QED BY <2>1, <2>2
<1>6. ASSUME i = 0 PROVE m = 1
  <2>1. 1 \in S
    BY <1>1, <1>6
  <2> QED BY <2>1, <1>1, <1>3
<1>7. ASSUME NEW k \in 1..r, After(t, k - 1) < i, i <= After(t, k) PROVE m = k
  <2>1. k \in S
    BY <1>1, <1>7
  <2>2. m <= k
    BY <2>1, <1>3
  <2>3. ASSUME m < k PROVE FALSE
    <3>1. m \in 0..r /\ k - 1 \in 0..r /\ m <= k - 1
      BY <2>3, <1>1, <1>4
    <3>2. After(t, m) <= After(t, k - 1)
      BY <3>1, <1>1
    <3> QED BY <3>1, <3>2, <1>1, <1>4, <1>7
  <2> QED BY <2>2, <2>3, <1>1, <1>4
<1> QED BY <1>4, <1>5, <1>6, <1>7 DEF m, r

(* The size of a sample is that of its run.                                 *)
LEMMA SizeInRun ==
    ASSUME NEW t \in Tracks, movie[t] \in Track, IsPlanned(movie[t])
    PROVE  /\ \A i \in 0..(Num(t) - 1) :
                 /\ SampleSize(t)[i] = RunOf(t, Reaching(t, i + 1)).value
                 /\ SampleSize(t)[i] \in Nat
           /\ \A k \in 1..Len(movie[t].sizes) :
                 \A i \in After(t, k - 1)..(After(t, k) - 1) :
                    SampleSize(t)[i] = RunOf(t, k).value
<1> DEFINE r == Len(movie[t].sizes)
<1>1. /\ r \in Nat /\ Num(t) \in Nat /\ After(t, r) = Num(t) /\ After(t, 0) = 0
      /\ \A k \in 0..r : After(t, k) \in Nat
      /\ \A a, b \in 0..r : a < b => After(t, a) < After(t, b)
      /\ \A k \in 1..r : movie[t].sizes[k].value \in Nat
  BY TrackTypes, RunsCover DEF After, Num
<1>2. ASSUME NEW i \in 0..(Num(t) - 1)
      PROVE  SampleSize(t)[i] = RunOf(t, Reaching(t, i + 1)).value /\ SampleSize(t)[i] \in Nat
  <2>1. SampleSize(t)[i] = RunOf(t, Min({k \in 1..r : After(t, k) > i})).value
    BY DEF SampleSize
  <2>2. {k \in 1..r : After(t, k) > i} = {k \in 1..r : After(t, k) >= i + 1}
    <3>1. \A k \in 1..r : After(t, k) \in Nat
      BY <1>1
    <3>2. \A k \in 1..r : After(t, k) > i <=> After(t, k) >= i + 1
      BY <3>1
    <3> QED BY <3>2
  <2>3. SampleSize(t)[i] = RunOf(t, Reaching(t, i + 1)).value
    BY <2>1, <2>2 DEF Reaching
  <2>4. i + 1 \in 0..Num(t)
    BY <1>1
  <2>5. Reaching(t, i + 1) \in 1..r
    BY <2>4, Reached
  <2> QED BY <2>3, <2>5, <1>1 DEF RunOf
<1>3. ASSUME NEW k \in 1..r, NEW i \in After(t, k - 1)..(After(t, k) - 1)
      PROVE  SampleSize(t)[i] = RunOf(t, k).value
  <2>1. k - 1 \in 0..r /\ k \in 0..r /\ r \in 0..r
    BY <1>1
  <2>2. After(t, k) <= Num(t)
    <3>1. k = r \/ k < r
      BY <1>1
    <3>2. k < r => After(t, k) < After(t, r)
      BY <2>1, <1>1
    <3>3. After(t, k) \in Nat /\ After(t, r) \in Nat /\ After(t, r) = Num(t)
      BY <2>1, <1>1
    <3> QED BY <3>1, <3>2, <3>3
  <2>3. i \in 0..(Num(t) - 1) /\ i + 1 \in 0..Num(t) /\ After(t, k - 1) < i + 1
        /\ i + 1 <= After(t, k)
    BY <2>1, <2>2, <1>1
  <2>4. Reaching(t, i + 1) = k
    BY <2>3, Reached
  <2> QED BY <2>3, <2>4, <1>2
<1> QED BY <1>2, <1>3

(* Bytes of samples that lie in one run, and in all of some runs.           *)
LEMMA BytesInRun ==
    ASSUME NEW t \in Tracks, movie[t] \in Track, IsPlanned(movie[t]),
           NEW k \in 1..Len(movie[t].sizes), NEW i \in Nat, NEW j \in Nat,
           After(t, k - 1) <= i, i <= j, j <= After(t, k)
    PROVE  Bytes(t, i, j) = (j - i) * RunOf(t, k).value
<1>1. After(t, k - 1) \in Nat /\ After(t, k) \in Nat /\ RunOf(t, k).value \in Nat
  <2>1. k - 1 \in 0..Len(movie[t].sizes) /\ k \in 0..Len(movie[t].sizes)
    BY TrackTypes
  <2> QED BY <2>1, TrackTypes, RunsCover DEF After, RunOf
<1> DEFINE v == SampleSize(t)
           c == RunOf(t, k).value
<1>2. \A q \in i..(j - 1) : v[q] = c
  <2>1. \A q \in i..(j - 1) : q \in After(t, k - 1)..(After(t, k) - 1)
    BY <1>1
  <2> QED BY <2>1, SizeInRun
<1>3. c \in Nat /\ i \in Int /\ j - 1 \in Int /\ i - 1 <= j - 1 /\ j - 1 - i + 1 = j - i
  BY <1>1
<1>4. Bytes(t, i, j) = SumOver(v, i, j - 1)
  BY DEF Bytes
<1> HIDE DEF v, c
<1>5. SumOver(v, i, j - 1) = (j - 1 - i + 1) * c
  BY ONLY <1>2, <1>3, SumConstant, SMTT(40), ZenonT(40)
<1> QED BY <1>3, <1>4, <1>5 DEF c

LEMMA BytesSplit ==
    ASSUME NEW t \in Tracks, movie[t] \in Track, IsPlanned(movie[t]),
           NEW i \in Nat, NEW j \in Nat, NEW m \in Nat, i <= m, m <= j, j <= Num(t)
    PROVE  /\ Bytes(t, i, j) = Bytes(t, i, m) + Bytes(t, m, j)
           /\ Bytes(t, i, j) \in Nat /\ Bytes(t, i, m) \in Nat /\ Bytes(t, m, j) \in Nat
<1> DEFINE v == SampleSize(t)
<1>1. \A q \in i..(j - 1) : v[q] \in Nat
  <2>1. Num(t) \in Nat
    BY TrackTypes DEF Num
  <2>2. \A q \in i..(j - 1) : q \in 0..(Num(t) - 1)
    BY <2>1
  <2> QED BY <2>2, SizeInRun
<1>2. /\ Bytes(t, i, j) = SumOver(v, i, j - 1) /\ Bytes(t, i, m) = SumOver(v, i, m - 1)
      /\ Bytes(t, m, j) = SumOver(v, m, j - 1)
  BY DEF Bytes
<1> HIDE DEF v
<1>3. i \in Int /\ j - 1 \in Int /\ m - 1 \in Int /\ i <= m - 1 + 1 /\ m - 1 <= j - 1
      /\ m - 1 + 1 = m /\ m \in Int
  OBVIOUS
<1>4. SumOver(v, i, j - 1) = SumOver(v, i, m - 1) + SumOver(v, m - 1 + 1, j - 1)
  BY ONLY <1>1, <1>3, SumSplit
<1>5. (\A q \in i..(m - 1) : v[q] \in Nat) /\ (\A q \in m..(j - 1) : v[q] \in Nat)
  BY <1>1
<1>6. /\ SumOver(v, i, j - 1) \in Nat /\ SumOver(v, i, m - 1) \in Nat
      /\ SumOver(v, m, j - 1) \in Nat
  BY ONLY <1>1, <1>3, <1>5, SumNat
<1> QED BY <1>2, <1>3, <1>4, <1>6

LEMMA BytesOfRuns ==
    ASSUME NEW t \in Tracks, movie[t] \in Track, IsPlanned(movie[t]),
           NEW a \in 0..Len(movie[t].sizes), NEW b \in a..Len(movie[t].sizes)
    PROVE  /\ Bytes(t, After(t, a), After(t, b)) = SumOver(RunBytes(t), a + 1, b)
           /\ SumOver(RunBytes(t), a + 1, b) \in Nat
<1> DEFINE r == Len(movie[t].sizes)
           S == {k \in 0..r : Bytes(t, After(t, a), After(t, k)) = SumOver(RunBytes(t), a + 1, k)}
<1>1. /\ r \in Nat /\ Num(t) \in Nat /\ After(t, r) = Num(t)
      /\ \A k \in 0..r : After(t, k) \in Nat
      /\ \A i, j \in 0..r : i < j => After(t, i) < After(t, j)
      /\ \A k \in 1..r : /\ RunOf(t, k).count \in Nat /\ RunOf(t, k).value \in Nat
                         /\ After(t, k) = After(t, k - 1) + RunOf(t, k).count
  BY TrackTypes, RunsCover DEF After, Num, RunOf
<1>2. \A i, j \in 0..r : i <= j => After(t, i) <= After(t, j)
  BY <1>1
<1>3. \A k \in 1..r : RunBytes(t)[k] = RunOf(t, k).count * RunOf(t, k).value
  BY DEF RunBytes
<1>4. a \in S
  <2>1. Bytes(t, After(t, a), After(t, a)) = 0
    <3>1. After(t, a) \in Int /\ After(t, a) - 1 \in Int /\ After(t, a) - 1 < After(t, a)
      BY <1>1
    <3> QED BY <3>1, SumEmpty DEF Bytes
  <2>2. SumOver(RunBytes(t), a + 1, a) = 0
    <3>1. a + 1 \in Int /\ a \in Int /\ a < a + 1
      BY <1>1
    <3> QED BY <3>1, SumEmpty
  <2> QED BY <2>1, <2>2
<1>5. \A k \in a..(b - 1) : k \in S => k + 1 \in S
  <2> SUFFICES ASSUME NEW k \in a..(b - 1), k \in S PROVE k + 1 \in S
    OBVIOUS
  <2>1. /\ k + 1 \in 1..r /\ k \in 0..r /\ k + 1 \in 0..r /\ r \in 0..r /\ a <= k
        /\ k + 1 - 1 = k /\ a + 1 \in Int /\ a + 1 <= k + 1 /\ k + 1 \in Int
    BY <1>1
  <2>2. /\ After(t, a) <= After(t, k) /\ After(t, k) <= After(t, k + 1)
        /\ After(t, k + 1) <= Num(t)
        /\ After(t, a) \in Nat /\ After(t, k) \in Nat /\ After(t, k + 1) \in Nat
    BY <1>1, <1>2, <2>1, SMTT(40), ZenonT(40)
  <2>3. Bytes(t, After(t, a), After(t, k + 1))
          = Bytes(t, After(t, a), After(t, k)) + Bytes(t, After(t, k), After(t, k + 1))
    BY <2>2, BytesSplit
  <2>4. Bytes(t, After(t, k), After(t, k + 1))
          = (After(t, k + 1) - After(t, k)) * RunOf(t, k + 1).value
    BY <2>1, <2>2, BytesInRun
  <2>5. After(t, k + 1) - After(t, k) = RunOf(t, k + 1).count
    BY <1>1, <2>1, <2>2
  <2>6. SumOver(RunBytes(t), a + 1, k + 1)
          = SumOver(RunBytes(t), a + 1, k + 1 - 1) + RunBytes(t)[k + 1]
    BY <2>1, SumNext
  <2>7. Bytes(t, After(t, a), After(t, k)) = SumOver(RunBytes(t), a + 1, k)
    OBVIOUS
  <2>8. Bytes(t, After(t, a), After(t, k + 1)) = SumOver(RunBytes(t), a + 1, k + 1)
    BY <1>3, <2>1, <2>3, <2>4, <2>5, <2>6, <2>7
  <2> QED BY <2>1, <2>8
<1> HIDE DEF S
<1>6. b \in S
  <2>1. a \in Int /\ b \in Int /\ b \in a..b
    BY <1>1
  <2> QED BY ONLY <1>4, <1>5, <2>1, Upwards
<1>7. SumOver(RunBytes(t), a + 1, b) \in Nat
  <2>1. \A k \in (a + 1)..b : RunBytes(t)[k] \in Nat
    <3>1. \A k \in (a + 1)..b : k \in 1..r
      BY <1>1
    <3>2. \A k \in 1..r : RunOf(t, k).count * RunOf(t, k).value \in Nat
      BY <1>1
    <3> QED BY <3>1, <3>2, <1>3
  <2>2. a + 1 \in Int /\ b \in Int
    BY <1>1
  <2> QED BY ONLY <2>1, <2>2, SumNat
<1> QED BY <1>6, <1>7 DEF S

(* prepare_traf's walk over the runs finds the bytes of the samples.        *)
LEMMA SizeIsBytes ==
    ASSUME NEW t \in Tracks, movie[t] \in Track, IsPlanned(movie[t]),
           NEW first \in 0..Num(t), NEW stop \in 0..Num(t), first < stop
    PROVE  SizeOf(t, first, stop) = Bytes(t, first, stop) /\ SizeOf(t, first, stop) \in Nat
<1> DEFINE r == Len(movie[t].sizes)
           a == Reaching(t, first)
           b == Reaching(t, stop)
<1>1. /\ r \in Nat /\ Num(t) \in Nat /\ After(t, r) = Num(t) /\ After(t, 0) = 0
      /\ \A k \in 0..r : After(t, k) \in Nat
      /\ \A i, j \in 0..r : i < j => After(t, i) < After(t, j)
      /\ \A k \in 1..r : RunOf(t, k).value \in Nat
  BY TrackTypes, RunsCover DEF After, Num, RunOf
<1>2. /\ a \in 1..r /\ b \in 1..r /\ After(t, a) >= first /\ After(t, b) >= stop
      /\ first > 0 => After(t, a - 1) < first
      /\ first = 0 => a = 1
      /\ After(t, b - 1) < stop
  <2>1. stop > 0
    BY <1>1
  <2> QED BY <2>1, Reached
<1> HIDE DEF a, b
<1>3. a <= b /\ a \in 0..r /\ b \in a..r /\ b \in 0..r /\ a - 1 \in 0..r /\ b - 1 \in 0..r /\ r \in 0..r
  <2>1. ASSUME b < a PROVE FALSE
    <3>1. b \in 0..r /\ a - 1 \in 0..r /\ b <= a - 1
      BY <2>1, <1>1, <1>2
    <3>2. After(t, b) <= After(t, a - 1)
      BY <3>1, <1>1
    <3>3. first > 0
      BY <2>1, <1>1, <1>2
    <3> QED BY <3>1, <3>2, <3>3, <1>1, <1>2, SMTT(40), ZenonT(40)
  <2> QED BY <2>1, <1>1, <1>2
<1>4. /\ After(t, a - 1) <= first /\ After(t, a) \in Nat /\ After(t, b) \in Nat
      /\ After(t, b - 1) \in Nat /\ After(t, a) <= After(t, b) /\ After(t, b) <= Num(t)
      /\ first \in Nat /\ stop \in Nat
  <2>1. After(t, a - 1) <= first
    <3>1. CASE first = 0
      BY <3>1, <1>1, <1>2
    <3>2. CASE first > 0
      BY <3>2, <1>1, <1>2, <1>3, SMTT(40), ZenonT(40)
    <3> QED BY <3>1, <3>2, <1>1
  <2>2. After(t, a) <= After(t, b) /\ After(t, b) <= Num(t)
    <3>1. \A i, j \in 0..r : i <= j => After(t, i) <= After(t, j)
      BY <1>1
    <3>2. a <= b /\ b <= r
      BY <1>1, <1>3
    <3> QED BY <3>1, <3>2, <1>1, <1>3
  <2>3. After(t, a) \in Nat /\ After(t, b) \in Nat /\ After(t, b - 1) \in Nat
    BY <1>1, <1>3
  <2>4. first \in Nat /\ stop \in Nat
    BY <1>1
  <2> QED BY <2>1, <2>2, <2>3, <2>4
<1>5. Bytes(t, first, After(t, a)) = (After(t, a) - first) * RunOf(t, a).value
  BY <1>2, <1>4, BytesInRun
<1>6. /\ Bytes(t, After(t, a), After(t, b)) = SumOver(RunBytes(t), a + 1, b)
      /\ SumOver(RunBytes(t), a + 1, b) \in Nat
  BY <1>3, BytesOfRuns
<1>7. Bytes(t, stop, After(t, b)) = (After(t, b) - stop) * RunOf(t, b).value
  <2>1. After(t, b - 1) <= stop
    BY <1>2, <1>4
  <2> QED BY <2>1, <1>2, <1>4, BytesInRun
<1>8. /\ Bytes(t, first, After(t, b)) = Bytes(t, first, After(t, a)) + Bytes(t, After(t, a), After(t, b))
      /\ Bytes(t, first, After(t, a)) \in Nat
  BY <1>2, <1>4, BytesSplit
<1>9. /\ Bytes(t, first, After(t, b)) = Bytes(t, first, stop) + Bytes(t, stop, After(t, b))
      /\ Bytes(t, first, stop) \in Nat /\ Bytes(t, stop, After(t, b)) \in Nat
  BY <1>2, <1>4, BytesSplit
<1>10. SizeOf(t, first, stop) = (After(t, a) - first) * RunOf(t, a).value
          + SumOver(RunBytes(t), a + 1, b) - (After(t, b) - stop) * RunOf(t, b).value
  <2>1. Max({a, b}) = b
    <3>1. b \in {a, b} /\ {a, b} \subseteq Int /\ \A y \in {a, b} : b >= y
      BY <1>2, <1>3
    <3> QED BY <3>1, MaxIs
  <2>2. Max({Reaching(t, first), Reaching(t, stop)}) = b
    BY <2>1 DEF a, b
  <2> QED BY <2>2 DEF SizeOf, a, b
<1> QED BY <1>5, <1>6, <1>7, <1>8, <1>9, <1>10

(* Where write_chunk's walk over the runs stands after w samples: the run   *)
(* of the last one and what of it is left.                                  *)
RunAt(T, w) == Min({k \in 1..Len(T.sizes) : SamplesIn(T.sizes, k) >= w})

MdatAt(T, w) ==
    IF w = 0 THEN [run |-> 0, left |-> 0]
    ELSE [run |-> RunAt(T, w), left |-> SamplesIn(T.sizes, RunAt(T, w)) - w]

(* The bytes of a track's samples.                                          *)
BytesOf(T, i, j) ==
    SumOver([q \in 0..(Len(T.dts) - 1) |->
                T.sizes[Min({k \in 1..Len(T.sizes) : SamplesIn(T.sizes, k) > q})].value],
            i, j - 1)

LEMMA BytesOfTrack ==
    ASSUME NEW t, NEW i, NEW j PROVE Bytes(t, i, j) = BytesOf(movie[t], i, j)
BY DEF Bytes, BytesOf, SampleSize, RunOf, After, Num

(* A step of that walk.                                                     *)
ReadNext(t, prev) ==
    LET r == IF prev.left = 0 THEN prev.run + 1 ELSE prev.run
        l == IF prev.left = 0 THEN RunOf(t, r).count ELSE prev.left
    IN  [run |-> r, left |-> l - 1, bytes |-> prev.bytes + RunOf(t, r).value]

LEMMA MdatAtType ==
    ASSUME NEW t \in Tracks, movie[t] \in Track, IsPlanned(movie[t]), NEW w \in 0..Num(t)
    PROVE  /\ MdatAt(movie[t], w).run \in 0..Len(movie[t].sizes) /\ MdatAt(movie[t], w).left \in Nat
           /\ MdatAt(movie[t], w) = [run |-> MdatAt(movie[t], w).run, left |-> MdatAt(movie[t], w).left]
           /\ After(t, MdatAt(movie[t], w).run) - MdatAt(movie[t], w).left = w
           /\ After(t, MdatAt(movie[t], w).run) \in Nat
<1>1. /\ Len(movie[t].sizes) \in Nat /\ Num(t) \in Nat /\ After(t, 0) = 0
      /\ \A k \in 0..Len(movie[t].sizes) : After(t, k) \in Nat
  BY TrackTypes, RunsCover DEF After, Num
<1>2. CASE w = 0
  BY <1>1, <1>2 DEF MdatAt, RunAt, Reaching, After
<1>3. CASE w # 0
  <2>1. /\ Reaching(t, w) \in 1..Len(movie[t].sizes) /\ After(t, Reaching(t, w)) >= w
    BY Reached
  <2>2. MdatAt(movie[t], w) = [run |-> Reaching(t, w), left |-> After(t, Reaching(t, w)) - w]
    BY <1>3 DEF MdatAt, RunAt, Reaching, After
  <2> QED BY <2>1, <2>2, <1>1
<1> QED BY <1>2, <1>3

LEMMA OneRead ==
    ASSUME NEW t \in Tracks, movie[t] \in Track, IsPlanned(movie[t]),
           NEW w \in 0..(Num(t) - 1), NEW n \in Nat
    PROVE  ReadNext(t, [run |-> MdatAt(movie[t], w).run, left |-> MdatAt(movie[t], w).left, bytes |-> n])
             = [run |-> MdatAt(movie[t], w + 1).run, left |-> MdatAt(movie[t], w + 1).left,
                bytes |-> n + SampleSize(t)[w]]
<1> DEFINE r == Len(movie[t].sizes)
           m == MdatAt(movie[t], w).run
           l == MdatAt(movie[t], w).left
           q == Reaching(t, w + 1)
<1>1. /\ r \in Nat /\ Num(t) \in Nat /\ After(t, r) = Num(t)
      /\ \A k \in 0..r : After(t, k) \in Nat
      /\ \A i, j \in 0..r : i < j => After(t, i) < After(t, j)
      /\ \A k \in 1..r : /\ RunOf(t, k).count \in Nat \ {0}
                         /\ After(t, k) = After(t, k - 1) + RunOf(t, k).count
  BY TrackTypes, RunsCover DEF After, Num, RunOf
<1>2. w \in 0..Num(t) /\ w + 1 \in 0..Num(t) /\ w + 1 # 0 /\ w < Num(t)
  BY <1>1
<1>3. m \in 0..r /\ l \in Nat /\ After(t, m) - l = w /\ After(t, m) \in Nat
  BY <1>2, MdatAtType
<1>4. MdatAt(movie[t], w + 1) = [run |-> q, left |-> After(t, q) - (w + 1)]
  BY <1>2 DEF MdatAt, RunAt, Reaching, After
<1>5. SampleSize(t)[w] = RunOf(t, q).value
  BY SizeInRun
<1>6. ReadNext(t, [run |-> m, left |-> l, bytes |-> n])
        = [run   |-> IF l = 0 THEN m + 1 ELSE m,
           left  |-> (IF l = 0 THEN RunOf(t, IF l = 0 THEN m + 1 ELSE m).count ELSE l) - 1,
           bytes |-> n + RunOf(t, IF l = 0 THEN m + 1 ELSE m).value]
  BY DEF ReadNext
<1>7. ASSUME w # 0 PROVE m = Reaching(t, w) /\ m \in 1..r /\ After(t, m - 1) < w
  <2>1. MdatAt(movie[t], w) = [run |-> Reaching(t, w), left |-> After(t, Reaching(t, w)) - w]
    BY <1>7 DEF MdatAt, RunAt, Reaching, After
  <2>2. w > 0
    BY <1>2, <1>7
  <2> QED BY <2>1, <2>2, <1>2, Reached
<1>8. ASSUME w = 0 PROVE m = 0 /\ l = 0
  BY <1>8 DEF MdatAt, RunAt, Reaching, After
<1>9. \A k \in 1..r : After(t, k - 1) < w + 1 /\ w + 1 <= After(t, k) => q = k
  BY <1>2, Reached
<1> SUFFICES ReadNext(t, [run |-> m, left |-> l, bytes |-> n])
               = [run |-> MdatAt(movie[t], w + 1).run, left |-> MdatAt(movie[t], w + 1).left,
                  bytes |-> n + SampleSize(t)[w]]
  OBVIOUS
<1>12. [run |-> MdatAt(movie[t], w + 1).run, left |-> MdatAt(movie[t], w + 1).left,
       bytes |-> n + SampleSize(t)[w]]
        = [run |-> q, left |-> After(t, q) - (w + 1), bytes |-> n + RunOf(t, q).value]
  BY <1>4, <1>5
<1> HIDE DEF m, l, q
<1>10. CASE l = 0
  <2> DEFINE k == m + 1
  <2>1. After(t, m) = w
    BY <1>3, <1>10
  <2>2. m # r
    BY <2>1, <1>1, <1>2
  <2>3. k \in 1..r /\ k - 1 = m
    BY <2>2, <1>1, <1>3
  <2> HIDE DEF k
  <2>4. /\ After(t, k) = w + RunOf(t, k).count /\ RunOf(t, k).count \in Nat \ {0}
        /\ After(t, k - 1) = w
    BY <2>1, <2>3, <1>1
  <2>5. q = k
    <3>1. After(t, k - 1) < w + 1 /\ w + 1 <= After(t, k)
      BY <2>4, <1>2
    <3> QED BY <3>1, <2>3, <1>9
  <2>6. RunOf(t, k).count - 1 = After(t, q) - (w + 1)
    BY <2>4, <2>5, <1>2
  <2>7. ReadNext(t, [run |-> m, left |-> l, bytes |-> n])
          = [run |-> k, left |-> RunOf(t, k).count - 1, bytes |-> n + RunOf(t, k).value]
    BY <1>6, <1>10 DEF k
  <2> QED BY <2>5, <2>6, <2>7, <1>12
<1>11. CASE l # 0
  <2>1. w # 0
    BY <1>8, <1>11
  <2>2. m \in 1..r /\ After(t, m - 1) < w
    BY <2>1, <1>7
  <2>3. w + 1 <= After(t, m) /\ l - 1 = After(t, m) - (w + 1)
    BY <1>2, <1>3, <1>11
  <2>4. m - 1 \in 0..r
    BY <2>2, <1>1
  <2>5. After(t, m - 1) < w + 1
    BY <2>2, <2>4, <1>1, <1>2, SMTT(40), ZenonT(40)
  <2>6. q = m
    BY <2>2, <2>3, <2>5, <1>9
  <2>7. ReadNext(t, [run |-> m, left |-> l, bytes |-> n])
          = [run |-> m, left |-> l - 1, bytes |-> n + RunOf(t, m).value]
    BY <1>6, <1>11
  <2> QED BY <2>3, <2>6, <2>7, <1>12
<1> QED BY <1>10, <1>11 DEF m, l

(* write_chunk's walk finds the bytes of the samples, too.                  *)
LEMMA ReadIsBytes ==
    ASSUME NEW t \in Tracks, movie[t] \in Track, IsPlanned(movie[t]),
           NEW w \in 0..Num(t), NEW n \in Nat, w + n <= Num(t),
           mdatSizes[t] = MdatAt(movie[t], w)
    PROVE  ReadSizes(t, n) = [run   |-> MdatAt(movie[t], w + n).run,
                              left  |-> MdatAt(movie[t], w + n).left,
                              bytes |-> Bytes(t, w, w + n)]
<1> DEFINE base == [run |-> mdatSizes[t].run, left |-> mdatSizes[t].left, bytes |-> 0]
           g == [k \in 0..n |-> [run   |-> MdatAt(movie[t], w + k).run,
                                 left  |-> MdatAt(movie[t], w + k).left,
                                 bytes |-> Bytes(t, w, w + k)]]
           Fits(h) == h = [k \in 0..n |-> IF k = 0 THEN base ELSE ReadNext(t, h[k - 1])]
           f == CHOOSE h : Fits(h)
<1>0. Num(t) \in Nat /\ w \in Nat
  BY TrackTypes DEF Num
<1>1. ReadSizes(t, n) = f[n]
  BY DEF ReadSizes, ReadNext
<1>2. g[0] = base
  <2>1. Bytes(t, w, w) = 0
    <3>1. w \in Int /\ w - 1 \in Int /\ w - 1 < w
      BY <1>0
    <3> QED BY <3>1, SumEmpty DEF Bytes
  <2>2. g[0] = [run |-> MdatAt(movie[t], w).run, left |-> MdatAt(movie[t], w).left, bytes |-> Bytes(t, w, w)]
    <3>1. 0 \in 0..n /\ w + 0 = w
      BY <1>0
    <3> QED BY <3>1
  <2> QED BY <2>1, <2>2
<1>3. ASSUME NEW k \in 1..n PROVE g[k] = ReadNext(t, g[k - 1])
  <2>1. /\ k \in 0..n /\ k - 1 \in 0..n /\ w + (k - 1) \in 0..(Num(t) - 1)
        /\ w + (k - 1) + 1 = w + k /\ w + (k - 1) \in Nat /\ w + k \in Nat
        /\ w + k <= Num(t) /\ w <= w + (k - 1) /\ w + (k - 1) <= w + k
    BY <1>0
  <2>2. /\ Bytes(t, w, w + (k - 1)) \in Nat
        /\ Bytes(t, w, w + k) = Bytes(t, w, w + (k - 1)) + SampleSize(t)[w + (k - 1)]
    <3>1. Bytes(t, w, w + (k - 1)) \in Nat
      BY <1>0, <2>1, BytesSplit
    <3>2. w \in Int /\ w + (k - 1) \in Int /\ w <= w + (k - 1)
      BY <1>0, <2>1
    <3>3. SumOver(SampleSize(t), w, w + (k - 1))
            = SumOver(SampleSize(t), w, w + (k - 1) - 1) + SampleSize(t)[w + (k - 1)]
      BY <3>2, SumNext
    <3>4. w + k - 1 = w + (k - 1)
      BY <1>0, <2>1
    <3> QED BY <3>1, <3>3, <3>4 DEF Bytes
  <2>3. g[k - 1] = [run   |-> MdatAt(movie[t], w + (k - 1)).run,
                    left  |-> MdatAt(movie[t], w + (k - 1)).left,
                    bytes |-> Bytes(t, w, w + (k - 1))]
    BY <2>1
  <2>4. g[k] = [run |-> MdatAt(movie[t], w + k).run, left |-> MdatAt(movie[t], w + k).left,
                bytes |-> Bytes(t, w, w + k)]
    BY <2>1
  <2> HIDE DEF g
  <2>5. ReadNext(t, g[k - 1]) = [run   |-> MdatAt(movie[t], w + (k - 1) + 1).run,
                                 left  |-> MdatAt(movie[t], w + (k - 1) + 1).left,
                                 bytes |-> Bytes(t, w, w + (k - 1)) + SampleSize(t)[w + (k - 1)]]
    BY <2>1, <2>2, <2>3, OneRead
  <2> QED BY <2>1, <2>2, <2>4, <2>5
<1>4. Fits(g)
  <2> DEFINE h == [k \in 0..n |-> IF k = 0 THEN base ELSE ReadNext(t, g[k - 1])]
  <2>1. \A k \in 0..n : g[k] = h[k]
    <3> SUFFICES ASSUME NEW k \in 0..n PROVE g[k] = h[k]
      OBVIOUS
    <3>1. h[k] = IF k = 0 THEN base ELSE ReadNext(t, g[k - 1])
      OBVIOUS
    <3> HIDE DEF g, h, base
    <3>2. k # 0 => k \in 1..n
      OBVIOUS
    <3> QED BY <3>1, <3>2, <1>2, <1>3
  <2>2. DOMAIN g = 0..n /\ DOMAIN h = 0..n
    OBVIOUS
  <2>3. g = h
    BY <2>1, <2>2
  <2> QED BY <2>3
<1>5. Fits(f)
  <2> HIDE DEF Fits
  <2> QED BY <1>4
<1> HIDE DEF f
<1>6. f[0] = base /\ \A k \in 1..n : f[k] = ReadNext(t, f[k - 1])
  <2> DEFINE h == [k \in 0..n |-> IF k = 0 THEN base ELSE ReadNext(t, f[k - 1])]
  <2>1. f = h
    BY <1>5
  <2>2. h[0] = base /\ \A k \in 1..n : h[k] = ReadNext(t, f[k - 1])
    OBVIOUS
  <2> HIDE DEF h
  <2> QED BY <2>1, <2>2
<1> DEFINE S == {k \in 0..n : f[k] = g[k]}
<1> HIDE DEF g, base, Fits
<1>7. 0 \in S
  BY <1>2, <1>6
<1>8. \A k \in 0..(n - 1) : k \in S => k + 1 \in S
  <2> SUFFICES ASSUME NEW k \in 0..(n - 1), k \in S PROVE k + 1 \in S
    OBVIOUS
  <2>1. k + 1 \in 1..n /\ k + 1 \in 0..n /\ k + 1 - 1 = k
    OBVIOUS
  <2>2. f[k + 1] = ReadNext(t, f[k]) /\ g[k + 1] = ReadNext(t, g[k])
    BY <2>1, <1>3, <1>6
  <2> QED BY <2>1, <2>2
<1> HIDE DEF S
<1>9. n \in S
  <2>1. 0 \in Int /\ n \in Int /\ n \in 0..n
    OBVIOUS
  <2> QED BY ONLY <1>7, <1>8, <2>1, Upwards
<1>10. f[n] = g[n]
  BY <1>9 DEF S
<1> QED BY <1>1, <1>10 DEF g
-----------------------------------------------------------------------------
(* What the variables range over.                                           *)
Fragment   == [track : Nat, first : Nat, stop : Nat, sdi : Nat, moof : Nat,
               data : Nat, bytes : Nat, planned : Nat]

PlanKinds ==
    /\ movie \in Movies /\ cfg \in Configs
    /\ segNext \in [Tracks -> Nat] /\ fragDts \in [Tracks -> Nat]
    /\ fragDuration \in [Tracks -> Nat] /\ fragSize \in [Tracks -> Nat]
    /\ queue \subseteq Tracks /\ turn \in Tracks /\ rounds \in 0..(ShortRange - 1)
    /\ phase \in {"start", "fragments", "not supported", "done", "failed"}

OutKinds ==
    /\ written \in [Tracks -> Nat]
    /\ sdNext \in [Tracks -> Nat] /\ sdIndex \in [Tracks -> Nat]
    /\ mdatSizes \in [Tracks -> [run : Nat, left : Nat]]
    /\ subsegments \in Seq([size : Nat, duration : Nat])
    /\ pos \in Nat
    /\ out \in Seq(Fragment)

(* The next fragment of a track to be written: a track that is queued has   *)
(* taken it from segment_lst.                                               *)
Due(t) == IF t \in queue THEN segNext[t] - 1 ELSE segNext[t]

DueEdge(t)  == Edge(movie[t], Due(t))
NextEdge(t) == Edge(movie[t], segNext[t])

(* A track's samples are written up to the fragment that is due, and        *)
(* frag_dts is when the one to be prepared next starts.                     *)
CursorAt(t) ==
    /\ segNext[t] \in 1..(Len(movie[t].plan) + 1)
    /\ Due(t) \in 1..(Len(movie[t].plan) + 1)
    /\ written[t] = DueEdge(t)
    /\ fragDts[t] <= NoDts
    /\ (cfg.ccff \/ segNext[t] <= Len(movie[t].plan)) =>
          fragDts[t] = TimeAt(movie[t], NextEdge(t))
    /\ t \in queue =>
          /\ fragSize[t] = BytesOf(movie[t], DueEdge(t), NextEdge(t))
          /\ fragDuration[t] = TimeAt(movie[t], NextEdge(t)) - TimeAt(movie[t], DueEdge(t))

Cursor == /\ cfg.ccff \/ queue = {}
          /\ \A t \in Tracks : CursorAt(t)

(* write_chunk's walk stands where the track's samples do, unless it failed.*)
MdatCursor == \A t \in Tracks :
    /\ mdatSizes[t].run <= Len(movie[t].sizes)
    /\ phase # "failed" => mdatSizes[t] = MdatAt(movie[t], written[t])

(* The description cursor of the first track has passed those of the        *)
(* samples written; those of the others have been at their end from the     *)
(* start.                                                                   *)
SdCursor == \A t \in Tracks :
    /\ t = 1 => /\ sdNext[t] \in 1..(Len(movie[t].sds) + 1)
                /\ \A d \in 1..Len(movie[t].sds) :
                      d < sdNext[t] <=> movie[t].sds[d] < written[t]
                /\ sdIndex[t] = IF sdNext[t] = 1 THEN 1 ELSE sdNext[t] - 1
    /\ t # 1 => sdNext[t] = Len(movie[t].sds) + 1 /\ sdIndex[t] = 1

(* What the fragments written are.                                          *)
DescriptionIn(T, first) == Cardinality({d \in DOMAIN T.sds : T.sds[d] <= first})

WrittenAt(t, i) ==
    LET n == Nth(t, i)
        o == out[i]
    IN  /\ n \in 1..(Due(t) - 1)
        /\ o.first = Edge(movie[t], n) /\ o.stop = Edge(movie[t], n + 1)
        /\ o.bytes = BytesOf(movie[t], o.first, o.stop)
        /\ cfg.ccff => o.planned = o.bytes
        /\ t = 1 => o.sdi = DescriptionIn(movie[t], o.first)

Written == \A i \in 1..Len(out) :
    out[i].track \in Tracks /\ \A t \in Tracks : out[i].track = t => WrittenAt(t, i)

Counts == phase # "failed" => \A t \in Tracks : Cardinality(FragmentsOf(t)) = Due(t) - 1

(* Where they are.                                                          *)
Placed == \A i \in 1..Len(out) :
    /\ out[i].data = out[i].moof + MoofSize + 8
    /\ i < Len(out) => out[i + 1].moof = out[i].data + out[i].bytes
    /\ i = Len(out) /\ phase # "failed" => pos = out[i].data + out[i].bytes

Begin == phase = "start" => /\ queue = {} /\ turn = 1 /\ rounds = 0
                            /\ \A t \in Tracks : segNext[t] = 1

WriterInv == /\ PlanKinds /\ OutKinds /\ Cursor /\ MdatCursor /\ SdCursor
             /\ Written /\ Counts /\ Placed /\ Begin

(* The order in CCFF style: those queued start no later than any other      *)
(* fragment that is due, and the last one written did not either.           *)
DueTime(t) == InMicros(t, TimeAt(movie[t], DueEdge(t)))

Scheduled == cfg.ccff =>
    /\ \A t \in queue : \A u \in Tracks : HasSamples(u) => DueTime(t) <= DueTime(u)
    /\ out # << >> => \A u \in Tracks : HasSamples(u) => StartOf(out[Len(out)]) <= DueTime(u)

(* What 'sidx' counts, the default style counts its rounds with: a track's  *)
(* fragments, if not too many.                                              *)
CountsFit == \/ \A c \in Configs : c.ccff
             \/ \A m \in Movies : \A t \in DOMAIN m : Len(m[t].plan) < ShortRange

(* The rounds left are the fragments left of each track; those that have    *)
(* had their turn in this one have one less.  A finished file has all.      *)
Rounds ==
    /\ (~cfg.ccff /\ phase \notin {"start", "not supported"}) =>
          /\ \A t \in Tracks : segNext[t] + rounds =
                Len(movie[t].plan) + 1 + (IF t < turn THEN 1 ELSE 0)
          /\ rounds = 0 => turn = 1
    /\ phase = "done" => \A t \in Tracks : Due(t) = Len(movie[t].plan) + 1

(* The entries of 'sidx' keep up with the first track's fragments until     *)
(* there are as many as were counted, each the size and time of its own.    *)
EntryIs(n) == \E i \in FragmentsOf(1) :
    /\ Nth(1, i) = n
    /\ subsegments[n].size = MoofSize + 8 + out[i].bytes
    /\ (cfg.ccff \/ n < Len(movie[1].plan)) =>
          subsegments[n].duration = TimeAt(movie[1], Edge(movie[1], n + 1))
                                      - TimeAt(movie[1], Edge(movie[1], n))

SidxInv ==
    (~cfg.ccff \/ Len(movie) = 1) =>
        /\ phase # "failed" =>
              \/ Len(subsegments) = Cardinality(FragmentsOf(1))
              \/ /\ Len(subsegments) < Cardinality(FragmentsOf(1))
                 /\ Len(subsegments) >= RefCount(1)
        /\ \A n \in 1..Len(subsegments) : EntryIs(n)

-----------------------------------------------------------------------------
LEMMA MovieTracks ==
    ASSUME movie \in Movies
    PROVE  /\ Tracks = 1..Len(movie) /\ Len(movie) \in Nat /\ Len(movie) > 0
           /\ 1 \in Tracks
           /\ \A t \in Tracks : /\ movie[t] \in Track /\ IsPlanned(movie[t])
                                /\ t \in Nat
<1>1. movie \in Seq(Track) /\ movie # << >> /\ \A t \in 1..Len(movie) : IsPlanned(movie[t])
  BY FragmentWriterAssumption
<1> DEFINE R == Track
<1>2. movie \in Seq(R)
  BY <1>1
<1> HIDE DEF R
<1>3. DOMAIN movie = 1..Len(movie) /\ Len(movie) \in Nat /\ Len(movie) > 0
  BY <1>1, <1>2
<1>4. \A t \in 1..Len(movie) : movie[t] \in R
  BY <1>2
<1> QED BY <1>1, <1>3, <1>4 DEF Tracks, R

(* The planned fragments of a track, as its list gives them.                *)
LEMMA PlanOfTrack ==
    ASSUME movie \in Movies, NEW t \in Tracks, NEW k \in 1..Len(movie[t].plan)
    PROVE  /\ Edge(movie[t], k) \in Nat /\ Edge(movie[t], k + 1) \in Nat
           /\ Edge(movie[t], k) < Edge(movie[t], k + 1)
           /\ Edge(movie[t], k + 1) <= Num(t)
           /\ Edge(movie[t], k + 1) = Num(t) <=> k = Len(movie[t].plan)
           /\ movie[t].plan[k].start = Edge(movie[t], k)
           /\ movie[t].plan[k].stop = Edge(movie[t], k + 1)
           /\ Num(t) \in Nat /\ Num(t) > 0
<1> DEFINE T == movie[t]
           n == Len(T.plan)
<1>1. T \in Track /\ IsPlanned(T)
  BY MovieTracks
<1>2. n \in Nat /\ Num(t) \in Nat /\ Num(t) > 0
  BY <1>1, TrackTypes DEF Num
<1>3. k \in 1..(n + 1) /\ k + 1 \in 1..(n + 1) /\ n + 1 \in 1..(n + 1) /\ k < k + 1
  BY <1>2
<1>4. /\ Edge(T, k) \in 0..Num(t) /\ Edge(T, k + 1) \in 0..Num(t)
      /\ Edge(T, k) < Edge(T, k + 1) /\ Edge(T, n + 1) = Num(t)
      /\ k + 1 < n + 1 => Edge(T, k + 1) < Edge(T, n + 1)
      /\ T.plan[k].start = Edge(T, k) /\ T.plan[k].stop = Edge(T, k + 1)
  BY <1>1, <1>3, PlanEdges DEF Num
<1>5. Edge(T, k + 1) = Num(t) <=> k = n
  <2>1. CASE k = n
    BY <2>1, <1>4
  <2>2. CASE k # n
    <3>1. k + 1 < n + 1
      BY <2>2, <1>2
    <3> QED BY <3>1, <2>2, <1>2, <1>4
  <2> QED BY <2>1, <2>2
<1> QED BY <1>2, <1>4, <1>5

(* A decode time in the list is when a sample starts.                       *)
LEMMA DtsIsTime ==
    ASSUME movie \in Movies, NEW t \in Tracks
    PROVE  /\ \A i \in 0..(Num(t) - 1) : /\ DtsFromIdx(t, i) = TimeAt(movie[t], i)
                                         /\ DtsFromIdx(t, i) \in Nat
           /\ \A i \in 0..Num(t) : TimeAt(movie[t], i) \in Nat /\ 2 * TimeAt(movie[t], i) <= NoDts
           /\ \A i, j \in 0..Num(t) : i < j => TimeAt(movie[t], i) < TimeAt(movie[t], j)
           /\ TimeAt(movie[t], Num(t)) = movie[t].duration
           /\ DtsFromIdx(t, 0) = 0 /\ TimeAt(movie[t], 0) = 0
           /\ Num(t) \in Nat /\ Num(t) > 0
<1>1. movie[t] \in Track /\ IsPlanned(movie[t])
  BY MovieTracks
<1>2. Num(t) = Len(movie[t].dts) /\ Num(t) \in Nat /\ Num(t) > 0
  BY <1>1, TrackTypes DEF Num
<1>3. \A i \in 0..(Num(t) - 1) : i < Num(t) /\ i \in 0..Num(t)
  BY <1>2
<1>4. \A i \in 0..(Num(t) - 1) : DtsFromIdx(t, i) = TimeAt(movie[t], i)
  BY <1>2, <1>3 DEF DtsFromIdx, TimeAt
<1>5. /\ \A i \in 0..Num(t) : TimeAt(movie[t], i) \in Nat /\ 2 * TimeAt(movie[t], i) <= NoDts
      /\ \A i, j \in 0..Num(t) : i < j => TimeAt(movie[t], i) < TimeAt(movie[t], j)
      /\ TimeAt(movie[t], 0) = 0 /\ TimeAt(movie[t], Num(t)) = movie[t].duration
  BY <1>1, <1>2, TimesGrow
<1>6. 0 \in 0..(Num(t) - 1)
  BY <1>2
<1> QED BY <1>2, <1>3, <1>4, <1>5, <1>6

(* By decode time a fragment stops where it does by sample number, if       *)
(* frag_dts is the time of the sample it stops before or, for the last one, *)
(* any later time than that of the last sample.                             *)
LEMMA StopIs ==
    ASSUME movie \in Movies, NEW t \in Tracks, NEW e \in 0..Num(t),
           written[t] \in 0..e, fragDts'[t] \in Nat,
           e < Num(t) => fragDts'[t] = TimeAt(movie[t], e),
           e = Num(t) => DtsFromIdx(t, Num(t) - 1) < fragDts'[t]
    PROVE  StopIdx(t) = e
<1> DEFINE n == Num(t)
           w == written[t]
           d == fragDts'[t]
           S == {i \in w..(n - 1) : DtsFromIdx(t, i) >= d} \cup {n}
<1>1. /\ n \in Nat /\ n > 0
      /\ \A i \in 0..(n - 1) : DtsFromIdx(t, i) = TimeAt(movie[t], i)
      /\ \A i \in 0..n : TimeAt(movie[t], i) \in Nat
      /\ \A i, j \in 0..n : i < j => TimeAt(movie[t], i) < TimeAt(movie[t], j)
  BY DtsIsTime
<1>2. w \in Nat /\ w <= e /\ e <= n /\ e \in Nat
  BY <1>1
<1>3. StopIdx(t) = Min(S)
  BY DEF StopIdx
<1>4. S \subseteq Int
  BY <1>1, <1>2
<1>5. e \in S
  <2>1. CASE e < n
    <3>1. e \in w..(n - 1) /\ e \in 0..(n - 1)
      BY <2>1, <1>1, <1>2
    <3>2. DtsFromIdx(t, e) = d /\ d \in Nat
      BY <3>1, <2>1, <1>1
    <3> QED BY <3>1, <3>2
  <2>2. CASE e = n
    BY <2>2
  <2> QED BY <2>1, <2>2, <1>1, <1>2
<1>6. \A y \in S : e <= y
  <2> SUFFICES ASSUME NEW y \in S, y < e PROVE FALSE
    BY <1>2, <1>4
  <2>1. y \in w..(n - 1) /\ DtsFromIdx(t, y) >= d /\ y \in 0..(n - 1) /\ y \in 0..n
    BY <1>1, <1>2
  <2>2. DtsFromIdx(t, y) = TimeAt(movie[t], y) /\ TimeAt(movie[t], y) \in Nat
    BY <2>1, <1>1
  <2>3. CASE e < n
    <3>1. e \in 0..n /\ d = TimeAt(movie[t], e)
      BY <2>3, <1>1, <1>2
    <3>2. TimeAt(movie[t], y) < TimeAt(movie[t], e)
      BY <3>1, <2>1, <1>1
    <3> QED BY <3>1, <3>2, <2>1, <2>2
  <2>4. CASE e = n
    <3>1. n - 1 \in 0..n /\ n - 1 \in 0..(n - 1) /\ (y < n - 1 \/ y = n - 1)
      BY <2>1, <1>1
    <3>2. TimeAt(movie[t], y) <= TimeAt(movie[t], n - 1) /\ TimeAt(movie[t], n - 1) \in Nat
      BY <3>1, <2>1, <2>2, <1>1
    <3>3. DtsFromIdx(t, n - 1) = TimeAt(movie[t], n - 1)
      BY <3>1, <1>1
    <3>4. TimeAt(movie[t], n - 1) < d
      BY <3>3, <2>4
    <3> QED BY <3>2, <3>4, <2>1, <2>2
  <2> QED BY <2>3, <2>4, <1>1, <1>2
<1> HIDE DEF S
<1> QED BY <1>3, <1>4, <1>5, <1>6, MinIs

LEMMA InitInv == Init => WriterInv
<1> SUFFICES ASSUME Init PROVE WriterInv
  OBVIOUS
<1> USE DEF Init
<1>1. movie \in Movies /\ cfg \in Configs
  OBVIOUS
<1>2. /\ Tracks = 1..Len(movie) /\ 1 \in Tracks
      /\ \A t \in Tracks : movie[t] \in Track /\ IsPlanned(movie[t])
  BY <1>1, MovieTracks
<1>3. ShortRange \in Nat \ {0} /\ NoDts \in Nat
  BY FragmentWriterAssumption
<1>4. ASSUME NEW t \in Tracks
      PROVE  /\ Len(movie[t].plan) \in Nat /\ Len(movie[t].plan) > 0
             /\ Len(movie[t].sds) \in Nat /\ Len(movie[t].sds) > 0
             /\ \A d \in 1..Len(movie[t].sds) : movie[t].sds[d] \in Nat
             /\ Len(movie[t].sizes) \in Nat
             /\ Edge(movie[t], 1) = 0 /\ TimeAt(movie[t], 0) = 0
  BY <1>1, <1>2, TrackTypes, PlanEdges, TimesGrow
<1>5. PlanKinds
  BY <1>1, <1>2, <1>3 DEF PlanKinds
<1>6. OutKinds
  <2>1. /\ written \in [Tracks -> Nat] /\ sdIndex \in [Tracks -> Nat]
        /\ mdatSizes \in [Tracks -> [run : Nat, left : Nat]] /\ pos \in Nat
    OBVIOUS
  <2>2. sdNext \in [Tracks -> Nat]
    BY <1>4
  <2>3. subsegments \in Seq([size : Nat, duration : Nat]) /\ out \in Seq(Fragment)
    OBVIOUS
  <2> QED BY <2>1, <2>2, <2>3 DEF OutKinds
<1>7. \A t \in Tracks : Due(t) = 1 /\ DueEdge(t) = 0 /\ NextEdge(t) = 0
  BY <1>4 DEF Due, DueEdge, NextEdge
<1>8. Cursor
  BY <1>3, <1>4, <1>7 DEF Cursor, CursorAt
<1>9. MdatCursor
  BY <1>4 DEF MdatCursor, MdatAt
<1>10. SdCursor
  BY <1>4 DEF SdCursor
<1>11. Len(out) = 0
  OBVIOUS
<1>12. Written /\ Placed
  BY <1>11 DEF Written, Placed
<1>13. Counts
  <2>1. \A t \in Tracks : FragmentsOf(t) = {}
    BY <1>11 DEF FragmentsOf
  <2>2. Cardinality({}) = 0
    BY FS_EmptySet
  <2>3. ASSUME NEW t \in Tracks PROVE Cardinality(FragmentsOf(t)) = Due(t) - 1
    <3>1. Cardinality(FragmentsOf(t)) = 0
      BY <2>1, <2>2
    <3>2. Due(t) = 1
      BY <1>7
    <3> HIDE DEF Init
    <3> QED BY ONLY <3>1, <3>2
  <2> QED BY <2>3 DEF Counts
<1>14. Begin
  BY DEF Begin
<1> QED BY <1>5, <1>6, <1>8, <1>9, <1>10, <1>12, <1>13, <1>14 DEF WriterInv
-----------------------------------------------------------------------------
(* A step that writes the fragment that is due of a track, whichever style  *)
(* has chosen it, and one that writes none.                                 *)
NewEdge(t) == Edge(movie[t], Due(t) + 1)

NewFragment(t) ==
    [track |-> t, first |-> DueEdge(t), stop |-> NewEdge(t), sdi |-> SdIndexNow(t),
     moof |-> pos, data |-> pos + MoofSize + 8, bytes |-> BytesOf(movie[t], DueEdge(t), NewEdge(t)),
     planned |-> fragSize'[t]]

Moves(t) ==
    /\ movie' = movie /\ cfg' = cfg
    /\ phase = "fragments"
    /\ Due(t) <= Len(movie[t].plan)
    /\ \A u \in Tracks : Due(u)' = IF u = t THEN Due(u) + 1 ELSE Due(u)
    /\ written' = [written EXCEPT ![t] = NewEdge(t)]
    /\ sdNext' = [sdNext EXCEPT ![t] = IF NewSd(t) THEN @ + 1 ELSE @]
    /\ sdIndex' = [sdIndex EXCEPT ![t] = SdIndexNow(t)]

Succeeds(t) ==
    /\ phase' = phase
    /\ out' = Append(out, NewFragment(t))
    /\ cfg.ccff => fragSize'[t] = BytesOf(movie[t], DueEdge(t), NewEdge(t))
    /\ mdatSizes' = [mdatSizes EXCEPT ![t] = MdatAt(movie[t], NewEdge(t))]
    /\ pos' = pos + MoofSize + 8 + BytesOf(movie[t], DueEdge(t), NewEdge(t))
    /\ subsegments' =
          IF (cfg.ccff \/ t = 1) /\ Len(subsegments) < RefCount(1)
          THEN Append(subsegments, Subsegment(BytesOf(movie[t], DueEdge(t), NewEdge(t)), t))
          ELSE subsegments

Fails ==
    /\ phase' = "failed"
    /\ pos' = pos + MoofSize + 8
    /\ UNCHANGED <<out, mdatSizes, subsegments>>

Writes(t) == Moves(t) /\ (Succeeds(t) \/ Fails)

Keeps ==
    /\ UNCHANGED <<movie, cfg, written, sdNext, sdIndex, mdatSizes, subsegments, pos, out>>
    /\ \A u \in Tracks : Due(u)' = Due(u)
    /\ phase' = "failed" <=> phase = "failed"

(* The writing of both boxes, once frag_dts says where to stop.             *)
LEMMA BoxesWrite ==
    ASSUME WriterInv, NEW t \in Tracks, Due(t) <= Len(movie[t].plan),
           phase = "fragments", UNCHANGED <<movie, cfg>>,
           \A u \in Tracks : Due(u)' = IF u = t THEN Due(u) + 1 ELSE Due(u),
           StopIdx(t) = NewEdge(t),
           cfg.ccff => fragSize'[t] = BytesOf(movie[t], DueEdge(t), NewEdge(t)),
           MoofBox(t), (MdatBox(t) /\ phase' = phase) \/ MdatFails(t)
    PROVE  Writes(t)
<1>1. movie \in Movies /\ movie[t] \in Track /\ IsPlanned(movie[t])
  BY MovieTracks DEF WriterInv, PlanKinds
<1>2. Due(t) \in 1..(Len(movie[t].plan) + 1) /\ written[t] = DueEdge(t)
  BY DEF WriterInv, Cursor, CursorAt
<1>3. Len(movie[t].plan) \in Nat
  BY <1>1, TrackTypes
<1>4. Due(t) \in 1..Len(movie[t].plan)
  BY <1>2, <1>3
<1>5. /\ DueEdge(t) \in Nat /\ NewEdge(t) \in Nat /\ DueEdge(t) < NewEdge(t)
      /\ NewEdge(t) <= Num(t) /\ Num(t) \in Nat
  BY <1>1, <1>4, PlanOfTrack DEF DueEdge, NewEdge
<1>6. Moves(t)
  BY DEF Moves, MoofBox
<1>7. CASE MdatFails(t)
  BY <1>6, <1>7 DEF MdatFails, Fails, Writes
<1>8. CASE MdatBox(t) /\ phase' = phase
  <2> DEFINE n == NewEdge(t) - DueEdge(t)
             read == ReadSizes(t, n)
             e == NewEdge(t)
             b == BytesOf(movie[t], DueEdge(t), NewEdge(t))
  <2>1. mdatSizes[t] = MdatAt(movie[t], DueEdge(t))
    BY <1>2 DEF WriterInv, MdatCursor
  <2>2. n \in Nat /\ DueEdge(t) + n = e /\ DueEdge(t) \in 0..Num(t) /\ e \in 0..Num(t)
    BY <1>5
  <2>3. ReadSizes(t, n) = [run |-> MdatAt(movie[t], DueEdge(t) + n).run,
                           left |-> MdatAt(movie[t], DueEdge(t) + n).left,
                           bytes |-> BytesOf(movie[t], DueEdge(t), DueEdge(t) + n)]
    <3>1. DueEdge(t) + n <= Num(t)
      BY <1>5, <2>2
    <3> HIDE DEF n
    <3> QED BY <1>1, <2>1, <2>2, <3>1, ReadIsBytes, BytesOfTrack
  <2>4. read = [run |-> MdatAt(movie[t], e).run, left |-> MdatAt(movie[t], e).left, bytes |-> b]
    BY <2>2, <2>3
  <2>5. [run |-> read.run, left |-> read.left] = MdatAt(movie[t], e) /\ read.bytes = b
    <3>1. MdatAt(movie[t], e) = [run |-> MdatAt(movie[t], e).run, left |-> MdatAt(movie[t], e).left]
      <4> HIDE DEF e
      <4> QED BY <1>1, <2>2, MdatAtType
    <3> HIDE DEF e, b
    <3> QED BY <2>4, <3>1
  <2>6. StopIdx(t) - written[t] = n
    BY <1>2
  <2>7. /\ out' = Append(out, [track |-> t, first |-> written[t], stop |-> StopIdx(t),
                               sdi |-> SdIndexNow(t), moof |-> pos,
                               data |-> pos + MoofSize + 8, bytes |-> read.bytes,
                               planned |-> fragSize'[t]])
        /\ mdatSizes' = [mdatSizes EXCEPT ![t] = [run |-> read.run, left |-> read.left]]
        /\ pos' = pos + MoofSize + 8 + read.bytes
        /\ subsegments' =
              IF (cfg.ccff \/ t = 1) /\ Len(subsegments) < RefCount(1)
              THEN Append(subsegments, Subsegment(read.bytes, t)) ELSE subsegments
    BY <1>8, <2>6 DEF MdatBox
  <2> HIDE DEF read, n
  <2>8. out' = Append(out, NewFragment(t))
    BY <1>2, <2>5, <2>7 DEF NewFragment
  <2>9. Succeeds(t)
    BY <1>8, <2>5, <2>7, <2>8 DEF Succeeds
  <2> QED BY <1>6, <2>9 DEF Writes
<1> QED BY <1>7, <1>8

(* Where prepare_traf and get_moof_by_TrackIndex let a fragment end.        *)
LEMMA TrafEnds ==
    ASSUME movie \in Movies, NEW t \in Tracks, segNext[t] \in 1..Len(movie[t].plan)
    PROVE  /\ TrafEnd(t) = TimeAt(movie[t], Edge(movie[t], segNext[t] + 1))
           /\ DtsFromIdx(t, Planned(t).start) = TimeAt(movie[t], NextEdge(t))
           /\ TrafEnd(t) \in Nat /\ TrafEnd(t) <= NoDts
           /\ TrafEnd(t) - DtsFromIdx(t, Planned(t).start) \in Nat
           /\ SizeOf(t, Planned(t).start, Planned(t).stop)
                = BytesOf(movie[t], NextEdge(t), Edge(movie[t], segNext[t] + 1))
           /\ SizeOf(t, Planned(t).start, Planned(t).stop) \in Nat
<1> DEFINE k == segNext[t]
           a == Edge(movie[t], k)
           e == Edge(movie[t], k + 1)
           n == Len(movie[t].plan)
<1>1. movie[t] \in Track /\ IsPlanned(movie[t])
  BY MovieTracks
<1>2. /\ a \in Nat /\ e \in Nat /\ a < e /\ e <= Num(t)
      /\ e = Num(t) <=> k = n
      /\ Planned(t).start = a /\ Planned(t).stop = e
      /\ Num(t) \in Nat
  BY PlanOfTrack DEF Planned
<1>3. /\ \A i \in 0..(Num(t) - 1) : DtsFromIdx(t, i) = TimeAt(movie[t], i)
      /\ \A i \in 0..Num(t) : TimeAt(movie[t], i) \in Nat /\ 2 * TimeAt(movie[t], i) <= NoDts
      /\ \A i, j \in 0..Num(t) : i < j => TimeAt(movie[t], i) < TimeAt(movie[t], j)
      /\ TimeAt(movie[t], Num(t)) = movie[t].duration
      /\ NoDts \in Nat
  BY DtsIsTime, FragmentWriterAssumption
<1>4. SizeOf(t, a, e) = BytesOf(movie[t], a, e) /\ SizeOf(t, a, e) \in Nat
  <2>1. a \in 0..Num(t) /\ e \in 0..Num(t)
    BY <1>2
  <2> HIDE DEF a, e
  <2> QED BY <2>1, <1>1, <1>2, SizeIsBytes, BytesOfTrack
<1>5. TrafEnd(t) = TimeAt(movie[t], e)
  <2>1. CASE k = n
    BY <2>1, <1>2, <1>3 DEF TrafEnd
  <2>2. CASE k # n
    <3>1. e \in 0..(Num(t) - 1)
      BY <2>2, <1>2
    <3>2. TrafEnd(t) = DtsFromIdx(t, e)
      BY <2>2, <1>2 DEF TrafEnd
    <3> HIDE DEF e
    <3> QED BY <3>1, <3>2, <1>3
  <2> QED BY <2>1, <2>2
<1> HIDE DEF a, e
<1>6. DtsFromIdx(t, a) = TimeAt(movie[t], a)
  BY <1>2, <1>3
<1>7. /\ TimeAt(movie[t], a) \in Nat /\ TimeAt(movie[t], e) \in Nat
      /\ TimeAt(movie[t], a) < TimeAt(movie[t], e) /\ TimeAt(movie[t], e) <= NoDts
  <2>1. a \in 0..Num(t) /\ e \in 0..Num(t)
    BY <1>2
  <2>2. /\ TimeAt(movie[t], a) \in Nat /\ TimeAt(movie[t], e) \in Nat
        /\ TimeAt(movie[t], a) < TimeAt(movie[t], e) /\ 2 * TimeAt(movie[t], e) <= NoDts
    BY <2>1, <1>2, <1>3
  <2> QED BY <2>2, <1>3
<1>8. NextEdge(t) = a
  BY DEF NextEdge, a
<1>9. TimeAt(movie[t], e) - TimeAt(movie[t], a) \in Nat
  BY <1>7
<1> QED BY <1>2, <1>4, <1>5, <1>6, <1>7, <1>8, <1>9 DEF e

LEMMA TurnEnds ==
    ASSUME movie \in Movies, NEW t \in Tracks, segNext[t] \in 1..Len(movie[t].plan)
    PROVE  /\ TurnEnd(t) \in Nat /\ TurnEnd(t) <= NoDts
           /\ segNext[t] < Len(movie[t].plan) =>
                 TurnEnd(t) = TimeAt(movie[t], Edge(movie[t], segNext[t] + 1))
           /\ segNext[t] = Len(movie[t].plan) => DtsFromIdx(t, Num(t) - 1) < TurnEnd(t)
           /\ DtsFromIdx(t, Planned(t).start) = TimeAt(movie[t], NextEdge(t))
           /\ TurnEnd(t) - DtsFromIdx(t, Planned(t).start) \in Nat
<1> DEFINE k == segNext[t]
           a == Edge(movie[t], k)
           e == Edge(movie[t], k + 1)
           n == Len(movie[t].plan)
           z == Num(t)
           d == DtsFromIdx(t, z - 1)
<1>1. /\ a \in Nat /\ e \in Nat /\ a < e /\ e <= z
      /\ e = z <=> k = n
      /\ Planned(t).start = a /\ Planned(t).stop = e
      /\ z \in Nat /\ z > 0
  BY PlanOfTrack DEF Planned
<1>2. /\ \A i \in 0..(z - 1) : DtsFromIdx(t, i) = TimeAt(movie[t], i)
      /\ \A i \in 0..z : TimeAt(movie[t], i) \in Nat /\ 2 * TimeAt(movie[t], i) <= NoDts
      /\ \A i, j \in 0..z : i < j => TimeAt(movie[t], i) < TimeAt(movie[t], j)
      /\ NoDts \in Nat /\ TimeAt(movie[t], 0) = 0
  BY DtsIsTime, FragmentWriterAssumption
<1>3. TurnEnd(t) = IF e = z THEN (d + DtsFromIdx(t, 1)) % (NoDts + 1) ELSE DtsFromIdx(t, e)
  BY <1>1 DEF TurnEnd
<1>4. d = TimeAt(movie[t], z - 1) /\ DtsFromIdx(t, a) = TimeAt(movie[t], a)
  BY <1>1, <1>2
<1>5. TimeAt(movie[t], a) \in Nat /\ TimeAt(movie[t], a) <= d /\ d \in Nat /\ 2 * d <= NoDts
  <2>1. a \in 0..z /\ z - 1 \in 0..z /\ (a < z - 1 \/ a = z - 1)
    BY <1>1
  <2> HIDE DEF a
  <2>2. /\ TimeAt(movie[t], a) \in Nat /\ TimeAt(movie[t], z - 1) \in Nat
        /\ 2 * TimeAt(movie[t], z - 1) <= NoDts
        /\ a < z - 1 => TimeAt(movie[t], a) < TimeAt(movie[t], z - 1)
    BY <2>1, <1>2
  <2> HIDE DEF d
  <2> QED BY <2>1, <2>2, <1>4
<1>6. NextEdge(t) = a
  BY DEF NextEdge
<1>7. CASE e < z
  <2>1. e \in 0..(z - 1) /\ e \in 0..z /\ a \in 0..z
    BY <1>1, <1>7
  <2>2. DtsFromIdx(t, e) = TimeAt(movie[t], e)
    BY <2>1, <1>2
  <2>3. /\ TimeAt(movie[t], e) \in Nat /\ 2 * TimeAt(movie[t], e) <= NoDts
        /\ TimeAt(movie[t], a) < TimeAt(movie[t], e)
    BY <2>1, <1>1, <1>2
  <2>4. TurnEnd(t) = TimeAt(movie[t], e)
    BY <2>2, <1>1, <1>3, <1>7
  <2>5. TimeAt(movie[t], e) <= NoDts /\ TimeAt(movie[t], e) - TimeAt(movie[t], a) \in Nat
    BY <2>3, <1>2, <1>5
  <2>6. k # n
    BY <1>1, <1>7
  <2> HIDE DEF a, e
  <2> QED BY <2>3, <2>4, <2>5, <2>6, <1>1, <1>4, <1>6 DEF e
<1>8. CASE e = z
  <2>1. CASE z = 1
    <3>1. DtsFromIdx(t, 1) = NoDts
      BY <2>1 DEF DtsFromIdx
    <3>2. d = 0
      BY <2>1, <1>2, <1>4
    <3>3. TimeAt(movie[t], z) \in Nat /\ TimeAt(movie[t], z) > 0 /\ 2 * TimeAt(movie[t], z) <= NoDts
      <4>1. 0 \in 0..z /\ z \in 0..z /\ 0 < z
        BY <1>1
      <4>2. /\ TimeAt(movie[t], z) \in Nat /\ 2 * TimeAt(movie[t], z) <= NoDts
            /\ TimeAt(movie[t], 0) < TimeAt(movie[t], z)
        BY <4>1, <1>2
      <4> QED BY <4>2, <1>2
    <3>4. NoDts > 0
      BY <3>3, <1>2
    <3>5. TurnEnd(t) = NoDts
      <4>1. TurnEnd(t) = (0 + NoDts) % (NoDts + 1)
        BY <3>1, <3>2, <1>3, <1>8
      <4>2. (0 + NoDts) % (NoDts + 1) = NoDts
        BY <1>2
      <4> QED BY <4>1, <4>2
    <3>6. TimeAt(movie[t], a) = 0
      BY <3>2, <1>5
    <3>7. k = n /\ NoDts - 0 \in Nat
      BY <1>1, <1>2, <1>8
    <3> QED BY <3>2, <3>4, <3>5, <3>6, <3>7, <1>1, <1>2, <1>4, <1>6
  <2>2. CASE z # 1
    <3> DEFINE s == DtsFromIdx(t, 1)
    <3>1. 1 \in 0..(z - 1) /\ 1 \in 0..z /\ 0 \in 0..z /\ z - 1 \in 0..z /\ (1 < z - 1 \/ 1 = z - 1)
      BY <2>2, <1>1
    <3>2. s = TimeAt(movie[t], 1) /\ TimeAt(movie[t], 1) \in Nat /\ 0 < TimeAt(movie[t], 1)
      BY <3>1, <1>2
    <3>3. TimeAt(movie[t], 1) <= TimeAt(movie[t], z - 1)
      <4>1. 1 < z - 1 => TimeAt(movie[t], 1) < TimeAt(movie[t], z - 1)
        BY <3>1, <1>2
      <4> QED BY <4>1, <3>1, <3>2, <1>4, <1>5
    <3>4. s \in Nat /\ 0 < s /\ s <= d
      BY <3>2, <3>3, <1>4
    <3>5. TurnEnd(t) = (d + s) % (NoDts + 1)
      BY <1>3, <1>8
    <3>6. k = n
      BY <1>1, <1>8
    <3> HIDE DEF s, d
    <3>7. d + s \in Nat /\ d + s <= NoDts /\ (d + s) % (NoDts + 1) = d + s
      <4>1. d \in Nat /\ 2 * d <= NoDts /\ NoDts \in Nat
        BY <1>2, <1>5
      <4>2. d + s \in Nat /\ d + s <= NoDts
        BY ONLY <4>1, <3>4
      <4> DEFINE x == d + s
      <4>3. x \in Nat /\ x <= NoDts
        BY <4>2
      <4> HIDE DEF x
      <4>4. x % (NoDts + 1) = x
        BY ONLY <4>1, <4>3
      <4> QED BY <4>2, <4>4 DEF x
    <3>8. TurnEnd(t) = d + s /\ d < d + s /\ d + s - TimeAt(movie[t], a) \in Nat
      BY <3>4, <3>5, <3>7, <1>5
    <3>9. d = DtsFromIdx(t, z - 1)
      BY DEF d
    <3>10. n \in Nat
      BY MovieTracks, TrackTypes
    <3>11. ~(k < n)
      BY <3>6, <3>10
    <3>12. TurnEnd(t) \in Nat /\ TurnEnd(t) <= NoDts /\ DtsFromIdx(t, z - 1) < TurnEnd(t)
      BY <3>7, <3>8, <3>9
    <3>13. TurnEnd(t) - DtsFromIdx(t, Planned(t).start) \in Nat
      <4>1. DtsFromIdx(t, Planned(t).start) = TimeAt(movie[t], a)
        BY <1>1, <1>4
      <4> HIDE DEF a
      <4>2. TurnEnd(t) - TimeAt(movie[t], a) \in Nat
        BY ONLY <3>4, <3>8, <1>5
      <4> QED BY ONLY <4>1, <4>2
    <3>14. DtsFromIdx(t, Planned(t).start) = TimeAt(movie[t], NextEdge(t))
      BY <1>1, <1>4, <1>6
    <3> QED BY <3>11, <3>12, <3>13, <3>14
  <2> QED BY <2>1, <2>2
<1> QED BY <1>1, <1>7, <1>8
-----------------------------------------------------------------------------
(* What every step may assume of the constants and of the plan.             *)
LEMMA InvFacts ==
    ASSUME WriterInv
    PROVE  /\ PlanKinds /\ OutKinds /\ Cursor /\ Begin
           /\ movie \in Movies /\ Tracks = 1..Len(movie) /\ Len(movie) \in Nat /\ 1 \in Tracks
           /\ \A t \in Tracks : /\ Len(movie[t].plan) \in Nat
                                /\ CursorAt(t) /\ segNext[t] \in Nat /\ Due(t) \in Nat
           /\ NoDts \in Nat /\ ShortRange \in Nat \ {0} /\ MoofSize \in Nat /\ Micro \in Nat
<1>1. movie \in Movies /\ PlanKinds /\ OutKinds /\ Cursor /\ Begin
  BY DEF WriterInv, PlanKinds
<1>2. \A t \in Tracks : Len(movie[t].plan) \in Nat
  BY <1>1, MovieTracks, TrackTypes
<1>3. \A t \in Tracks : CursorAt(t)
  BY <1>1 DEF Cursor
<1>4. \A t \in Tracks : segNext[t] \in Nat /\ Due(t) \in Nat
  BY <1>2, <1>3 DEF CursorAt
<1> QED BY <1>1, <1>2, <1>3, <1>4, MovieTracks, FragmentWriterAssumption

LEMMA CursorSame ==
    ASSUME NEW t, CursorAt(t), UNCHANGED <<movie, cfg>>, segNext'[t] = segNext[t],
           t \in queue' <=> t \in queue, written'[t] = written[t], fragDts'[t] = fragDts[t],
           fragSize'[t] = fragSize[t], fragDuration'[t] = fragDuration[t]
    PROVE  CursorAt(t)' /\ Due(t)' = Due(t)
<1>1. Due(t)' = Due(t)
  BY DEF Due
<1>2. DueEdge(t)' = DueEdge(t) /\ NextEdge(t)' = NextEdge(t)
  BY <1>1 DEF DueEdge, NextEdge
<1> QED BY <1>1, <1>2 DEF CursorAt

LEMMA StartStep ==
    ASSUME WriterInv, Start
    PROVE  PlanKinds' /\ Cursor' /\ Begin' /\ Keeps
<1>1. /\ UNCHANGED <<movie, cfg, cursors, written, sdNext, sdIndex, queue, turn,
                     subsegments, mdatSizes, pos, out>>
      /\ phase = "start" /\ phase' \in {"fragments", "not supported"}
      /\ rounds' = rounds \/ rounds' = 0 \/ rounds' = RoundsNeeded
  BY DEF Start
<1>2. /\ PlanKinds /\ (\A t \in Tracks : CursorAt(t)) /\ Tracks' = Tracks
      /\ (cfg.ccff \/ queue = {})
  BY <1>1, InvFacts DEF Cursor, Tracks
<1>3. rounds' \in 0..(ShortRange - 1)
  <2>1. ShortRange \in Nat \ {0} /\ Tracks \subseteq Nat
    BY InvFacts
  <2>2. \A t \in Tracks : RefCount(t) \in 0..(ShortRange - 1)
    <3>1. \A n \in Nat : n % ShortRange \in 0..(ShortRange - 1)
      BY <2>1
    <3>2. \A t \in Tracks : Len(movie[t].plan) \in Nat
      BY InvFacts
    <3> QED BY <3>1, <3>2 DEF RefCount
  <2>3. Counted # {} => Min(Counted) \in Counted
    <3>1. Counted \subseteq Nat
      BY <2>1 DEF Counted
    <3> QED BY <3>1, MinOf
  <2>4. RoundsNeeded \in 0..(ShortRange - 1)
    <3>1. CASE Counted = {}
      BY <3>1, <2>1 DEF RoundsNeeded
    <3>2. CASE Counted # {}
      <4>1. Min(Counted) \in Tracks
        BY <3>2, <2>3 DEF Counted
      <4>2. RoundsNeeded = RefCount(Min(Counted))
        BY <3>2 DEF RoundsNeeded
      <4> QED BY <4>1, <4>2, <2>2
    <3> QED BY <3>1, <3>2
  <2>5. rounds \in 0..(ShortRange - 1) /\ 0 \in 0..(ShortRange - 1)
    <3>1. rounds \in 0..(ShortRange - 1)
      BY <1>2 DEF PlanKinds
    <3> QED BY <3>1, <2>1
  <2> QED BY <2>4, <2>5, <1>1
<1>4. PlanKinds'
  BY <1>1, <1>2, <1>3 DEF PlanKinds, cursors
<1>5. \A t \in Tracks : CursorAt(t)' /\ Due(t)' = Due(t)
  BY <1>1, <1>2, CursorSame DEF cursors
<1>6. Cursor'
  BY <1>1, <1>2, <1>5 DEF Cursor
<1>7. Begin'
  BY <1>1 DEF Begin
<1>8. Keeps
  BY <1>1, <1>5 DEF Keeps
<1> QED BY <1>4, <1>6, <1>7, <1>8

LEMMA FinishStep ==
    ASSUME WriterInv, Finish
    PROVE  PlanKinds' /\ Cursor' /\ Begin' /\ Keeps
<1>1. /\ UNCHANGED <<movie, cfg, cursors, written, sdNext, sdIndex, queue, turn, rounds,
                     subsegments, mdatSizes, pos, out>>
      /\ phase = "fragments" /\ phase' = "done"
  BY DEF Finish
<1>2. /\ PlanKinds /\ (\A t \in Tracks : CursorAt(t)) /\ Tracks' = Tracks
      /\ (cfg.ccff \/ queue = {})
  BY <1>1, InvFacts DEF Cursor, Tracks
<1>3. PlanKinds'
  BY <1>1, <1>2 DEF PlanKinds, cursors
<1>4. \A t \in Tracks : CursorAt(t)' /\ Due(t)' = Due(t)
  BY <1>1, <1>2, CursorSame DEF cursors
<1>5. Cursor'
  BY <1>1, <1>2, <1>4 DEF Cursor
<1> QED BY <1>1, <1>3, <1>4, <1>5 DEF Begin, Keeps

LEMMA StutterStep ==
    ASSUME WriterInv, UNCHANGED vars
    PROVE  PlanKinds' /\ Cursor' /\ Begin' /\ Keeps
<1>1. /\ UNCHANGED <<movie, cfg, segNext, fragDts, fragDuration, fragSize, written, sdNext,
                     sdIndex, queue, turn, rounds, subsegments, mdatSizes, pos, phase, out>>
  BY DEF vars
<1>2. PlanKinds /\ Cursor /\ Begin /\ Tracks' = Tracks
  BY <1>1, InvFacts DEF Tracks
<1>3. PlanKinds'
  BY <1>1, <1>2 DEF PlanKinds
<1>4. \A t \in Tracks : CursorAt(t)' /\ Due(t)' = Due(t)
  BY <1>1, <1>2, CursorSame DEF Cursor
<1>5. Cursor'
  BY <1>1, <1>2, <1>4 DEF Cursor
<1>6. Begin'
  BY <1>1, <1>2 DEF Begin
<1>7. Keeps
  BY <1>1, <1>4 DEF Keeps
<1> QED BY <1>3, <1>5, <1>6, <1>7

LEMMA PrepareStep ==
    ASSUME WriterInv, PrepareTracks
    PROVE  PlanKinds' /\ Cursor' /\ Begin' /\ Keeps
<1>1. /\ UNCHANGED <<movie, cfg, written, sdNext, sdIndex, turn, rounds,
                     subsegments, mdatSizes, pos, phase, out>>
      /\ phase = "fragments" /\ cfg.ccff /\ queue = {} /\ queue' = Ready
      /\ segNext' = [t \in Tracks |-> IF t \in Ready THEN segNext[t] + 1 ELSE segNext[t]]
      /\ fragDts' = [t \in Tracks |-> IF t \in Ready THEN TrafEnd(t) ELSE fragDts[t]]
      /\ fragDuration' = [t \in Tracks |->
            IF t \in Ready THEN TrafEnd(t) - DtsFromIdx(t, Planned(t).start)
            ELSE fragDuration[t]]
      /\ fragSize' = [t \in Tracks |->
            IF t \in Ready THEN SizeOf(t, Planned(t).start, Planned(t).stop)
            ELSE fragSize[t]]
  BY DEF PrepareTracks, Take
<1>2. /\ PlanKinds /\ (\A t \in Tracks : CursorAt(t)) /\ Tracks' = Tracks /\ movie \in Movies
      /\ \A t \in Tracks : Len(movie[t].plan) \in Nat /\ segNext[t] \in Nat
  BY <1>1, InvFacts DEF Tracks
<1>3. Ready \subseteq Tracks /\ \A t \in Ready : segNext[t] \in 1..Len(movie[t].plan)
  <2>1. Ready \subseteq Tracks /\ \A t \in Ready : segNext[t] <= Len(movie[t].plan)
    BY DEF Ready, Earliest, HasFragment
  <2> QED BY <2>1, <1>2 DEF CursorAt
<1>4. \A t \in Ready :
        /\ TrafEnd(t) = TimeAt(movie[t], Edge(movie[t], segNext[t] + 1))
        /\ DtsFromIdx(t, Planned(t).start) = TimeAt(movie[t], NextEdge(t))
        /\ TrafEnd(t) \in Nat /\ TrafEnd(t) <= NoDts
        /\ TrafEnd(t) - DtsFromIdx(t, Planned(t).start) \in Nat
        /\ SizeOf(t, Planned(t).start, Planned(t).stop)
             = BytesOf(movie[t], NextEdge(t), Edge(movie[t], segNext[t] + 1))
        /\ SizeOf(t, Planned(t).start, Planned(t).stop) \in Nat
  BY <1>2, <1>3, TrafEnds
<1>5. PlanKinds'
  <2>1. /\ segNext' \in [Tracks -> Nat] /\ fragDts' \in [Tracks -> Nat]
    BY <1>1, <1>2, <1>3, <1>4 DEF PlanKinds
  <2>2. fragDuration' \in [Tracks -> Nat]
    BY <1>1, <1>2, <1>3, <1>4 DEF PlanKinds
  <2>3. fragSize' \in [Tracks -> Nat]
    BY <1>1, <1>2, <1>3, <1>4 DEF PlanKinds
  <2> QED BY <2>1, <2>2, <2>3, <1>1, <1>2, <1>3 DEF PlanKinds
<1>6. ASSUME NEW t \in Tracks PROVE CursorAt(t)' /\ Due(t)' = Due(t)
  <2>1. CASE t \in Ready
    <3>1. /\ segNext'[t] = segNext[t] + 1 /\ t \in queue' /\ t \notin queue
          /\ fragDts'[t] = TimeAt(movie[t], Edge(movie[t], segNext[t] + 1))
          /\ fragDts'[t] <= NoDts
          /\ fragDuration'[t] = TimeAt(movie[t], Edge(movie[t], segNext[t] + 1))
                                  - TimeAt(movie[t], NextEdge(t))
          /\ fragSize'[t] = BytesOf(movie[t], NextEdge(t), Edge(movie[t], segNext[t] + 1))
      BY <2>1, <1>1, <1>4
    <3>2. Due(t) = segNext[t] /\ Due(t)' = segNext[t]
      BY <3>1, <1>2 DEF Due
    <3>3. /\ DueEdge(t) = NextEdge(t) /\ DueEdge(t)' = NextEdge(t)
          /\ NextEdge(t)' = Edge(movie[t], segNext[t] + 1)
      BY <3>1, <3>2, <1>1 DEF DueEdge, NextEdge
    <3>4. segNext'[t] \in 1..(Len(movie[t].plan) + 1) /\ segNext[t] \in 1..(Len(movie[t].plan) + 1)
      BY <2>1, <3>1, <1>2, <1>3
    <3>5. written'[t] = NextEdge(t)
      BY <3>3, <1>1, <1>2 DEF CursorAt
    <3> QED BY <3>1, <3>2, <3>3, <3>4, <3>5, <1>1 DEF CursorAt
  <2>2. CASE t \notin Ready
    <3>1. /\ segNext'[t] = segNext[t] /\ fragDts'[t] = fragDts[t] /\ t \notin queue'
          /\ t \notin queue /\ fragDuration'[t] = fragDuration[t] /\ fragSize'[t] = fragSize[t]
      BY <2>2, <1>1
    <3> QED BY <3>1, <1>1, <1>2, CursorSame
  <2> QED BY <2>1, <2>2
<1>7. Cursor'
  BY <1>1, <1>2, <1>6 DEF Cursor
<1> QED BY <1>1, <1>5, <1>6, <1>7 DEF Begin, Keeps

LEMMA QueuedStep ==
    ASSUME WriterInv, NEW t \in Tracks, OutputQueued(t)
    PROVE  PlanKinds' /\ Cursor' /\ Begin' /\ Writes(t)
<1>1. /\ UNCHANGED <<movie, cfg, segNext, fragDts, fragDuration, fragSize, turn, rounds>>
      /\ phase = "fragments" /\ cfg.ccff /\ t \in queue /\ queue' = queue \ {t}
      /\ MoofBox(t) /\ ((MdatBox(t) /\ phase' = phase) \/ MdatFails(t))
      /\ phase' \in {"fragments", "failed"}
      /\ written' = [written EXCEPT ![t] = StopIdx(t)]
  BY DEF OutputQueued, cursors, MdatFails, MoofBox
<1>2. /\ PlanKinds /\ (\A u \in Tracks : CursorAt(u)) /\ Tracks' = Tracks /\ movie \in Movies
      /\ \A u \in Tracks : Len(movie[u].plan) \in Nat /\ segNext[u] \in Nat
      /\ written \in [Tracks -> Nat]
  BY <1>1, InvFacts DEF Tracks, OutKinds
<1>3. /\ Due(t) = segNext[t] - 1 /\ Due(t) + 1 = segNext[t] /\ Due(t) \in 1..Len(movie[t].plan)
      /\ NextEdge(t) = NewEdge(t)
  <2>1. Due(t) = segNext[t] - 1 /\ segNext[t] \in 1..(Len(movie[t].plan) + 1)
        /\ Due(t) \in 1..(Len(movie[t].plan) + 1)
    BY <1>1, <1>2 DEF Due, CursorAt
  <2>2. Due(t) + 1 = segNext[t] /\ Due(t) \in 1..Len(movie[t].plan)
    BY <2>1, <1>2
  <2> QED BY <2>1, <2>2 DEF NextEdge, NewEdge
<1>4. /\ DueEdge(t) \in Nat /\ NewEdge(t) \in Nat /\ DueEdge(t) < NewEdge(t)
      /\ NewEdge(t) <= Num(t) /\ Num(t) \in Nat /\ Num(t) > 0
  BY <1>2, <1>3, PlanOfTrack DEF DueEdge, NewEdge
<1>5. StopIdx(t) = NewEdge(t)
  <2>1. written[t] = DueEdge(t) /\ fragDts'[t] = TimeAt(movie[t], NewEdge(t))
    BY <1>1, <1>2, <1>3 DEF CursorAt
  <2>2. /\ \A i \in 0..(Num(t) - 1) : DtsFromIdx(t, i) = TimeAt(movie[t], i)
        /\ \A i \in 0..Num(t) : TimeAt(movie[t], i) \in Nat
        /\ \A i, j \in 0..Num(t) : i < j => TimeAt(movie[t], i) < TimeAt(movie[t], j)
    BY <1>2, DtsIsTime
  <2>3. NewEdge(t) \in 0..Num(t) /\ written[t] \in 0..NewEdge(t)
    BY <2>1, <1>4
  <2>4. fragDts'[t] \in Nat
    BY <2>1, <2>2, <2>3
  <2>5. NewEdge(t) = Num(t) => DtsFromIdx(t, Num(t) - 1) < fragDts'[t]
    <3>1. Num(t) - 1 \in 0..(Num(t) - 1) /\ Num(t) - 1 \in 0..Num(t) /\ Num(t) \in 0..Num(t)
          /\ Num(t) - 1 < Num(t)
      BY <1>4
    <3> QED BY <3>1, <2>1, <2>2
  <2> QED BY <2>1, <2>3, <2>4, <2>5, <1>2, StopIs
<1>6. ASSUME NEW u \in Tracks PROVE Due(u)' = IF u = t THEN Due(u) + 1 ELSE Due(u)
  BY <1>1, <1>3 DEF Due
<1>7. fragSize'[t] = BytesOf(movie[t], DueEdge(t), NewEdge(t))
  BY <1>1, <1>2, <1>3 DEF CursorAt
<1>8. Writes(t)
  <2>1. Due(t) <= Len(movie[t].plan)
    BY <1>2, <1>3
  <2> QED BY <2>1, <1>1, <1>5, <1>6, <1>7, BoxesWrite
<1>9. PlanKinds'
  BY <1>1, <1>2 DEF PlanKinds
<1>10. ASSUME NEW u \in Tracks PROVE CursorAt(u)'
  <2>1. CASE u = t
    <3>1. t \notin queue' /\ Due(t)' = segNext[t] /\ DueEdge(t)' = NewEdge(t)
          /\ NextEdge(t)' = NewEdge(t)
      BY <1>1, <1>3 DEF Due, DueEdge, NextEdge, NewEdge
    <3>2. written'[t] = NewEdge(t)
      BY <1>1, <1>2, <1>5
    <3>3. /\ segNext[t] \in 1..(Len(movie[t].plan) + 1) /\ fragDts[t] <= NoDts
          /\ fragDts[t] = TimeAt(movie[t], NewEdge(t))
      BY <1>1, <1>2, <1>3 DEF CursorAt
    <3> QED BY <2>1, <3>1, <3>2, <3>3, <1>1 DEF CursorAt
  <2>2. CASE u # t
    <3>1. written'[u] = written[u] /\ (u \in queue' <=> u \in queue)
      BY <2>2, <1>1, <1>2
    <3> QED BY <3>1, <1>1, <1>2, CursorSame
  <2> QED BY <2>1, <2>2
<1>11. Cursor'
  BY <1>1, <1>2, <1>10 DEF Cursor
<1> QED BY <1>1, <1>8, <1>9, <1>11 DEF Begin

LEMMA TurnStep ==
    ASSUME WriterInv, OutputTurn
    PROVE  /\ PlanKinds' /\ Cursor' /\ Begin'
           /\ (Keeps /\ tfra' = tfra) \/ \E t \in Tracks : Writes(t) /\ MoofBox(t)
<1>1. /\ UNCHANGED <<movie, cfg, queue>>
      /\ phase = "fragments" /\ ~cfg.ccff /\ rounds > 0
      /\ phase' \in {"fragments", "failed"}
      /\ rounds' = rounds \/ rounds' = rounds - 1
      /\ turn' = IF turn = Len(movie) THEN 1 ELSE turn + 1
  BY DEF OutputTurn, MdatFails, cursors, RoundsLeft
<1>2. /\ PlanKinds /\ (\A u \in Tracks : CursorAt(u)) /\ Tracks' = Tracks /\ movie \in Movies
      /\ \A u \in Tracks : Len(movie[u].plan) \in Nat /\ segNext[u] \in Nat
      /\ written \in [Tracks -> Nat] /\ queue = {} /\ turn \in Tracks
      /\ Tracks = 1..Len(movie) /\ Len(movie) \in Nat /\ ShortRange \in Nat
  BY <1>1, InvFacts DEF Tracks, OutKinds, Cursor, PlanKinds
<1>3. turn' \in Tracks' /\ rounds' \in 0..(ShortRange - 1)
  <2>1. turn' \in Tracks'
    BY <1>1, <1>2
  <2>2. rounds \in 0..(ShortRange - 1)
    BY <1>2 DEF PlanKinds
  <2> QED BY <2>1, <2>2, <1>1, <1>2
<1>4. CASE HasFragment(turn)
  <2>0. PICK t \in Tracks : t = turn
    BY <1>2
  <2>1. /\ segNext' = [u \in Tracks |-> IF u \in {t} THEN segNext[u] + 1 ELSE segNext[u]]
        /\ fragDts' = [u \in Tracks |-> IF u \in {t} THEN [v \in {t} |-> TurnEnd(v)][u] ELSE fragDts[u]]
        /\ fragDuration' = [u \in Tracks |->
              IF u \in {t} THEN [v \in {t} |-> TurnEnd(v)][u] - DtsFromIdx(u, Planned(u).start)
                           ELSE fragDuration[u]]
        /\ fragSize' = fragSize
        /\ MoofBox(t) /\ ((MdatBox(t) /\ phase' = phase) \/ MdatFails(t))
        /\ written' = [written EXCEPT ![t] = StopIdx(t)]
    BY <1>4, <2>0 DEF OutputTurn, Take, MoofBox
  <2>2. /\ t \in Tracks /\ segNext[t] \in 1..Len(movie[t].plan)
    BY <1>2, <1>4, <2>0 DEF HasFragment, CursorAt
  <2>3. /\ \A u \in Tracks : segNext'[u] = IF u = t THEN segNext[u] + 1 ELSE segNext[u]
        /\ \A u \in Tracks : fragDts'[u] = IF u = t THEN TurnEnd(u) ELSE fragDts[u]
        /\ \A u \in Tracks : fragDuration'[u] =
              IF u = t THEN TurnEnd(u) - DtsFromIdx(u, Planned(u).start) ELSE fragDuration[u]
    BY <2>1
  <2>4. /\ TurnEnd(t) \in Nat /\ TurnEnd(t) <= NoDts
        /\ segNext[t] < Len(movie[t].plan) =>
              TurnEnd(t) = TimeAt(movie[t], Edge(movie[t], segNext[t] + 1))
        /\ segNext[t] = Len(movie[t].plan) => DtsFromIdx(t, Num(t) - 1) < TurnEnd(t)
        /\ TurnEnd(t) - DtsFromIdx(t, Planned(t).start) \in Nat
    BY <2>2, <1>2, TurnEnds
  <2>5. /\ \A u \in Tracks : Due(u) = segNext[u] /\ Due(u)' = segNext'[u]
        /\ NewEdge(t) = Edge(movie[t], segNext[t] + 1)
        /\ DueEdge(t)' = NewEdge(t) /\ NextEdge(t)' = NewEdge(t)
    <3>1. \A u \in Tracks : Due(u) = segNext[u] /\ Due(u)' = segNext'[u]
      BY <1>1, <1>2 DEF Due
    <3> QED BY <3>1, <2>2, <2>3, <1>1 DEF NewEdge, DueEdge, NextEdge
  <2>6. /\ DueEdge(t) \in Nat /\ NewEdge(t) \in Nat /\ DueEdge(t) < NewEdge(t)
        /\ NewEdge(t) <= Num(t) /\ Num(t) \in Nat
        /\ NewEdge(t) = Num(t) <=> segNext[t] = Len(movie[t].plan)
    <3>1. DueEdge(t) = Edge(movie[t], segNext[t])
      BY <2>2, <2>5 DEF DueEdge
    <3> QED BY <3>1, <2>2, <2>5, <1>2, PlanOfTrack
  <2>7. StopIdx(t) = NewEdge(t)
    <3>1. written[t] = DueEdge(t) /\ fragDts'[t] = TurnEnd(t)
      BY <2>2, <2>3, <1>2 DEF CursorAt
    <3>2. NewEdge(t) \in 0..Num(t) /\ written[t] \in 0..NewEdge(t)
      BY <3>1, <2>6
    <3>3. NewEdge(t) < Num(t) => segNext[t] < Len(movie[t].plan)
      BY <2>2, <2>6, <1>2
    <3>4. NewEdge(t) < Num(t) => fragDts'[t] = TimeAt(movie[t], NewEdge(t))
      BY <3>1, <3>3, <2>4, <2>5
    <3>5. NewEdge(t) = Num(t) => DtsFromIdx(t, Num(t) - 1) < fragDts'[t]
      BY <3>1, <2>4, <2>6
    <3>6. fragDts'[t] \in Nat
      BY <3>1, <2>4
    <3> QED BY <3>2, <3>4, <3>5, <3>6, <2>2, <1>2, StopIs
  <2>8. Writes(t)
    <3>1. \A u \in Tracks : Due(u)' = IF u = t THEN Due(u) + 1 ELSE Due(u)
      BY <2>3, <2>5
    <3>2. Due(t) <= Len(movie[t].plan)
      BY <2>2, <2>5, <1>2
    <3> QED BY <3>1, <3>2, <2>1, <2>2, <2>7, <1>1, BoxesWrite
  <2>9. PlanKinds'
    <3>1. /\ segNext' \in [Tracks -> Nat] /\ fragDts' \in [Tracks -> Nat]
          /\ fragDuration' \in [Tracks -> Nat]
      <4>1. \A u \in Tracks : segNext'[u] \in Nat /\ fragDts'[u] \in Nat /\ fragDuration'[u] \in Nat
        <5>1. \A u \in Tracks : segNext[u] \in Nat /\ fragDts[u] \in Nat /\ fragDuration[u] \in Nat
          BY <1>2 DEF PlanKinds
        <5> SUFFICES ASSUME NEW u \in Tracks
                     PROVE  segNext'[u] \in Nat /\ fragDts'[u] \in Nat /\ fragDuration'[u] \in Nat
          OBVIOUS
        <5>2. CASE u = t
          BY <5>1, <5>2, <2>3, <2>4
        <5>3. CASE u # t
          BY <5>1, <5>3, <2>3
        <5> QED BY <5>2, <5>3
      <4> QED BY <4>1, <2>1
    <3> QED BY <3>1, <2>1, <1>1, <1>2, <1>3 DEF PlanKinds
  <2>10. ASSUME NEW u \in Tracks PROVE CursorAt(u)'
    <3>1. CASE u = t
      <4>1. written'[t] = NewEdge(t) /\ t \notin queue'
        BY <2>1, <2>2, <2>7, <1>1, <1>2
      <4>2. segNext'[t] \in 1..(Len(movie[t].plan) + 1) /\ Due(t)' = segNext'[t]
        BY <2>2, <2>3, <2>5, <1>2
      <4>3. fragDts'[t] <= NoDts /\ fragDts'[t] = TurnEnd(t)
        BY <2>2, <2>3, <2>4
      <4>4. segNext'[t] <= Len(movie[t].plan) => fragDts'[t] = TimeAt(movie[t], NewEdge(t))
        <5>1. segNext'[t] <= Len(movie[t].plan) => segNext[t] < Len(movie[t].plan)
          BY <2>2, <2>3, <1>2
        <5> QED BY <5>1, <4>3, <2>4, <2>5
      <4> QED BY <3>1, <4>1, <4>2, <4>3, <4>4, <2>5, <1>1 DEF CursorAt
    <3>2. CASE u # t
      <4>1. /\ written'[u] = written[u] /\ segNext'[u] = segNext[u] /\ fragDts'[u] = fragDts[u]
            /\ fragDuration'[u] = fragDuration[u] /\ fragSize'[u] = fragSize[u]
        BY <3>2, <2>1, <2>3, <1>2
      <4> QED BY <4>1, <1>1, <1>2, CursorSame
    <3> QED BY <3>1, <3>2
  <2>11. Cursor'
    BY <1>1, <1>2, <2>10 DEF Cursor
  <2> QED BY <2>1, <2>8, <2>9, <2>11, <1>1 DEF Begin
<1>5. CASE ~HasFragment(turn)
  <2>1. UNCHANGED <<segNext, fragDts, fragDuration, fragSize, written, sdNext, sdIndex,
                    tfra, subsegments, mdatSizes, pos, phase, out>>
    BY <1>5 DEF OutputTurn, cursors
  <2>2. PlanKinds'
    BY <2>1, <1>1, <1>2, <1>3 DEF PlanKinds
  <2>3. \A u \in Tracks : CursorAt(u)' /\ Due(u)' = Due(u)
    BY <2>1, <1>1, <1>2, CursorSame
  <2>4. Cursor'
    BY <2>3, <1>1, <1>2 DEF Cursor
  <2> QED BY <2>1, <2>2, <2>3, <2>4, <1>1 DEF Begin, Keeps
<1> QED BY <1>4, <1>5
-----------------------------------------------------------------------------
(* The fragments of a track when one is written.                            *)
LEMMA FragmentsFinite ==
    ASSUME out \in Seq(Fragment), NEW t
    PROVE  /\ FragmentsOf(t) \subseteq 1..Len(out) /\ IsFiniteSet(FragmentsOf(t))
           /\ Cardinality(FragmentsOf(t)) \in Nat
           /\ \A i \in 1..Len(out) : IsFiniteSet({j \in FragmentsOf(t) : j <= i})
<1>1. Len(out) \in Nat
  OBVIOUS
<1>2. FragmentsOf(t) \subseteq 1..Len(out)
  BY DEF FragmentsOf
<1>3. IsFiniteSet(1..Len(out))
  BY <1>1, FS_Interval
<1>4. IsFiniteSet(FragmentsOf(t))
  BY <1>2, <1>3, FS_Subset
<1>5. Cardinality(FragmentsOf(t)) \in Nat
  BY <1>4, FS_CardinalityType
<1>6. \A i \in 1..Len(out) : IsFiniteSet({j \in FragmentsOf(t) : j <= i})
  <2> SUFFICES ASSUME NEW i \in 1..Len(out) PROVE IsFiniteSet({j \in FragmentsOf(t) : j <= i})
    OBVIOUS
  <2>1. {j \in FragmentsOf(t) : j <= i} \in SUBSET FragmentsOf(t)
    OBVIOUS
  <2> QED BY <2>1, <1>4, FS_Subset
<1> QED BY <1>2, <1>4, <1>5, <1>6

LEMMA FragmentsAppended ==
    ASSUME out \in Seq(Fragment), NEW x \in Fragment, out' = Append(out, x)
    PROVE  /\ Len(out) \in Nat /\ Len(out') = Len(out) + 1
           /\ out'[Len(out) + 1] = x /\ \A i \in 1..Len(out) : out'[i] = out[i]
           /\ \A t : FragmentsOf(t)' = FragmentsOf(t) \cup
                        (IF t = x.track THEN {Len(out) + 1} ELSE {})
           /\ \A t : Cardinality(FragmentsOf(t))' = Cardinality(FragmentsOf(t)) +
                        (IF t = x.track THEN 1 ELSE 0)
           /\ \A t : \A i \in 1..Len(out) : Nth(t, i)' = Nth(t, i)
           /\ \A i : i = Len(out) + 1 => \A t : t = x.track =>
                 Nth(t, i)' = Cardinality(FragmentsOf(t)) + 1
<1> DEFINE m == Len(out)
<1>1. /\ m \in Nat /\ Len(out') = m + 1 /\ out'[m + 1] = x
      /\ \A i \in 1..m : out'[i] = out[i]
  OBVIOUS
<1>2. 1..Len(out') = (1..m) \cup {m + 1} /\ m + 1 \notin 1..m
  BY <1>1
<1> HIDE DEF m
<1>3. ASSUME NEW t
      PROVE  FragmentsOf(t)' = FragmentsOf(t) \cup (IF t = x.track THEN {m + 1} ELSE {})
  <2>1. FragmentsOf(t)' = {i \in (1..m) \cup {m + 1} : out'[i].track = t}
    BY <1>2 DEF FragmentsOf
  <2>2. FragmentsOf(t) = {i \in 1..m : out[i].track = t}
    BY DEF FragmentsOf, m
  <2> QED BY <2>1, <2>2, <1>1
<1>4. ASSUME NEW t
      PROVE  /\ IsFiniteSet(FragmentsOf(t)) /\ m + 1 \notin FragmentsOf(t)
             /\ FragmentsOf(t) \subseteq 1..m /\ Cardinality(FragmentsOf(t)) \in Nat
  BY <1>2, FragmentsFinite DEF m
<1>5. ASSUME NEW t
      PROVE  Cardinality(FragmentsOf(t))' = Cardinality(FragmentsOf(t)) +
                (IF t = x.track THEN 1 ELSE 0)
  <2>1. Cardinality(FragmentsOf(t))' = Cardinality(FragmentsOf(t)')
    OBVIOUS
  <2>2. CASE t = x.track
    <3>1. FragmentsOf(t)' = FragmentsOf(t) \cup {m + 1}
      BY <2>2, <1>3
    <3>2. Cardinality(FragmentsOf(t) \cup {m + 1}) = Cardinality(FragmentsOf(t)) + 1
      BY <1>4, FS_AddElement
    <3> QED BY <2>1, <2>2, <3>1, <3>2
  <2>3. CASE t # x.track
    <3>1. FragmentsOf(t)' = FragmentsOf(t)
      BY <2>3, <1>3
    <3>2. Cardinality(FragmentsOf(t))' = Cardinality(FragmentsOf(t))
      BY <2>1, <3>1
    <3> QED BY <2>3, <3>2, <1>4
  <2> QED BY <2>2, <2>3
<1>6. ASSUME NEW t, NEW i \in 1..m PROVE Nth(t, i)' = Nth(t, i)
  <2>1. {j \in FragmentsOf(t)' : j <= i} = {j \in FragmentsOf(t) : j <= i}
    <3>1. ~(m + 1 <= i)
      BY <1>1
    <3>2. FragmentsOf(t)' = FragmentsOf(t) \/ FragmentsOf(t)' = FragmentsOf(t) \cup {m + 1}
      BY <1>3
    <3> QED BY <3>1, <3>2
  <2> QED BY <2>1 DEF Nth
<1>7. ASSUME NEW i, i = m + 1, NEW t, t = x.track
      PROVE  Nth(t, i)' = Cardinality(FragmentsOf(t)) + 1
  <2>1. {j \in FragmentsOf(t)' : j <= i} = FragmentsOf(t)'
    <3>1. FragmentsOf(t)' \subseteq 1..(m + 1)
      BY <1>1, <1>3, <1>4
    <3>2. \A j \in 1..(m + 1) : j <= i
      BY <1>1, <1>7
    <3> QED BY <3>1, <3>2
  <2>2. Nth(t, i)' = Cardinality(FragmentsOf(t)')
    BY <2>1 DEF Nth
  <2>3. Cardinality(FragmentsOf(t))' = Cardinality(FragmentsOf(t)')
    OBVIOUS
  <2> QED BY <2>2, <2>3, <1>5, <1>7
<1> QED BY <1>1, <1>3, <1>5, <1>6, <1>7 DEF m

LEMMA KeepsHistory ==
    ASSUME WriterInv, Keeps
    PROVE  OutKinds' /\ MdatCursor' /\ SdCursor' /\ Written' /\ Counts' /\ Placed'
<1>1. /\ UNCHANGED <<movie, cfg, written, sdNext, sdIndex, mdatSizes, subsegments, pos, out>>
      /\ \A u \in Tracks : Due(u)' = Due(u)
      /\ phase' = "failed" <=> phase = "failed"
      /\ Tracks' = Tracks
  BY DEF Keeps, Tracks
<1>2. OutKinds'
  BY <1>1 DEF WriterInv, OutKinds
<1>3. MdatCursor'
  BY <1>1 DEF WriterInv, MdatCursor
<1>4. SdCursor'
  BY <1>1 DEF WriterInv, SdCursor
<1>5. \A t : FragmentsOf(t)' = FragmentsOf(t) /\ \A i : Nth(t, i)' = Nth(t, i)
  <2>1. \A t : FragmentsOf(t)' = FragmentsOf(t)
    BY <1>1 DEF FragmentsOf
  <2> QED BY <2>1 DEF Nth
<1>6. Written'
  <2>1. ASSUME NEW t \in Tracks, NEW i \in 1..Len(out), WrittenAt(t, i) PROVE WrittenAt(t, i)'
    BY <2>1, <1>1, <1>5 DEF WrittenAt
  <2> QED BY <2>1, <1>1 DEF WriterInv, Written
<1>7. Counts'
  BY <1>1, <1>5 DEF WriterInv, Counts
<1>8. Placed'
  BY <1>1 DEF WriterInv, Placed
<1> QED BY <1>2, <1>3, <1>4, <1>6, <1>7, <1>8

(* What a step that writes a fragment of track t starts from.               *)
LEMMA WriteFacts ==
    ASSUME WriterInv, NEW t \in Tracks, Moves(t)
    PROVE  /\ movie \in Movies /\ movie[t] \in Track /\ IsPlanned(movie[t]) /\ t \in Nat
           /\ Due(t) \in 1..Len(movie[t].plan) /\ written[t] = DueEdge(t)
           /\ DueEdge(t) \in Nat /\ NewEdge(t) \in Nat /\ DueEdge(t) < NewEdge(t)
           /\ NewEdge(t) <= Num(t) /\ Num(t) \in Nat
           /\ BytesOf(movie[t], DueEdge(t), NewEdge(t)) \in Nat
           /\ SdIndexNow(t) \in Nat
           /\ Tracks' = Tracks /\ written'[t] = NewEdge(t)
           /\ \A u \in Tracks : u # t => /\ written'[u] = written[u] /\ sdNext'[u] = sdNext[u]
                                         /\ sdIndex'[u] = sdIndex[u]
           /\ sdNext'[t] = IF NewSd(t) THEN sdNext[t] + 1 ELSE sdNext[t]
           /\ sdIndex'[t] = SdIndexNow(t)
<1>1. /\ movie \in Movies /\ movie[t] \in Track /\ IsPlanned(movie[t]) /\ t \in Nat
      /\ CursorAt(t) /\ OutKinds
  BY InvFacts, MovieTracks
<1>2. Len(movie[t].plan) \in Nat
  BY InvFacts
<1>3. Due(t) \in 1..Len(movie[t].plan) /\ written[t] = DueEdge(t)
  BY <1>1, <1>2 DEF CursorAt, Moves
<1>4. /\ DueEdge(t) \in Nat /\ NewEdge(t) \in Nat /\ DueEdge(t) < NewEdge(t)
      /\ NewEdge(t) <= Num(t) /\ Num(t) \in Nat
  BY <1>1, <1>3, PlanOfTrack DEF DueEdge, NewEdge
<1>5. BytesOf(movie[t], DueEdge(t), NewEdge(t)) \in Nat
  <2>1. Bytes(t, DueEdge(t), NewEdge(t)) \in Nat
    BY <1>1, <1>4, BytesSplit
  <2> QED BY <2>1, BytesOfTrack
<1>6. SdIndexNow(t) \in Nat
  <2>1. sdIndex[t] \in Nat
    BY <1>1 DEF OutKinds
  <2> QED BY <2>1 DEF SdIndexNow
<1>7. /\ written \in [Tracks -> Nat] /\ sdNext \in [Tracks -> Nat] /\ sdIndex \in [Tracks -> Nat]
  BY <1>1 DEF OutKinds
<1>8. /\ movie' = movie
      /\ written' = [written EXCEPT ![t] = NewEdge(t)]
      /\ sdNext' = [sdNext EXCEPT ![t] = IF NewSd(t) THEN @ + 1 ELSE @]
      /\ sdIndex' = [sdIndex EXCEPT ![t] = SdIndexNow(t)]
  BY DEF Moves
<1>9. Tracks' = Tracks
  BY <1>8 DEF Tracks
<1>10. /\ written'[t] = NewEdge(t)
       /\ \A u \in Tracks : u # t => /\ written'[u] = written[u] /\ sdNext'[u] = sdNext[u]
                                     /\ sdIndex'[u] = sdIndex[u]
       /\ sdNext'[t] = IF NewSd(t) THEN sdNext[t] + 1 ELSE sdNext[t]
       /\ sdIndex'[t] = SdIndexNow(t)
  BY <1>7, <1>8
<1> QED BY <1>1, <1>3, <1>4, <1>5, <1>6, <1>9, <1>10

(* The fragment written is one.                                             *)
LEMMA FragmentIsOne ==
    ASSUME WriterInv, NEW t \in Tracks, Moves(t), fragSize'[t] \in Nat
    PROVE  NewFragment(t) \in Fragment
<1>1. pos \in Nat /\ MoofSize \in Nat /\ pos + MoofSize + 8 \in Nat
  BY InvFacts, SMTT(40), ZenonT(40) DEF OutKinds
<1> QED BY <1>1, WriteFacts DEF NewFragment, Fragment

LEMMA WritesOutKinds ==
    ASSUME WriterInv, PlanKinds', NEW t \in Tracks, Writes(t)
    PROVE  OutKinds'
<1>1. /\ written' = [written EXCEPT ![t] = NewEdge(t)]
      /\ sdNext' = [sdNext EXCEPT ![t] = IF NewSd(t) THEN @ + 1 ELSE @]
      /\ sdIndex' = [sdIndex EXCEPT ![t] = SdIndexNow(t)]
      /\ Moves(t)
  BY DEF Writes, Moves
<1>2. /\ written \in [Tracks -> Nat] /\ sdNext \in [Tracks -> Nat] /\ sdIndex \in [Tracks -> Nat]
      /\ mdatSizes \in [Tracks -> [run : Nat, left : Nat]] /\ pos \in Nat
      /\ subsegments \in Seq([size : Nat, duration : Nat]) /\ out \in Seq(Fragment)
      /\ MoofSize \in Nat
  BY InvFacts DEF OutKinds
<1>3. /\ written' \in [Tracks' -> Nat] /\ sdNext' \in [Tracks' -> Nat]
      /\ sdIndex' \in [Tracks' -> Nat]
  <2>1. NewEdge(t) \in Nat /\ SdIndexNow(t) \in Nat /\ Tracks' = Tracks
    BY <1>1, WriteFacts
  <2> QED BY <2>1, <1>1, <1>2
<1>4. Tracks' = Tracks
  BY <1>1, WriteFacts
<1>5. CASE Fails
  BY <1>2, <1>3, <1>4, <1>5 DEF Fails, OutKinds
<1>6. CASE Succeeds(t)
  <2> DEFINE b == BytesOf(movie[t], DueEdge(t), NewEdge(t))
             m == MdatAt(movie[t], NewEdge(t))
             R == [size : Nat, duration : Nat]
             s == Subsegment(b, t)
  <2>1. b \in Nat
    BY <1>1, WriteFacts
  <2>2. m \in [run : Nat, left : Nat]
    <3>1. NewEdge(t) \in 0..Num(t) /\ movie[t] \in Track /\ IsPlanned(movie[t])
      BY <1>1, WriteFacts
    <3>2. /\ m.run \in 0..Len(movie[t].sizes) /\ m.left \in Nat
          /\ m = [run |-> m.run, left |-> m.left]
      BY <3>1, MdatAtType
    <3> HIDE DEF m
    <3>3. m.run \in Nat
      BY <3>2
    <3> QED BY <3>2, <3>3
  <2>3. mdatSizes' \in [Tracks' -> [run : Nat, left : Nat]]
    <3>1. mdatSizes' = [mdatSizes EXCEPT ![t] = m]
      BY <1>6 DEF Succeeds
    <3> HIDE DEF m
    <3> QED BY <3>1, <2>2, <1>2, <1>4
  <2>4. pos' \in Nat
    <3>1. pos' = pos + MoofSize + 8 + b
      BY <1>6 DEF Succeeds
    <3> HIDE DEF b
    <3> QED BY <3>1, <2>1, <1>2
  <2>5. s \in R
    <3>1. 1 \in Tracks'
      BY <1>4, InvFacts
    <3>2. fragDuration'[1] \in Nat
      BY <3>1 DEF PlanKinds
    <3> HIDE DEF b
    <3>3. MoofSize + 8 + b \in Nat
      BY <2>1, <1>2
    <3> QED BY <3>2, <3>3 DEF Subsegment
  <2>6. subsegments' \in Seq(R)
    <3>1. subsegments' = Append(subsegments, s) \/ subsegments' = subsegments
      BY <1>6 DEF Succeeds
    <3>2. subsegments \in Seq(R)
      BY <1>2
    <3> HIDE DEF R, s
    <3> QED BY <3>1, <3>2, <2>5
  <2>7. out' \in Seq(Fragment)
    <3>1. fragSize'[t] \in Nat
      BY <1>4 DEF PlanKinds
    <3>2. NewFragment(t) \in Fragment
      BY <3>1, <1>1, FragmentIsOne
    <3>3. out' = Append(out, NewFragment(t))
      BY <1>6 DEF Succeeds
    <3>4. PICK x \in Fragment : x = NewFragment(t)
      BY <3>2
    <3> DEFINE F == Fragment
    <3>5. out \in Seq(F) /\ x \in F /\ out' = Append(out, x)
      BY <3>3, <3>4, <1>2
    <3> HIDE DEF F
    <3>6. out' \in Seq(F)
      BY <3>5
    <3> QED BY <3>6 DEF F
  <2> QED BY <2>3, <2>4, <2>6, <2>7, <1>3 DEF OutKinds
<1> QED BY <1>5, <1>6 DEF Writes

(* The description the first track's cursor has come to is the fragment's:  *)
(* descriptions start fragments, so none starts inside this one.            *)
LEMMA FirstDescription ==
    ASSUME WriterInv, NEW t \in Tracks, t = 1, Moves(t)
    PROVE  /\ sdNext'[t] \in 1..(Len(movie[t].sds) + 1)
           /\ \A d \in 1..Len(movie[t].sds) :
                 d < sdNext'[t] <=> movie[t].sds[d] < NewEdge(t)
           /\ sdIndex'[t] = IF sdNext'[t] = 1 THEN 1 ELSE sdNext'[t] - 1
           /\ sdIndex'[t] = DescriptionIn(movie[t], DueEdge(t))
<1> DEFINE T == movie[t]
           n == Len(T.sds)
           w == DueEdge(t)
           e == NewEdge(t)
           x == sdNext[t]
           y == sdNext'[t]
           p == Len(T.plan)
<1>1. /\ T \in Track /\ IsPlanned(T) /\ Due(t) \in 1..p /\ written[t] = w
      /\ w \in Nat /\ e \in Nat /\ w < e
      /\ y = IF NewSd(t) THEN x + 1 ELSE x
      /\ sdIndex'[t] = SdIndexNow(t)
  BY WriteFacts
<1>2. /\ x \in 1..(n + 1) /\ \A d \in 1..n : d < x <=> T.sds[d] < w
      /\ sdIndex[t] = IF x = 1 THEN 1 ELSE x - 1
  BY <1>1 DEF WriterInv, SdCursor
<1>3. n \in Nat /\ n > 0 /\ p \in Nat /\ \A d \in 1..n : T.sds[d] \in Nat
  BY <1>1, TrackTypes
<1>4. /\ T.sds[1] = 0 /\ \A i, j \in 1..n : i < j => T.sds[i] < T.sds[j]
  <2>1. T.sds[1] = 0 /\ \A d \in 1..(n - 1) : T.sds[d] < T.sds[d + 1]
    BY <1>1 DEF IsPlanned
  <2>2. n \in Int /\ \A d \in 1..n : T.sds[d] \in Int
    BY <1>3
  <2> QED BY <2>1, <2>2, Rising
<1>5. ASSUME NEW d \in 1..n PROVE T.sds[d] < e <=> T.sds[d] <= w
  <2>1. PICK f \in 1..p : T.plan[f].start = T.sds[d]
    BY <1>1 DEF IsPlanned
  <2>2. /\ T.sds[d] = Edge(T, f) /\ w = Edge(T, Due(t)) /\ e = Edge(T, Due(t) + 1)
    BY <2>1, <1>1, PlanEdges DEF DueEdge, NewEdge
  <2>3. /\ \A i, j \in 1..(p + 1) : i < j => Edge(T, i) < Edge(T, j)
        /\ f \in 1..(p + 1) /\ Due(t) \in 1..(p + 1) /\ Due(t) + 1 \in 1..(p + 1)
        /\ f \in Nat /\ Due(t) \in Nat
    BY <1>1, <1>3, PlanEdges, SMTT(40), ZenonT(40)
  <2>4. CASE f <= Due(t)
    <3>1. Edge(T, f) <= Edge(T, Due(t))
      <4>1. f = Due(t) \/ f < Due(t)
        BY <2>3, <2>4
      <4>2. f < Due(t) => Edge(T, f) < Edge(T, Due(t))
        BY <2>3
      <4> QED BY <4>1, <4>2, <2>2, <1>1, <1>3
    <3> QED BY <3>1, <2>2, <1>1, <1>3
  <2>5. CASE f > Due(t)
    <3>1. Edge(T, f) >= Edge(T, Due(t) + 1)
      <4>1. f = Due(t) + 1 \/ Due(t) + 1 < f
        BY <2>3, <2>5
      <4>2. Due(t) + 1 < f => Edge(T, Due(t) + 1) < Edge(T, f)
        BY <2>3
      <4> QED BY <4>1, <4>2, <2>2, <1>1, <1>3
    <3> QED BY <3>1, <2>2, <1>1, <1>3
  <2> QED BY <2>3, <2>4, <2>5
<1>6. NewSd(t) <=> x <= n /\ T.sds[x] = w
  BY <1>1 DEF NewSd
<1>7. SdIndexNow(t) = sdIndex[t] + (IF NewSd(t) /\ w > 0 THEN 1 ELSE 0)
  BY <1>1 DEF SdIndexNow
<1>8. 1 \in 1..n
  BY <1>3
<1>10. DescriptionIn(T, w) = Cardinality({d \in 1..n : T.sds[d] <= w})
  <2>1. DOMAIN T.sds = 1..n
    BY <1>1 DEF Track
  <2> QED BY <2>1 DEF DescriptionIn
<1> HIDE DEF n, w, e, x, y, p
<1> DEFINE s == T.sds
<1>11. /\ \A d \in 1..n : s[d] \in Nat /\ (d < x <=> s[d] < w) /\ (s[d] < e <=> s[d] <= w)
       /\ \A i, j \in 1..n : i < j => s[i] < s[j]
       /\ s[1] = 0 /\ (NewSd(t) <=> x <= n /\ s[x] = w)
  BY <1>2, <1>3, <1>4, <1>5, <1>6
<1>12. w \in Nat /\ x \in 1..(n + 1) /\ n \in Nat
  BY <1>1, <1>2, <1>3
<1>13. {d \in 1..n : T.sds[d] <= w} = {d \in 1..n : s[d] <= w}
  OBVIOUS
<1> HIDE DEF s
<1>14. \A d \in 1..n : d < y <=> s[d] <= w
  <2>1. CASE NewSd(t)
    <3>1. y = x + 1 /\ x \in 1..n /\ s[x] = w
      BY <2>1, <1>1, <1>11, <1>12
    <3> SUFFICES ASSUME NEW d \in 1..n PROVE d < y <=> s[d] <= w
      OBVIOUS
    <3>2. CASE d < x
      BY <3>1, <3>2, <1>11, <1>12
    <3>3. CASE d = x
      BY <3>1, <3>3, <1>12
    <3>4. CASE d > x
      <4>1. s[x] < s[d]
        BY <3>1, <3>4, <1>11
      <4>2. ~(d < y)
        BY <3>1, <3>4, <1>12
      <4> QED BY <4>1, <4>2, <3>1, <1>11, <1>12
    <3> QED BY <3>2, <3>3, <3>4, <1>12
  <2>2. CASE ~NewSd(t)
    <3>1. y = x
      BY <2>2, <1>1
    <3> SUFFICES ASSUME NEW d \in 1..n PROVE d < y <=> s[d] <= w
      OBVIOUS
    <3>2. CASE d < x
      BY <3>1, <3>2, <1>11, <1>12
    <3>3. CASE d >= x
      <4>1. x \in 1..n
        BY <3>3, <1>12
      <4>2. ~(s[x] < w) /\ s[x] # w /\ s[x] \in Nat
        BY <2>2, <4>1, <1>11, <1>12
      <4>3. s[x] > w
        BY <4>2, <1>12
      <4>4. d = x \/ x < d
        BY <3>3, <1>12
      <4>5. x < d => s[x] < s[d]
        BY <4>1, <1>11
      <4>6. s[d] \in Nat
        BY <1>11
      <4>7. ~(s[d] <= w)
        BY <4>2, <4>3, <4>4, <4>5, <4>6, <1>12
      <4> QED BY <4>7, <3>1, <3>3, <1>12
    <3> QED BY <3>2, <3>3, <1>12
  <2> QED BY <2>1, <2>2
<1>15. y \in 1..(n + 1)
  BY <1>1, <1>11, <1>12
<1>16. 1 < y
  BY <1>8, <1>11, <1>12, <1>14
<1>17. SdIndexNow(t) = y - 1
  <2>1. CASE x = 1
    <3>1. NewSd(t)
      BY <2>1, <1>1, <1>16
    <3>2. w = 0
      BY <2>1, <1>8, <1>11, <1>12
    <3> QED BY <3>1, <3>2, <2>1, <1>1, <1>2, <1>7
  <2>2. CASE x # 1
    <3>1. 1 < x
      BY <2>2, <1>12
    <3>2. w > 0
      BY <3>1, <1>8, <1>11, <1>12
    <3> QED BY <3>2, <2>2, <1>1, <1>2, <1>7, <1>12
  <2> QED BY <2>1, <2>2
<1>18. DescriptionIn(T, w) = y - 1
  <2>1. {d \in 1..n : s[d] <= w} = 1..(y - 1)
    BY <1>12, <1>14, <1>15
  <2>2. 1 \in Int /\ y - 1 \in Int /\ y - 1 >= 1
    BY <1>12, <1>15, <1>16
  <2>3. Cardinality(1..(y - 1)) = y - 1
    BY <2>2, FS_Interval
  <2> QED BY <2>1, <2>3, <1>10, <1>13
<1>19. \A d \in 1..n : d < y <=> T.sds[d] < e
  BY <1>11, <1>14 DEF s
<1> QED BY <1>1, <1>15, <1>16, <1>17, <1>18, <1>19 DEF n, w, e, y

LEMMA WritesCursors ==
    ASSUME WriterInv, NEW t \in Tracks, Writes(t)
    PROVE  MdatCursor' /\ SdCursor'
<1>1. Moves(t) /\ MdatCursor /\ SdCursor /\ OutKinds /\ movie' = movie /\ phase = "fragments"
  BY DEF Writes, Moves, WriterInv
<1>2. /\ Tracks' = Tracks /\ written'[t] = NewEdge(t)
      /\ \A u \in Tracks : u # t => /\ written'[u] = written[u] /\ sdNext'[u] = sdNext[u]
                                    /\ sdIndex'[u] = sdIndex[u]
      /\ sdNext'[t] = IF NewSd(t) THEN sdNext[t] + 1 ELSE sdNext[t]
      /\ sdIndex'[t] = SdIndexNow(t)
  BY <1>1, WriteFacts
<1>3. MdatCursor'
  <2>1. CASE Fails
    BY <2>1, <1>1, <1>2 DEF Fails, MdatCursor
  <2>2. CASE Succeeds(t)
    <3>1. mdatSizes' = [mdatSizes EXCEPT ![t] = MdatAt(movie[t], NewEdge(t))] /\ phase' = phase
      BY <2>2 DEF Succeeds
    <3>2. mdatSizes \in [Tracks -> [run : Nat, left : Nat]]
      BY <1>1 DEF OutKinds
    <3>3. mdatSizes'[t] = MdatAt(movie[t], NewEdge(t))
          /\ \A u \in Tracks : u # t => mdatSizes'[u] = mdatSizes[u]
      BY <3>1, <3>2
    <3>4. MdatAt(movie[t], NewEdge(t)).run <= Len(movie[t].sizes)
      <4>1. NewEdge(t) \in 0..Num(t) /\ movie[t] \in Track /\ IsPlanned(movie[t])
        BY <1>1, WriteFacts
      <4>2. MdatAt(movie[t], NewEdge(t)).run \in 0..Len(movie[t].sizes)
        BY <4>1, MdatAtType
      <4>3. Len(movie[t].sizes) \in Nat
        BY <4>1, TrackTypes
      <4> QED BY <4>2, <4>3
    <3> QED BY <3>1, <3>3, <3>4, <1>1, <1>2 DEF MdatCursor
  <2> QED BY <2>1, <2>2 DEF Writes
<1>4. SdCursor'
  <2> SUFFICES ASSUME NEW u \in Tracks
               PROVE  /\ u = 1 => /\ sdNext'[u] \in 1..(Len(movie[u].sds) + 1)
                                  /\ \A d \in 1..Len(movie[u].sds) :
                                        d < sdNext'[u] <=> movie[u].sds[d] < written'[u]
                                  /\ sdIndex'[u] = IF sdNext'[u] = 1 THEN 1 ELSE sdNext'[u] - 1
                      /\ u # 1 => sdNext'[u] = Len(movie[u].sds) + 1 /\ sdIndex'[u] = 1
    BY <1>1, <1>2 DEF SdCursor
  <2>1. CASE u # t
    BY <2>1, <1>1, <1>2 DEF SdCursor
  <2>2. CASE u = t /\ t = 1
    BY <2>2, <1>1, <1>2, FirstDescription
  <2>3. CASE u = t /\ t # 1
    <3>1. sdNext[t] = Len(movie[t].sds) + 1 /\ sdIndex[t] = 1
      BY <2>3, <1>1 DEF SdCursor
    <3>2. Len(movie[t].sds) \in Nat
      BY InvFacts, MovieTracks, TrackTypes
    <3>3. ~NewSd(t)
      BY <3>1, <3>2 DEF NewSd
    <3>4. SdIndexNow(t) = 1
      BY <3>1, <3>3 DEF SdIndexNow
    <3> QED BY <2>3, <3>1, <3>3, <3>4, <1>2
  <2> QED BY <2>1, <2>2, <2>3
<1> QED BY <1>3, <1>4

LEMMA WritesHistory ==
    ASSUME WriterInv, PlanKinds', NEW t \in Tracks, Writes(t)
    PROVE  Written' /\ Counts' /\ Placed'
<1>1. /\ Moves(t) /\ movie' = movie /\ cfg' = cfg /\ phase = "fragments"
      /\ \A u \in Tracks : Due(u)' = IF u = t THEN Due(u) + 1 ELSE Due(u)
  BY DEF Writes, Moves
<1>2. Written /\ Counts /\ Placed /\ out \in Seq(Fragment) /\ pos \in Nat /\ MoofSize \in Nat
  BY InvFacts DEF WriterInv, OutKinds
<1>3. /\ Tracks' = Tracks /\ Due(t) \in 1..Len(movie[t].plan) /\ Len(movie[t].plan) \in Nat
      /\ movie[t] \in Track
      /\ \A u \in Tracks : Due(u) \in Nat
  BY <1>1, WriteFacts, InvFacts
<1>4. CASE Fails
  <2>1. phase' = "failed" /\ out' = out
    BY <1>4 DEF Fails
  <2>2. \A u : FragmentsOf(u)' = FragmentsOf(u) /\ \A i : Nth(u, i)' = Nth(u, i)
    <3>1. \A u : FragmentsOf(u)' = FragmentsOf(u)
      BY <2>1 DEF FragmentsOf
    <3> QED BY <3>1 DEF Nth
  <2>3. ASSUME NEW u \in Tracks, NEW i \in 1..Len(out), WrittenAt(u, i) PROVE WrittenAt(u, i)'
    <3>1. Nth(u, i) \in 1..(Due(u)' - 1)
      BY <2>3, <1>1, <1>3 DEF WrittenAt
    <3> QED BY <3>1, <2>1, <2>2, <2>3, <1>1 DEF WrittenAt
  <2>4. Written'
    BY <2>1, <2>3, <1>2, <1>3 DEF Written
  <2>5. Counts'
    BY <2>1 DEF Counts
  <2>6. Placed'
    BY <2>1, <1>2 DEF Placed
  <2> QED BY <2>4, <2>5, <2>6
<1>5. CASE Succeeds(t)
  <2>1. fragSize'[t] \in Nat
    BY <1>3 DEF PlanKinds
  <2>2. NewFragment(t) \in Fragment
    BY <2>1, <1>1, FragmentIsOne
  <2>3. PICK x \in Fragment : x = NewFragment(t)
    BY <2>2
  <2> DEFINE m == Len(out)
             b == BytesOf(movie[t], DueEdge(t), NewEdge(t))
  <2>4. /\ out' = Append(out, x) /\ phase' = "fragments"
        /\ cfg.ccff => fragSize'[t] = b
        /\ pos' = pos + MoofSize + 8 + b
    BY <2>3, <1>1, <1>5 DEF Succeeds
  <2>5. /\ x.track = t /\ x.first = DueEdge(t) /\ x.stop = NewEdge(t)
        /\ x.sdi = SdIndexNow(t) /\ x.moof = pos /\ x.data = pos + MoofSize + 8 /\ x.bytes = b
        /\ x.planned = fragSize'[t]
    BY <2>3 DEF NewFragment
  <2> HIDE DEF b
  <2>6. /\ m \in Nat /\ Len(out') = m + 1
        /\ out'[m + 1] = x /\ \A i \in 1..m : out'[i] = out[i]
        /\ \A u : Cardinality(FragmentsOf(u))' = Cardinality(FragmentsOf(u)) +
                     (IF u = t THEN 1 ELSE 0)
        /\ \A u : \A i \in 1..m : Nth(u, i)' = Nth(u, i)
        /\ \A i : i = m + 1 => \A u : u = t => Nth(u, i)' = Cardinality(FragmentsOf(u)) + 1
    BY <2>4, <2>5, <1>2, FragmentsAppended
  <2>7. \A u \in Tracks : Cardinality(FragmentsOf(u)) = Due(u) - 1
    BY <1>1, <1>2 DEF Counts
  <2>8. PICK k : k = m + 1
    OBVIOUS
  <2> HIDE DEF m
  <2>9. 1..Len(out') = (1..m) \cup {k}
    BY <2>6, <2>8
  <2>10. ASSUME NEW u \in Tracks, NEW i \in 1..m, WrittenAt(u, i) PROVE WrittenAt(u, i)'
    <3>1. Nth(u, i) \in 1..(Due(u)' - 1)
      BY <2>10, <1>1, <1>3 DEF WrittenAt
    <3>2. Nth(u, i)' = Nth(u, i) /\ out'[i] = out[i]
      BY <2>6
    <3> QED BY <3>1, <3>2, <2>10, <1>1 DEF WrittenAt
  <2>11. WrittenAt(t, k)'
    <3>1. Nth(t, k)' = Due(t)
      <4>1. Nth(t, k)' = Cardinality(FragmentsOf(t)) + 1
        BY <2>6, <2>8
      <4>2. Cardinality(FragmentsOf(t)) = Due(t) - 1 /\ Due(t) \in Nat
        BY <2>7, <1>3
      <4> QED BY <4>1, <4>2
    <3>2. out'[k] = x
      BY <2>6, <2>8
    <3>3. Due(t) \in 1..(Due(t)' - 1)
      BY <1>1, <1>3
    <3>4. t = 1 => x.sdi = DescriptionIn(movie[t], DueEdge(t))
      <4>1. sdIndex'[t] = SdIndexNow(t)
        BY <1>1, WriteFacts
      <4> QED BY <4>1, <2>5, <1>1, FirstDescription
    <3>5. cfg.ccff => x.planned = b
      BY <2>4, <2>5
    <3>6. x.bytes = BytesOf(movie[t], x.first, x.stop) /\ x.bytes = b
      BY <2>5 DEF b
    <3>7. x.first = Edge(movie[t], Due(t)) /\ x.stop = Edge(movie[t], Due(t) + 1)
      BY <2>5 DEF DueEdge, NewEdge
    <3>8. t = 1 => x.sdi = DescriptionIn(movie[t], x.first)
      BY <3>4, <2>5
    <3> QED BY <3>1, <3>2, <3>3, <3>5, <3>6, <3>7, <3>8, <1>1 DEF WrittenAt
  <2>12. Written'
    <3> SUFFICES ASSUME NEW i \in 1..Len(out')
                 PROVE  out'[i].track \in Tracks'
                        /\ \A u \in Tracks' : out'[i].track = u => WrittenAt(u, i)'
      BY DEF Written
    <3>1. CASE i \in 1..m
      <4>1. out'[i] = out[i] /\ out[i].track \in Tracks
            /\ \A u \in Tracks : out[i].track = u => WrittenAt(u, i)
        BY <3>1, <2>6, <1>2 DEF Written, m
      <4> QED BY <4>1, <3>1, <2>10, <1>3
    <3>2. CASE i = k
      <4>1. out'[i].track = t
        BY <3>2, <2>5, <2>6, <2>8
      <4>2. WrittenAt(t, i)'
        BY <3>2, <2>11
      <4>3. \A u \in Tracks' : out'[i].track = u => WrittenAt(u, i)'
        <5> SUFFICES ASSUME NEW u \in Tracks', out'[i].track = u PROVE WrittenAt(u, i)'
          OBVIOUS
        <5>1. u = t
          BY <4>1
        <5> QED BY <5>1, <4>2
      <4> QED BY <4>1, <4>3, <1>3
    <3> QED BY <3>1, <3>2, <2>9
  <2>13. Counts'
    <3> SUFFICES ASSUME NEW u \in Tracks PROVE Cardinality(FragmentsOf(u))' = Due(u)' - 1
      BY <1>3 DEF Counts
    <3>1. Cardinality(FragmentsOf(u)) = Due(u) - 1 /\ Due(u) \in Nat
      BY <2>7, <1>3
    <3>2. Cardinality(FragmentsOf(u))' = Cardinality(FragmentsOf(u)) + (IF u = t THEN 1 ELSE 0)
      BY <2>6
    <3>3. Due(u)' = IF u = t THEN Due(u) + 1 ELSE Due(u)
      BY <1>1
    <3> QED BY <3>1, <3>2, <3>3
  <2>14. Placed'
    <3> SUFFICES ASSUME NEW i \in 1..Len(out')
                 PROVE  /\ out'[i].data = out'[i].moof + MoofSize + 8
                        /\ i < Len(out') => out'[i + 1].moof = out'[i].data + out'[i].bytes
                        /\ i = Len(out') => pos' = out'[i].data + out'[i].bytes
      BY DEF Placed
    <3>1. CASE i \in 1..m
      <4>1. /\ out'[i] = out[i] /\ out[i].data = out[i].moof + MoofSize + 8
            /\ i < m => out[i + 1].moof = out[i].data + out[i].bytes
            /\ i = m => pos = out[i].data + out[i].bytes
        BY <3>1, <2>6, <1>1, <1>2 DEF Placed, m
      <4>2. i < Len(out') /\ i # Len(out')
        BY <3>1, <2>6
      <4>3. CASE i < m
        <5>1. i + 1 \in 1..m
          BY <3>1, <4>3, <2>6
        <5>2. out'[i + 1] = out[i + 1]
          BY <5>1, <2>6
        <5> QED BY <5>2, <4>1, <4>2, <4>3
      <4>4. CASE i = m
        <5>1. out'[i + 1].moof = pos
          BY <4>4, <2>5, <2>6
        <5> QED BY <5>1, <4>1, <4>2, <4>4
      <4> QED BY <3>1, <4>3, <4>4, <2>6
    <3>2. CASE i = k
      <4>1. out'[i] = x /\ ~(i < Len(out')) /\ i = Len(out')
        BY <3>2, <2>6, <2>8
      <4> QED BY <4>1, <2>4, <2>5
    <3> QED BY <3>1, <3>2, <2>9
  <2> QED BY <2>12, <2>13, <2>14
<1> QED BY <1>4, <1>5 DEF Writes

-----------------------------------------------------------------------------
LEMMA StepKinds ==
    ASSUME WriterInv, [Next]_vars
    PROVE  /\ PlanKinds' /\ Cursor' /\ Begin'
           /\ Keeps \/ \E t \in Tracks : Writes(t)
<1>1. CASE Start
  BY <1>1, StartStep
<1>2. CASE PrepareTracks
  BY <1>2, PrepareStep
<1>3. CASE OutputTurn
  BY <1>3, TurnStep
<1>4. CASE Finish
  BY <1>4, FinishStep
<1>5. CASE \E t \in Tracks : OutputQueued(t)
  BY <1>5, QueuedStep
<1>6. CASE UNCHANGED vars
  BY <1>6, StutterStep
<1> QED BY <1>1, <1>2, <1>3, <1>4, <1>5, <1>6 DEF Next

LEMMA WriterStep ==
    ASSUME WriterInv, [Next]_vars
    PROVE  WriterInv'
<1>1. PlanKinds' /\ Cursor' /\ Begin'
  BY StepKinds
<1>2. CASE Keeps
  BY <1>1, <1>2, KeepsHistory DEF WriterInv
<1>3. ASSUME NEW t \in Tracks, Writes(t) PROVE WriterInv'
  BY <1>1, <1>3, WritesOutKinds, WritesCursors, WritesHistory DEF WriterInv
<1> QED BY <1>2, <1>3, StepKinds

LEMMA WriterInvariance == Spec => []WriterInv
BY InitInv, WriterStep, PTL DEF Spec
-----------------------------------------------------------------------------
(* What the runs check.                                                     *)
LEMMA PayloadsFollow == WriterInv => PayloadsFit
<1> SUFFICES ASSUME WriterInv, NEW i \in 1..Len(out)
             PROVE  LET o     == out[i]
                        bytes == Bytes(o.track, o.first, o.stop)
                    IN  /\ o.bytes = bytes
                        /\ cfg.ccff => o.planned = bytes
                        /\ phase # "failed" =>
                              o.data + bytes = IF i < Len(out) THEN out[i + 1].moof ELSE pos
  BY DEF PayloadsFit
<1> DEFINE t == out[i].track
<1>1. t \in Tracks /\ WrittenAt(t, i)
  BY DEF WriterInv, Written
<1>2. /\ out[i].bytes = BytesOf(movie[t], out[i].first, out[i].stop)
      /\ cfg.ccff => out[i].planned = out[i].bytes
  BY <1>1 DEF WrittenAt
<1>3. Bytes(t, out[i].first, out[i].stop) = out[i].bytes
  BY <1>2, BytesOfTrack
<1>4. /\ i < Len(out) => out[i + 1].moof = out[i].data + out[i].bytes
      /\ i = Len(out) /\ phase # "failed" => pos = out[i].data + out[i].bytes
  BY DEF WriterInv, Placed
<1>5. Len(out) \in Nat
  BY InvFacts DEF OutKinds
<1>6. phase # "failed" =>
         out[i].data + out[i].bytes = IF i < Len(out) THEN out[i + 1].moof ELSE pos
  BY <1>4, <1>5
<1> QED BY <1>2, <1>3, <1>6

(* The sizes found for a fragment, both walks, are those of its samples,    *)
(* and boxes follow one another, whatever the sizes and runs.               *)
THEOREM PayloadsMatch == Spec => []PayloadsFit
BY WriterInvariance, PayloadsFollow, PTL

LEMMA InvIsTypeOK == WriterInv => TypeOK
<1> SUFFICES ASSUME WriterInv PROVE TypeOK
  OBVIOUS
<1>1. /\ PlanKinds /\ OutKinds /\ movie \in Movies
      /\ \A t \in Tracks : CursorAt(t) /\ Len(movie[t].plan) \in Nat
      /\ NoDts \in Nat
  BY InvFacts
<1>2. ASSUME NEW t \in Tracks
      PROVE  /\ segNext[t] \in 1..(Len(movie[t].plan) + 1)
             /\ written[t] \in 0..Num(t)
             /\ fragDts[t] \in 0..NoDts /\ fragDuration[t] \in Nat /\ fragSize[t] \in Nat
             /\ sdNext[t] \in 1..(Len(movie[t].sds) + 1)
             /\ sdIndex[t] \in 1..Len(movie[t].sds)
             /\ mdatSizes[t].run \in 0..Len(movie[t].sizes) /\ mdatSizes[t].left \in Nat
  <2>1. movie[t] \in Track /\ IsPlanned(movie[t])
    BY <1>1, MovieTracks
  <2>2. segNext[t] \in 1..(Len(movie[t].plan) + 1)
    BY <1>1 DEF CursorAt
  <2>3. written[t] \in 0..Num(t)
    <3>1. written[t] = Edge(movie[t], Due(t)) /\ Due(t) \in 1..(Len(movie[t].plan) + 1)
      BY <1>1 DEF CursorAt, DueEdge
    <3> QED BY <3>1, <2>1, PlanEdges DEF Num
  <2>4. fragDts[t] \in 0..NoDts
    <3>1. fragDts[t] \in Nat /\ fragDts[t] <= NoDts
      BY <1>1 DEF CursorAt, PlanKinds
    <3> QED BY <3>1, <1>1
  <2>5. fragDuration[t] \in Nat /\ fragSize[t] \in Nat
    BY <1>1 DEF PlanKinds
  <2>6. Len(movie[t].sds) \in Nat /\ Len(movie[t].sds) > 0 /\ Len(movie[t].sizes) \in Nat
    BY <2>1, TrackTypes
  <2>7. /\ t = 1 => /\ sdNext[t] \in 1..(Len(movie[t].sds) + 1)
                    /\ sdIndex[t] = IF sdNext[t] = 1 THEN 1 ELSE sdNext[t] - 1
        /\ t # 1 => sdNext[t] = Len(movie[t].sds) + 1 /\ sdIndex[t] = 1
    BY DEF WriterInv, SdCursor
  <2>8. sdNext[t] \in 1..(Len(movie[t].sds) + 1) /\ sdIndex[t] \in 1..Len(movie[t].sds)
    BY <2>6, <2>7
  <2>9. mdatSizes[t].run \in Nat /\ mdatSizes[t].left \in Nat
    <3> DEFINE R == [run : Nat, left : Nat]
    <3>1. mdatSizes[t] \in R
      BY <1>1 DEF OutKinds
    <3> QED BY <3>1
  <2>10. mdatSizes[t].run <= Len(movie[t].sizes)
    BY DEF WriterInv, MdatCursor
  <2> QED BY <2>2, <2>3, <2>4, <2>5, <2>6, <2>8, <2>9, <2>10
<1> QED BY <1>1, <1>2 DEF TypeOK, PlanKinds, OutKinds

LEMMA PlanFollows == WriterInv => WrittenAsPlanned /\ FirstTrackDescriptions
<1> SUFFICES ASSUME WriterInv PROVE WrittenAsPlanned /\ FirstTrackDescriptions
  OBVIOUS
<1>1. ASSUME NEW i \in 1..Len(out)
      PROVE  /\ out[i].first = movie[out[i].track].plan[Nth(out[i].track, i)].start
             /\ out[i].stop = movie[out[i].track].plan[Nth(out[i].track, i)].stop
             /\ out[i].track = 1 => out[i].sdi = DescriptionOf(out[i])
  <2> DEFINE t == out[i].track
             n == Nth(t, i)
  <2>1. t \in Tracks /\ WrittenAt(t, i)
    BY DEF WriterInv, Written
  <2>2. /\ n \in 1..(Due(t) - 1)
        /\ out[i].first = Edge(movie[t], n) /\ out[i].stop = Edge(movie[t], n + 1)
        /\ t = 1 => out[i].sdi = DescriptionIn(movie[t], out[i].first)
    BY <2>1 DEF WrittenAt
  <2>3. /\ movie \in Movies /\ Due(t) \in 1..(Len(movie[t].plan) + 1)
        /\ Len(movie[t].plan) \in Nat
    BY <2>1, InvFacts DEF CursorAt
  <2> HIDE DEF n, t
  <2>4. n \in 1..Len(movie[t].plan)
    BY <2>2, <2>3
  <2>5. /\ movie[t].plan[n].start = Edge(movie[t], n)
        /\ movie[t].plan[n].stop = Edge(movie[t], n + 1)
    BY <2>1, <2>3, <2>4, PlanOfTrack
  <2>6. DescriptionOf(out[i]) = DescriptionIn(movie[t], out[i].first)
    BY DEF DescriptionOf, DescriptionIn, t
  <2>7. out[i].first = movie[t].plan[n].start /\ out[i].stop = movie[t].plan[n].stop
        /\ (t = 1 => out[i].sdi = DescriptionOf(out[i]))
    BY <2>2, <2>5, <2>6
  <2> QED BY <2>7 DEF n, t
<1>2. DOMAIN out = 1..Len(out)
  <2> DEFINE F == Fragment
  <2>1. out \in Seq(F)
    BY InvFacts DEF OutKinds
  <2> HIDE DEF F
  <2> QED BY <2>1
<1> QED BY <1>1, <1>2 DEF WrittenAsPlanned, FirstTrackDescriptions

(* The nth fragment written of a track holds the samples of the nth one     *)
(* planned, although the one is cut by decode time and the other by sample  *)
(* number, and those of the first track name the description of their       *)
(* samples: in both styles, whatever the decode times, plans, descriptions  *)
(* and time scales, and also when the output fails.                         *)
THEOREM PlanFollowed ==
    Spec => [](WrittenAsPlanned /\ TypeOK /\ FirstTrackDescriptions)
BY WriterInvariance, InvIsTypeOK, PlanFollows, PTL
-----------------------------------------------------------------------------
(* Rescaled times keep their order.                                         *)
LEMMA QuotientGrows ==
    ASSUME NEW a \in Nat, NEW b \in Nat, NEW s \in Nat \ {0}, a <= b
    PROVE  a \div s \in Nat /\ a \div s <= b \div s
<1> DEFINE p == a \div s
           q == b \div s
<1>1. /\ p \in Int /\ a % s \in 0..(s - 1) /\ a = s * p + (a % s)
      /\ q \in Int /\ b % s \in 0..(s - 1) /\ b = s * q + (b % s)
  OBVIOUS
<1> DEFINE x == a % s
           y == b % s
<1>2. p \in Int /\ q \in Int /\ x \in 0..(s - 1) /\ y \in 0..(s - 1) /\ a = s * p + x /\ b = s * q + y
  BY <1>1
<1> HIDE DEF p, q, x, y
<1>3. p >= 0
  <2> SUFFICES ASSUME p <= -1 PROVE FALSE
    BY <1>2
  <2>1. s * p <= s * (-1)
    BY <1>2
  <2> QED BY <2>1, <1>2
<1>4. p <= q
  <2> SUFFICES ASSUME q + 1 <= p PROVE FALSE
    BY <1>2
  <2>1. s * (q + 1) <= s * p
    BY <1>2
  <2>2. s * (q + 1) = s * q + s
    BY <1>2
  <2> QED BY <2>1, <2>2, <1>2
<1>5. p \in Nat
  BY <1>2, <1>3
<1> QED BY <1>4, <1>5 DEF p, q

LEMMA MicrosGrow ==
    ASSUME movie \in Movies, NEW t \in Tracks, NEW d \in Nat, NEW e \in Nat, d <= e
    PROVE  InMicros(t, d) \in Nat /\ InMicros(t, d) <= InMicros(t, e)
<1> DEFINE s == movie[t].scale
<1>1. s \in Nat \ {0} /\ Micro \in Nat
  BY MovieTracks, TrackTypes, FragmentWriterAssumption
<1>2. InMicros(t, d) = (d * Micro + s \div 2) \div s /\ InMicros(t, e) = (e * Micro + s \div 2) \div s
  BY DEF InMicros
<1> HIDE DEF s
<1>3. s \div 2 \in Nat
  BY <1>1, QuotientGrows
<1>4. /\ d * Micro \in Nat /\ e * Micro \in Nat /\ d * Micro <= e * Micro
  <2>1. PICK k \in Nat : e = d + k
    <3>1. e - d \in Nat /\ e = d + (e - d)
      OBVIOUS
    <3> QED BY <3>1
  <2>2. e * Micro = d * Micro + k * Micro /\ k * Micro \in Nat /\ d * Micro \in Nat
    BY <2>1, <1>1
  <2> QED BY <2>2
<1>5. /\ d * Micro + s \div 2 \in Nat /\ e * Micro + s \div 2 \in Nat
      /\ d * Micro + s \div 2 <= e * Micro + s \div 2
  BY <1>3, <1>4
<1> QED BY <1>1, <1>2, <1>5, QuotientGrows
-----------------------------------------------------------------------------
(* The rounds that the default style counts are the fragments of each track.*)
LEMMA RoundsStart ==
    ASSUME CountsFit, WriterInv, Start, ~cfg.ccff, phase' = "fragments"
    PROVE  /\ rounds' = Len(movie[1].plan)
           /\ \A t \in Tracks : Len(movie[t].plan) = Len(movie[1].plan)
<1>1. /\ movie \in Movies /\ cfg \in Configs /\ Tracks \subseteq Nat /\ 1 \in Tracks
      /\ Tracks = DOMAIN movie /\ ShortRange \in Nat \ {0}
      /\ \A t \in Tracks : t >= 1
  <2>1. \A t \in 1..Len(movie) : t \in Nat /\ t >= 1
    BY InvFacts
  <2> QED BY <2>1, InvFacts DEF PlanKinds, Tracks
<1>2. CountsAgree /\ rounds' = RoundsNeeded
  BY DEF Start
<1>3. \A t \in Tracks : RefCount(t) = Len(movie[t].plan) /\ Len(movie[t].plan) \in Nat \ {0}
  <2> SUFFICES ASSUME NEW t \in Tracks
               PROVE  RefCount(t) = Len(movie[t].plan) /\ Len(movie[t].plan) \in Nat \ {0}
    OBVIOUS
  <2>1. Len(movie[t].plan) < ShortRange
    BY <1>1 DEF CountsFit
  <2>2. Len(movie[t].plan) \in Nat /\ Len(movie[t].plan) > 0
    BY <1>1, MovieTracks, TrackTypes
  <2>3. \A n \in Nat : n < ShortRange => n % ShortRange = n
    BY <1>1
  <2> QED BY <2>1, <2>2, <2>3 DEF RefCount
<1>4. Counted = Tracks
  BY <1>3 DEF Counted
<1>5. Min(Counted) = 1
  <2>1. Counted \subseteq Int /\ 1 \in Counted /\ \A t \in Counted : 1 <= t
    BY <1>1, <1>4
  <2> QED BY <2>1, MinIs
<1>6. RoundsNeeded = RefCount(1)
  BY <1>1, <1>4, <1>5 DEF RoundsNeeded
<1>7. \A t \in Tracks : RefCount(t) = RefCount(1)
  <2> SUFFICES ASSUME NEW t \in Tracks PROVE RefCount(t) = RefCount(1)
    OBVIOUS
  <2>1. t = 1 \/ t > 1
    BY <1>1
  <2>2. t > 1 => RefCount(t) = RoundsNeeded
    BY <1>1, <1>2, <1>4, <1>5 DEF CountsAgree
  <2> QED BY <2>1, <2>2, <1>6
<1> QED BY <1>1, <1>2, <1>3, <1>6, <1>7

(* get_moof_ccff ends only when no track has samples left: one of those that*)
(* would start earliest has a fragment.                                     *)
LEMMA NoneReady ==
    ASSUME WriterInv, cfg.ccff, queue = {}, Ready = {}
    PROVE  \A t \in Tracks : Due(t) = Len(movie[t].plan) + 1
<1>1. /\ movie \in Movies /\ \A t \in Tracks : /\ Len(movie[t].plan) \in Nat /\ CursorAt(t)
                                               /\ Due(t) = segNext[t]
  BY InvFacts DEF Due
<1>2. ASSUME NEW t \in Tracks PROVE HasSamples(t) <=> HasFragment(t)
  <2>1. /\ segNext[t] \in 1..(Len(movie[t].plan) + 1) /\ written[t] = Edge(movie[t], segNext[t])
        /\ Len(movie[t].plan) \in Nat
    BY <1>1 DEF CursorAt, DueEdge
  <2>2. CASE segNext[t] <= Len(movie[t].plan)
    <3>1. segNext[t] \in 1..Len(movie[t].plan)
      BY <2>1, <2>2
    <3>2. /\ written[t] \in Nat /\ Edge(movie[t], segNext[t] + 1) \in Nat
          /\ written[t] < Edge(movie[t], segNext[t] + 1)
          /\ Edge(movie[t], segNext[t] + 1) <= Num(t) /\ Num(t) \in Nat
      BY <3>1, <2>1, <1>1, PlanOfTrack
    <3> QED BY <3>2, <2>2 DEF HasSamples, HasFragment
  <2>3. CASE ~(segNext[t] <= Len(movie[t].plan))
    <3>1. written[t] = Num(t) /\ Num(t) \in Nat
      BY <2>1, <2>3, <1>1, DtsIsTime DEF Edge, Num
    <3> QED BY <3>1, <2>3 DEF HasSamples, HasFragment
  <2> QED BY <2>2, <2>3
<1>3. ASSUME NEW t \in Tracks PROVE InMicros(t, fragDts[t]) \in Nat
  <2>1. fragDts[t] \in Nat
    BY InvFacts DEF PlanKinds
  <2>2. fragDts[t] <= fragDts[t]
    BY <2>1
  <2> QED BY <2>1, <2>2, <1>1, MicrosGrow
<1>4. \A t \in Tracks : ~HasSamples(t)
  <2> SUFFICES ASSUME NEW t \in Tracks, HasSamples(t) PROVE FALSE
    OBVIOUS
  <2> DEFINE S == {InMicros(u, fragDts[u]) : u \in {v \in Tracks : HasSamples(v)}}
  <2>1. S \subseteq Nat /\ S # {}
    BY <1>3
  <2>2. PICK m \in S : \A y \in S : m <= y
    <3> HIDE DEF S
    <3> QED BY <2>1, Least
  <2>3. PICK u \in Tracks : HasSamples(u) /\ m = InMicros(u, fragDts[u])
    OBVIOUS
  <2>4. \A v \in Tracks : HasSamples(v) => InMicros(u, fragDts[u]) <= InMicros(v, fragDts[v])
    BY <2>2, <2>3
  <2>5. u \in Earliest
    BY <2>3, <2>4 DEF Earliest
  <2>6. u \in Ready
    BY <2>3, <2>5, <1>2 DEF Ready
  <2> QED BY <2>6
<1>5. ASSUME NEW t \in Tracks PROVE Due(t) = Len(movie[t].plan) + 1
  <2>1. ~(segNext[t] <= Len(movie[t].plan))
    BY <1>2, <1>4 DEF HasFragment
  <2>2. segNext[t] \in 1..(Len(movie[t].plan) + 1)
    BY <1>1 DEF CursorAt
  <2> QED BY <2>1, <2>2, <1>1
<1> QED BY <1>5

(* A turn takes one round from the last track on, and one fragment from the *)
(* track whose turn it is, which has one.                                   *)
LEMMA RoundsTurn ==
    ASSUME WriterInv, Rounds, OutputTurn
    PROVE  Rounds'
<1>1. /\ movie' = movie /\ cfg' = cfg /\ phase = "fragments" /\ ~cfg.ccff /\ rounds > 0
      /\ phase' \in {"fragments", "failed"}
      /\ rounds' = IF turn = Len(movie) THEN rounds - 1 ELSE rounds
      /\ turn' = IF turn = Len(movie) THEN 1 ELSE turn + 1
      /\ HasFragment(turn) => Take({turn}, [t \in {turn} |-> TurnEnd(t)])
  BY DEF OutputTurn, MdatFails, cursors, RoundsLeft
<1>2. /\ Tracks = 1..Len(movie) /\ Len(movie) \in Nat /\ turn \in Tracks /\ Tracks' = Tracks
      /\ \A t \in Tracks : Len(movie[t].plan) \in Nat /\ segNext[t] \in Nat
      /\ rounds \in Nat
  <2>1. rounds \in 0..(ShortRange - 1) /\ turn \in Tracks
    BY InvFacts DEF PlanKinds
  <2>2. rounds \in Nat
    BY <2>1, InvFacts
  <2> QED BY <2>1, <2>2, <1>1, InvFacts DEF Tracks
<1>3. \A t \in Tracks : IF t < turn THEN segNext[t] + rounds = Len(movie[t].plan) + 1 + 1
                                     ELSE segNext[t] + rounds = Len(movie[t].plan) + 1 + 0
  <2>1. \A t \in Tracks : segNext[t] + rounds =
            Len(movie[t].plan) + 1 + (IF t < turn THEN 1 ELSE 0)
    BY <1>1 DEF Rounds
  <2> QED BY <2>1
<1>4. HasFragment(turn)
  <2>1. PICK t \in Tracks : t = turn
    BY <1>2
  <2>2. ~(t < turn)
    BY <2>1, <1>2
  <2>3. segNext[t] + rounds = Len(movie[t].plan) + 1 + 0
    BY <2>1, <2>2, <1>3
  <2>4. segNext[t] <= Len(movie[t].plan)
    BY <2>3, <1>1, <1>2
  <2> QED BY <2>1, <2>4 DEF HasFragment
<1>5. \A t \in Tracks : segNext'[t] = IF t = turn THEN segNext[t] + 1 ELSE segNext[t]
  BY <1>1, <1>4 DEF Take
<1>6. ASSUME NEW t \in Tracks
      PROVE  segNext'[t] + rounds' = Len(movie[t].plan) + 1 + (IF t < turn' THEN 1 ELSE 0)
  <2>1. t \in 1..Len(movie) /\ turn \in 1..Len(movie) /\ Len(movie[t].plan) \in Nat
        /\ segNext[t] \in Nat
    BY <1>2
  <2>2. IF t < turn THEN segNext[t] + rounds = Len(movie[t].plan) + 1 + 1
                    ELSE segNext[t] + rounds = Len(movie[t].plan) + 1 + 0
    BY <1>3
  <2>3. rounds \in Nat /\ turn \in Nat /\ t \in Nat /\ t <= Len(movie) /\ turn <= Len(movie)
        /\ 1 <= t /\ Len(movie) \in Nat
    BY <2>1, <1>2
  <2>4. IF t < turn' THEN segNext'[t] + rounds' = Len(movie[t].plan) + 1 + 1
                     ELSE segNext'[t] + rounds' = Len(movie[t].plan) + 1 + 0
    <3>1. CASE turn = Len(movie)
      <4>1. rounds' = rounds - 1 /\ turn' = 1 /\ ~(t < turn')
        BY <2>3, <3>1, <1>1
      <4>2. CASE t = turn
        <5>1. segNext'[t] = segNext[t] + 1 /\ ~(t < turn)
          BY <4>2, <1>5, <2>3
        <5> QED BY <2>1, <2>2, <2>3, <4>1, <5>1
      <4>3. CASE t # turn
        <5>1. segNext'[t] = segNext[t] /\ t < turn
          BY <4>3, <1>5, <2>3, <3>1
        <5> QED BY <2>1, <2>2, <2>3, <4>1, <5>1, SMTT(40), ZenonT(40)
      <4> QED BY <4>2, <4>3
    <3>2. CASE turn # Len(movie)
      <4>1. rounds' = rounds /\ turn' = turn + 1
        BY <3>2, <1>1
      <4>2. CASE t = turn
        <5>1. segNext'[t] = segNext[t] + 1 /\ ~(t < turn) /\ t < turn'
          BY <4>1, <4>2, <1>5, <2>3
        <5>2. segNext[t] + rounds = Len(movie[t].plan) + 1 + 0
          BY ONLY <2>2, <5>1
        <5>3. segNext'[t] + rounds' = Len(movie[t].plan) + 1 + 1
          <6>1. \A a, r, n \in Nat : a + r = n + 1 + 0 => (a + 1) + r = n + 1 + 1
            OBVIOUS
          <6>2. (segNext[t] + 1) + rounds = Len(movie[t].plan) + 1 + 1
            BY ONLY <5>2, <6>1, <2>1, <2>3, SMTT(40), ZenonT(40)
          <6> QED BY ONLY <4>1, <5>1, <6>2
        <5> QED BY ONLY <5>1, <5>3
      <4>3. CASE t # turn
        <5>1. segNext'[t] = segNext[t] /\ (t < turn <=> t < turn')
          BY <4>1, <4>3, <1>5, <2>3
        <5>2. segNext'[t] + rounds' = segNext[t] + rounds
          BY <4>1, <5>1
        <5> QED BY ONLY <2>2, <5>1, <5>2
      <4> QED BY <4>2, <4>3
    <3> QED BY <3>1, <3>2
  <2> QED BY <2>4
<1>7. rounds' = 0 => turn' = 1
  BY <1>1, <1>2
<1> QED BY <1>1, <1>2, <1>6, <1>7 DEF Rounds

LEMMA RoundsStep ==
    ASSUME CountsFit, WriterInv, Rounds, [Next]_vars
    PROVE  Rounds'
<1>1. CASE Start
  <2>1. UNCHANGED <<movie, cfg, segNext, turn, queue>> /\ phase = "start"
        /\ phase' \in {"fragments", "not supported"}
    BY <1>1 DEF Start, cursors
  <2>2. turn = 1 /\ \A t \in Tracks : segNext[t] = 1
    BY <2>1, InvFacts DEF Begin
  <2>3. Tracks' = Tracks /\ \A t \in Tracks : t \in Nat /\ ~(t < 1) /\ Len(movie[t].plan) \in Nat
    <3>1. \A t \in 1..Len(movie) : t \in Nat /\ ~(t < 1)
      BY InvFacts
    <3> QED BY <3>1, <2>1, InvFacts DEF Tracks
  <2>4. (~cfg.ccff /\ phase' = "fragments") =>
          \A t \in Tracks : segNext'[t] + rounds' =
              Len(movie[t].plan) + 1 + (IF t < turn' THEN 1 ELSE 0)
    <3> SUFFICES ASSUME ~cfg.ccff, phase' = "fragments", NEW t \in Tracks
                 PROVE  segNext'[t] + rounds' = Len(movie[t].plan) + 1 + (IF t < turn' THEN 1 ELSE 0)
      OBVIOUS
    <3>1. rounds' = Len(movie[t].plan)
      BY <1>1, RoundsStart
    <3>2. segNext'[t] = 1 /\ ~(t < turn') /\ Len(movie[t].plan) \in Nat
      BY <2>1, <2>2, <2>3
    <3>3. segNext'[t] + rounds' = Len(movie[t].plan) + 1 + 0
      BY <3>1, <3>2
    <3> QED BY <3>2, <3>3
  <2> QED BY <2>1, <2>2, <2>3, <2>4 DEF Rounds
<1>2. CASE PrepareTracks
  <2>1. movie' = movie /\ cfg' = cfg /\ cfg.ccff /\ phase' = "fragments"
    BY <1>2 DEF PrepareTracks
  <2> QED BY <2>1 DEF Rounds
<1>3. CASE OutputTurn
  BY <1>3, RoundsTurn
<1>4. CASE Finish
  <2>1. UNCHANGED <<movie, cfg, segNext, turn, rounds, queue>> /\ phase = "fragments"
        /\ Tracks' = Tracks
        /\ IF cfg.ccff THEN queue = {} /\ Ready = {} ELSE rounds = 0
    BY <1>4 DEF Finish, cursors, Tracks
  <2>2. \A t \in Tracks : Due(t)' = Due(t)
    BY <2>1 DEF Due
  <2>3. CASE cfg.ccff
    <3>1. \A t \in Tracks : Due(t) = Len(movie[t].plan) + 1
      BY <2>1, <2>3, NoneReady
    <3> QED BY <3>1, <2>1, <2>2, <2>3 DEF Rounds
  <2>4. CASE ~cfg.ccff
    <3>1. /\ rounds = 0 /\ turn = 1 /\ queue = {}
          /\ \A t \in Tracks : segNext[t] + rounds =
                Len(movie[t].plan) + 1 + (IF t < turn THEN 1 ELSE 0)
      BY <2>1, <2>4, InvFacts DEF Rounds, Cursor
    <3>2. \A t \in Tracks : Due(t) = Len(movie[t].plan) + 1
      <4> SUFFICES ASSUME NEW t \in Tracks PROVE Due(t) = Len(movie[t].plan) + 1
        OBVIOUS
      <4>1. t \in Nat /\ ~(t < 1) /\ Len(movie[t].plan) \in Nat /\ segNext[t] \in Nat
        <5>1. \A k \in 1..Len(movie) : k \in Nat /\ ~(k < 1)
          BY InvFacts
        <5> QED BY <5>1, InvFacts
      <4>2. segNext[t] + 0 = Len(movie[t].plan) + 1 + 0
        BY <3>1, <4>1
      <4>3. Due(t) = segNext[t]
        BY <3>1 DEF Due
      <4> QED BY <4>1, <4>2, <4>3
    <3> QED BY <3>1, <3>2, <2>1, <2>2, <2>4 DEF Rounds
  <2> QED BY <2>3, <2>4
<1>5. ASSUME NEW t \in Tracks, OutputQueued(t) PROVE Rounds'
  <2>1. movie' = movie /\ cfg' = cfg /\ cfg.ccff /\ phase' \in {"fragments", "failed"}
    BY <1>5 DEF OutputQueued, MdatFails
  <2> QED BY <2>1 DEF Rounds
<1>6. CASE UNCHANGED vars
  <2>1. UNCHANGED <<movie, cfg, segNext, turn, rounds, queue, phase>> /\ Tracks' = Tracks
    BY <1>6 DEF vars, Tracks
  <2>2. \A t \in Tracks : Due(t)' = Due(t)
    BY <2>1 DEF Due
  <2> QED BY <2>1, <2>2 DEF Rounds
<1> QED BY <1>1, <1>2, <1>3, <1>4, <1>5, <1>6 DEF Next

LEMMA RoundsHolds == ASSUME CountsFit PROVE Spec => []Rounds
<1>1. Init => Rounds
  BY DEF Init, Rounds
<1>2. WriterInv /\ Rounds /\ [Next]_vars => Rounds'
  BY RoundsStep
<1> QED BY <1>1, <1>2, WriterInvariance, PTL DEF Spec

LEMMA AllAreWritten == WriterInv /\ Rounds => AllWritten
<1> SUFFICES ASSUME WriterInv, Rounds, phase = "done", NEW t \in Tracks
             PROVE  Cardinality(FragmentsOf(t)) = Len(movie[t].plan) /\ written[t] = Num(t)
  BY DEF AllWritten
<1>1. Due(t) = Len(movie[t].plan) + 1 /\ Len(movie[t].plan) \in Nat
  BY InvFacts DEF Rounds
<1>2. Cardinality(FragmentsOf(t)) = Due(t) - 1
  BY DEF WriterInv, Counts
<1>3. written[t] = Edge(movie[t], Due(t))
  BY InvFacts DEF CursorAt, DueEdge
<1>4. ~(Due(t) <= Len(movie[t].plan))
  BY <1>1
<1>5. written[t] = Num(t)
  BY <1>3, <1>4 DEF Edge, Num
<1> QED BY <1>1, <1>2, <1>5

(* And a finished file has all of them, in CCFF style although the loop     *)
(* ends with the first round in which no track that is earliest has a       *)
(* fragment left, and in the default style although it only counts the      *)
(* fragments of one track, unless they are too many for the 16 bits the     *)
(* count is kept in.                                                        *)
THEOREM PlanCompleted == ASSUME CountsFit PROVE Spec => []FragmentsAsPlanned
<1>1. WriterInv /\ Rounds => FragmentsAsPlanned
  BY AllAreWritten, PlanFollows, InvIsTypeOK DEF FragmentsAsPlanned
<1> QED BY <1>1, WriterInvariance, RoundsHolds, PTL
-----------------------------------------------------------------------------
(* When fragments start, in microseconds.                                   *)
LEMMA DueTimes ==
    ASSUME WriterInv, NEW t \in Tracks
    PROVE  /\ DueTime(t) \in Nat
           /\ HasSamples(t) => Due(t) \in 1..Len(movie[t].plan)
           /\ Due(t) \in 1..Len(movie[t].plan) =>
                 /\ HasSamples(t)
                 /\ InMicros(t, DtsFromIdx(t, DueEdge(t))) = DueTime(t)
                 /\ InMicros(t, TimeAt(movie[t], NewEdge(t))) \in Nat
                 /\ DueTime(t) <= InMicros(t, TimeAt(movie[t], NewEdge(t)))
<1>1. /\ movie \in Movies /\ Due(t) \in 1..(Len(movie[t].plan) + 1)
      /\ written[t] = DueEdge(t) /\ Len(movie[t].plan) \in Nat
  BY InvFacts DEF CursorAt
<1>2. /\ \A i \in 0..(Num(t) - 1) : DtsFromIdx(t, i) = TimeAt(movie[t], i)
      /\ \A i \in 0..Num(t) : TimeAt(movie[t], i) \in Nat
      /\ \A i, j \in 0..Num(t) : i < j => TimeAt(movie[t], i) < TimeAt(movie[t], j)
      /\ Num(t) \in Nat /\ Num(t) > 0
  BY <1>1, DtsIsTime
<1>3. \A d \in Nat : InMicros(t, d) \in Nat
  <2> SUFFICES ASSUME NEW d \in Nat PROVE InMicros(t, d) \in Nat
    OBVIOUS
  <2>1. d <= d
    OBVIOUS
  <2> QED BY <2>1, <1>1, MicrosGrow
<1>4. CASE Due(t) \in 1..Len(movie[t].plan)
  <2>1. /\ DueEdge(t) \in Nat /\ NewEdge(t) \in Nat /\ DueEdge(t) < NewEdge(t)
        /\ NewEdge(t) <= Num(t)
    BY <1>1, <1>4, PlanOfTrack DEF DueEdge, NewEdge
  <2>2. HasSamples(t)
    BY <2>1, <1>1, <1>2 DEF HasSamples
  <2>3. DueEdge(t) \in 0..(Num(t) - 1) /\ DueEdge(t) \in 0..Num(t) /\ NewEdge(t) \in 0..Num(t)
    BY <2>1, <1>2
  <2>4. /\ DtsFromIdx(t, DueEdge(t)) = TimeAt(movie[t], DueEdge(t))
        /\ TimeAt(movie[t], DueEdge(t)) \in Nat /\ TimeAt(movie[t], NewEdge(t)) \in Nat
        /\ TimeAt(movie[t], DueEdge(t)) < TimeAt(movie[t], NewEdge(t))
    BY <2>1, <2>3, <1>2
  <2>5. TimeAt(movie[t], DueEdge(t)) <= TimeAt(movie[t], NewEdge(t))
    BY <2>4
  <2>6. InMicros(t, TimeAt(movie[t], DueEdge(t))) <= InMicros(t, TimeAt(movie[t], NewEdge(t)))
    BY <2>4, <2>5, <1>1, MicrosGrow
  <2> QED BY <2>2, <2>4, <2>6, <1>3, <1>4 DEF DueTime
<1>5. CASE ~(Due(t) \in 1..Len(movie[t].plan))
  <2>1. Due(t) = Len(movie[t].plan) + 1
    BY <1>1, <1>5
  <2>2. DueEdge(t) = Num(t)
    BY <2>1, <1>1 DEF DueEdge, Edge, Num
  <2>3. Num(t) \in 0..Num(t)
    BY <1>2
  <2>4. DueTime(t) \in Nat
    BY <2>2, <2>3, <1>2, <1>3 DEF DueTime
  <2>5. ~HasSamples(t)
    BY <2>2, <1>1, <1>2 DEF HasSamples
  <2> QED BY <2>4, <2>5, <1>5
<1> QED BY <1>4, <1>5

LEMMA StartIsNat ==
    ASSUME WriterInv, NEW i \in 1..Len(out)
    PROVE  StartOf(out[i]) \in Nat
<1>1. PICK t : t = out[i].track
  OBVIOUS
<1>2. t \in Tracks /\ WrittenAt(t, i)
  BY <1>1 DEF WriterInv, Written
<1>3. PICK n : n = Nth(t, i)
  OBVIOUS
<1>4. n \in 1..(Due(t) - 1) /\ out[i].first = Edge(movie[t], n)
  BY <1>2, <1>3 DEF WrittenAt
<1>5. /\ movie \in Movies /\ Due(t) \in 1..(Len(movie[t].plan) + 1)
      /\ Len(movie[t].plan) \in Nat
  BY <1>2, InvFacts DEF CursorAt
<1>6. n \in 1..Len(movie[t].plan)
  BY <1>4, <1>5
<1>7. /\ Edge(movie[t], n) \in Nat /\ Edge(movie[t], n + 1) \in Nat
      /\ Edge(movie[t], n) < Edge(movie[t], n + 1) /\ Edge(movie[t], n + 1) <= Num(t)
      /\ Num(t) \in Nat
  BY <1>2, <1>5, <1>6, PlanOfTrack
<1>8. out[i].first \in 0..(Num(t) - 1)
  BY <1>4, <1>7
<1>9. DtsFromIdx(t, out[i].first) \in Nat
  BY <1>2, <1>5, <1>8, DtsIsTime
<1>10. DtsFromIdx(t, out[i].first) <= DtsFromIdx(t, out[i].first)
  BY <1>9
<1> QED BY <1>1, <1>2, <1>5, <1>9, <1>10, MicrosGrow DEF StartOf

(* A step that writes nothing leaves the order as it is.                    *)
LEMMA OrderKept ==
    ASSUME WriterInv, Scheduled, InDecodeOrder, Keeps,
           cfg.ccff => \A t \in queue' : \A u \in Tracks : HasSamples(u) => DueTime(t) <= DueTime(u),
           queue' \subseteq Tracks
    PROVE  Scheduled' /\ InDecodeOrder'
<1>1. /\ UNCHANGED <<movie, cfg, written, out>> /\ Tracks' = Tracks
      /\ \A u \in Tracks : Due(u)' = Due(u)
  BY DEF Keeps, Tracks
<1>2. \A u \in Tracks : DueTime(u)' = DueTime(u) /\ HasSamples(u)' = HasSamples(u)
  <2>1. \A u \in Tracks : DueEdge(u)' = DueEdge(u)
    BY <1>1 DEF DueEdge
  <2> QED BY <2>1, <1>1 DEF DueTime, HasSamples, Num, InMicros
<1>3. \A i : StartOf(out[i])' = StartOf(out[i])
  BY <1>1 DEF StartOf, InMicros, DtsFromIdx, Num
<1>4. Scheduled'
  <2>1. cfg.ccff => \A t \in queue' : \A u \in Tracks : HasSamples(u)' => DueTime(t)' <= DueTime(u)'
    BY <1>2
  <2>2. ASSUME cfg.ccff, out # << >>, NEW u \in Tracks, HasSamples(u)'
        PROVE  StartOf(out[Len(out)])' <= DueTime(u)'
    <3>1. StartOf(out[Len(out)]) <= DueTime(u)
      BY <2>2, <1>2 DEF Scheduled
    <3>2. StartOf(out[Len(out)])' = StartOf(out[Len(out)])
      BY <1>1 DEF StartOf, InMicros, DtsFromIdx, Num
    <3> QED BY <3>1, <3>2, <1>2
  <2> QED BY <2>1, <2>2, <1>1 DEF Scheduled
<1>5. InDecodeOrder'
  BY <1>1 DEF InDecodeOrder, StartOf, InMicros, DtsFromIdx, Num
<1> QED BY <1>4, <1>5

(* The tracks prepared are those that start no later than any other.        *)
LEMMA PreparedFirst ==
    ASSUME WriterInv, PrepareTracks, NEW t \in Ready, NEW u \in Tracks, HasSamples(u)
    PROVE  DueTime(t) <= DueTime(u)
<1>1. cfg.ccff /\ queue = {} /\ t \in Tracks /\ t \in Earliest
  BY DEF PrepareTracks, Ready, Earliest
<1>2. \A v \in Tracks : DueTime(v) = InMicros(v, fragDts[v])
  <2>1. \A v \in Tracks : DueEdge(v) = NextEdge(v) /\ fragDts[v] = TimeAt(movie[v], NextEdge(v))
    BY <1>1, InvFacts DEF CursorAt, Due, DueEdge, NextEdge
  <2> QED BY <2>1 DEF DueTime
<1>3. PICK v \in Tracks :
        /\ \A w \in Tracks : HasSamples(w) => InMicros(v, fragDts[v]) <= InMicros(w, fragDts[w])
        /\ InMicros(t, fragDts[t]) = InMicros(v, fragDts[v])
  BY <1>1 DEF Earliest
<1> QED BY <1>1, <1>2, <1>3

(* The fragment written next starts no earlier than the last one, and no    *)
(* later than any other.                                                    *)
LEMMA QueuedOrder ==
    ASSUME WriterInv, Scheduled, InDecodeOrder, NEW t \in Tracks, OutputQueued(t)
    PROVE  Scheduled' /\ InDecodeOrder'
<1>1. /\ Writes(t) /\ cfg.ccff /\ cfg' = cfg /\ movie' = movie /\ t \in queue
      /\ queue' = queue \ {t} /\ queue \subseteq Tracks /\ Tracks' = Tracks
      /\ \A u \in Tracks : Due(u)' = IF u = t THEN Due(u) + 1 ELSE Due(u)
      /\ PlanKinds'
  BY QueuedStep, InvFacts DEF OutputQueued, PlanKinds, Writes, Moves, Tracks
<1>2. /\ Due(t) \in 1..Len(movie[t].plan) /\ written'[t] = NewEdge(t)
      /\ \A u \in Tracks : u # t => written'[u] = written[u]
  BY <1>1, WriteFacts DEF Writes
<1>3. /\ \A u \in Tracks : DueTime(u) \in Nat
      /\ HasSamples(t) /\ InMicros(t, DtsFromIdx(t, DueEdge(t))) = DueTime(t)
      /\ InMicros(t, TimeAt(movie[t], NewEdge(t))) \in Nat
      /\ DueTime(t) <= InMicros(t, TimeAt(movie[t], NewEdge(t)))
  BY <1>2, DueTimes
<1>4. /\ DueTime(t)' = InMicros(t, TimeAt(movie[t], NewEdge(t)))
      /\ \A u \in Tracks : u # t => DueTime(u)' = DueTime(u) /\ HasSamples(u)' = HasSamples(u)
  <2>1. DueEdge(t)' = NewEdge(t) /\ \A u \in Tracks : u # t => DueEdge(u)' = DueEdge(u)
    BY <1>1 DEF DueEdge, NewEdge
  <2> QED BY <2>1, <1>1, <1>2 DEF DueTime, HasSamples, Num, InMicros
<1>5. ASSUME NEW u \in Tracks, HasSamples(u)'
      PROVE  HasSamples(u) /\ DueTime(u) <= DueTime(u)' /\ DueTime(u)' \in Nat
  BY <1>3, <1>4, <1>5
<1>6. \A s \in queue : \A u \in Tracks : HasSamples(u) => DueTime(s) <= DueTime(u)
  BY <1>1 DEF Scheduled
<1>7. ASSUME NEW s \in queue', NEW u \in Tracks, HasSamples(u)' PROVE DueTime(s)' <= DueTime(u)'
  <2>1. s \in Tracks /\ s \in queue /\ DueTime(s)' = DueTime(s)
    BY <1>1, <1>4
  <2>2. DueTime(s) <= DueTime(u) /\ DueTime(u) <= DueTime(u)' /\ DueTime(u)' \in Nat
    BY <2>1, <1>5, <1>6, <1>7
  <2> QED BY <2>1, <2>2, <1>3
<1>8. out # << >> => Len(out) \in 1..Len(out) /\ \A u \in Tracks : HasSamples(u) =>
                        StartOf(out[Len(out)]) <= DueTime(u)
  <2>1. out # << >> => Len(out) \in 1..Len(out)
    <3> DEFINE F == Fragment
    <3>1. out \in Seq(F)
      BY InvFacts DEF OutKinds
    <3> HIDE DEF F
    <3> QED BY <3>1
  <2> QED BY <2>1, <1>1 DEF Scheduled
<1>9. CASE Fails
  <2>1. out' = out
    BY <1>9 DEF Fails
  <2>2. ASSUME out # << >>, NEW u \in Tracks, HasSamples(u)'
        PROVE  StartOf(out[Len(out)])' <= DueTime(u)'
    <3>1. StartOf(out[Len(out)])' = StartOf(out[Len(out)])
      BY <2>1, <1>1 DEF StartOf, InMicros, DtsFromIdx, Num
    <3>2. PICK a : a = StartOf(out[Len(out)])
      OBVIOUS
    <3>3. a \in Nat /\ a <= DueTime(u) /\ DueTime(u) <= DueTime(u)' /\ DueTime(u)' \in Nat
      BY <2>2, <3>2, <1>5, <1>8, StartIsNat
    <3> QED BY <3>1, <3>2, <3>3, <1>3
  <2>3. Scheduled'
    BY <2>1, <2>2, <1>1, <1>7 DEF Scheduled
  <2>4. InDecodeOrder'
    BY <2>1, <1>1 DEF InDecodeOrder, StartOf, InMicros, DtsFromIdx, Num
  <2> QED BY <2>3, <2>4
<1>10. CASE Succeeds(t)
  <2>1. PICK x \in Fragment : x = NewFragment(t)
    <3>1. fragSize'[t] \in Nat
      BY <1>1 DEF PlanKinds
    <3> QED BY <3>1, <1>1, FragmentIsOne DEF Writes
  <2>2. out' = Append(out, x) /\ x.track = t /\ x.first = DueEdge(t)
    BY <2>1, <1>10 DEF Succeeds, NewFragment
  <2>3. /\ Len(out) \in Nat /\ Len(out') = Len(out) + 1
        /\ out'[Len(out) + 1] = x /\ \A i \in 1..Len(out) : out'[i] = out[i]
    BY <2>2, InvFacts, FragmentsAppended DEF OutKinds
  <2>4. \A i \in 1..Len(out) : StartOf(out[i])' = StartOf(out[i])
    BY <2>3, <1>1 DEF StartOf, InMicros, DtsFromIdx, Num
  <2>5. \A i : i = Len(out) + 1 => StartOf(out[i])' = DueTime(t)
    <3> SUFFICES ASSUME NEW i, i = Len(out) + 1 PROVE StartOf(out[i])' = DueTime(t)
      OBVIOUS
    <3>1. out'[i] = x
      BY <2>3
    <3>2. StartOf(out[i])' = InMicros(t, DtsFromIdx(t, DueEdge(t)))
      BY <3>1, <2>2, <1>1 DEF StartOf, InMicros, DtsFromIdx, Num
    <3> QED BY <3>2, <1>3
  <2>6. PICK n : n = Len(out)
    OBVIOUS
  <2>7. ASSUME NEW u \in Tracks, HasSamples(u)' PROVE StartOf(out[Len(out)])' <= DueTime(u)'
    <3>1. StartOf(out[Len(out)])' = DueTime(t)
      <4>1. \A i : i = Len(out') => StartOf(out[i])' = DueTime(t)
        BY <2>3, <2>5
      <4> QED BY <4>1
    <3>2. DueTime(t) <= DueTime(u) /\ DueTime(u) <= DueTime(u)' /\ DueTime(u)' \in Nat
      BY <2>7, <1>1, <1>5, <1>6
    <3> QED BY <3>1, <3>2, <1>3
  <2>8. Scheduled'
    BY <2>7, <1>1, <1>7 DEF Scheduled
  <2>9. ASSUME NEW i \in 2..Len(out') PROVE StartOf(out[i - 1])' <= StartOf(out[i])'
    <3>1. CASE i \in 2..Len(out)
      <4>1. i \in 1..Len(out) /\ i - 1 \in 1..Len(out)
        BY <3>1, <2>3
      <4>2. StartOf(out[i - 1]) <= StartOf(out[i])
        BY <3>1, <1>1 DEF InDecodeOrder
      <4>3. StartOf(out[i])' = StartOf(out[i])
        BY <4>1, <2>4
      <4>4. PICK j \in 1..Len(out) : j = i - 1
        BY <4>1
      <4>5. StartOf(out[j])' = StartOf(out[j])
        BY <2>4
      <4> QED BY <4>2, <4>3, <4>4, <4>5
    <3>2. CASE i = Len(out) + 1
      <4>1. StartOf(out[i])' = DueTime(t)
        BY <3>2, <2>5
      <4>2. i - 1 = Len(out) /\ Len(out) \in 1..Len(out) /\ Len(out) > 0
        BY <3>2, <2>3
      <4>3. out # << >>
        <5>1. Len(<< >>) = 0
          OBVIOUS
        <5> QED BY <4>2, <5>1
      <4>4. StartOf(out[Len(out)]) <= DueTime(t)
        BY <4>3, <1>3, <1>8
      <4>5. PICK j \in 1..Len(out) : j = i - 1 /\ j = Len(out)
        BY <4>2
      <4>6. StartOf(out[j])' = StartOf(out[j])
        BY <2>4
      <4> QED BY <4>1, <4>4, <4>5, <4>6
    <3> QED BY <3>1, <3>2, <2>3
  <2>10. InDecodeOrder'
    BY <2>9, <1>1 DEF InDecodeOrder
  <2> QED BY <2>8, <2>10
<1> QED BY <1>1, <1>9, <1>10 DEF Writes

LEMMA OrderStep ==
    ASSUME WriterInv, Scheduled, InDecodeOrder, [Next]_vars
    PROVE  Scheduled' /\ InDecodeOrder'
<1>1. queue \subseteq Tracks
  BY InvFacts DEF PlanKinds
<1>2. ASSUME Keeps, queue' = queue PROVE Scheduled' /\ InDecodeOrder'
  BY <1>1, <1>2, OrderKept DEF Scheduled
<1>3. CASE Start
  BY <1>2, <1>3, StartStep DEF Start
<1>4. CASE PrepareTracks
  <2>1. queue' = Ready /\ Ready \subseteq Tracks
    BY <1>4 DEF PrepareTracks, Ready, Earliest
  <2>2. \A t \in queue' : \A u \in Tracks : HasSamples(u) => DueTime(t) <= DueTime(u)
    BY <2>1, <1>4, PreparedFirst
  <2> QED BY <2>1, <2>2, <1>4, PrepareStep, OrderKept
<1>5. CASE OutputTurn
  <2>1. cfg' = cfg /\ ~cfg.ccff
    BY <1>5 DEF OutputTurn
  <2> QED BY <2>1 DEF Scheduled, InDecodeOrder
<1>6. CASE Finish
  BY <1>2, <1>6, FinishStep DEF Finish
<1>7. CASE \E t \in Tracks : OutputQueued(t)
  BY <1>7, QueuedOrder
<1>8. CASE UNCHANGED vars
  BY <1>2, <1>8, StutterStep DEF vars
<1> QED BY <1>3, <1>4, <1>5, <1>6, <1>7, <1>8 DEF Next

(* In CCFF style the fragments are in the order of their decode times in    *)
(* microseconds, although several are prepared at a time and those prepared *)
(* are written by track number or size: no track that is not among them     *)
(* could start earlier.                                                     *)
THEOREM DecodeOrder == Spec => []InDecodeOrder
<1>1. Init => Scheduled /\ InDecodeOrder
  <2> SUFFICES ASSUME Init PROVE Scheduled /\ InDecodeOrder
    OBVIOUS
  <2>1. queue = {} /\ out = << >>
    BY DEF Init
  <2>2. 2..Len(out) = {}
    <3>1. Len(<< >>) = 0
      OBVIOUS
    <3> QED BY <2>1, <3>1
  <2> QED BY <2>1, <2>2 DEF Scheduled, InDecodeOrder
<1>2. WriterInv /\ (Scheduled /\ InDecodeOrder) /\ [Next]_vars => (Scheduled /\ InDecodeOrder)'
  BY OrderStep
<1> QED BY <1>1, <1>2, WriterInvariance, PTL DEF Spec
-----------------------------------------------------------------------------
(* The duration that a fragment of the first track is given in 'sidx'.      *)
LEMMA FragmentLasts ==
    ASSUME WriterInv, [Next]_vars, Writes(1), cfg.ccff \/ Due(1) < Len(movie[1].plan)
    PROVE  fragDuration'[1] = TimeAt(movie[1], NewEdge(1)) - TimeAt(movie[1], DueEdge(1))
<1>1. /\ 1 \in Tracks /\ Due(1) \in Nat /\ segNext[1] \in Nat /\ CursorAt(1) /\ movie \in Movies
      /\ Len(movie[1].plan) \in Nat
  BY InvFacts
<1>2. Due(1)' = Due(1) + 1
  BY <1>1 DEF Writes, Moves
<1>3. ~Keeps
  BY <1>1, <1>2 DEF Keeps
<1>4. CASE OutputTurn
  <2>1. ~cfg.ccff /\ queue = {} /\ queue' = {}
    BY <1>4, InvFacts DEF OutputTurn, Cursor
  <2>2. segNext'[1] = segNext[1] + 1 /\ Due(1) = segNext[1]
    BY <1>2, <2>1 DEF Due
  <2>3. HasFragment(turn) /\ turn = 1
    <3>1. CASE ~HasFragment(turn)
      <4>1. segNext' = segNext
        BY <1>4, <3>1 DEF OutputTurn, cursors
      <4> QED BY <4>1, <2>2, <1>1
    <3>2. CASE HasFragment(turn) /\ turn # 1
      <4>1. segNext'[1] = segNext[1]
        BY <1>1, <1>4, <3>2 DEF OutputTurn, Take
      <4> QED BY <4>1, <2>2, <1>1
    <3> QED BY <3>1, <3>2
  <2>4. PICK t \in Tracks : t = 1
    BY <1>1
  <2>5. fragDuration'[t] = TurnEnd(t) - DtsFromIdx(t, Planned(t).start)
    <3>1. Take({t}, [u \in {t} |-> TurnEnd(u)])
      BY <1>4, <2>3, <2>4 DEF OutputTurn
    <3> QED BY <3>1 DEF Take
  <2>6. segNext[t] \in 1..Len(movie[t].plan) /\ segNext[t] < Len(movie[t].plan)
    <3>1. segNext[t] \in 1..(Len(movie[t].plan) + 1)
      BY <1>1, <2>4 DEF CursorAt
    <3> QED BY <3>1, <2>1, <2>2, <2>4, <1>1
  <2>7. /\ TurnEnd(t) = TimeAt(movie[t], Edge(movie[t], segNext[t] + 1))
        /\ DtsFromIdx(t, Planned(t).start) = TimeAt(movie[t], NextEdge(t))
    BY <2>6, <1>1, TurnEnds
  <2>8. NewEdge(t) = Edge(movie[t], segNext[t] + 1) /\ DueEdge(t) = NextEdge(t)
    BY <2>2, <2>4 DEF NewEdge, DueEdge, NextEdge
  <2> QED BY <2>4, <2>5, <2>7, <2>8
<1>5. ASSUME NEW t \in Tracks, OutputQueued(t)
      PROVE  fragDuration'[1] = TimeAt(movie[1], NewEdge(1)) - TimeAt(movie[1], DueEdge(1))
  <2>1. UNCHANGED <<segNext, fragDuration>> /\ queue' = queue \ {t}
    BY <1>5 DEF OutputQueued, cursors
  <2>2. 1 \in queue
    <3> SUFFICES ASSUME 1 \notin queue PROVE FALSE
      OBVIOUS
    <3>1. Due(1)' = Due(1)
      BY <2>1 DEF Due
    <3> QED BY <3>1, <1>1, <1>2
  <2>3. Due(1) = segNext[1] - 1
    BY <2>2 DEF Due
  <2>4. NewEdge(1) = NextEdge(1)
    <3>1. Due(1) + 1 = segNext[1]
      BY <2>3, <1>1
    <3> QED BY <3>1 DEF NewEdge, NextEdge
  <2> QED BY <2>1, <2>2, <2>4, <1>1 DEF CursorAt
<1>6. ~Start /\ ~PrepareTracks /\ ~Finish /\ ~UNCHANGED vars
  BY <1>3, StartStep, PrepareStep, FinishStep, StutterStep
<1> QED BY <1>4, <1>5, <1>6 DEF Next

(* An entry stays what it is as fragments and entries are added.            *)
LEMMA EntryStays ==
    ASSUME NEW n, EntryIs(n), movie' = movie, cfg' = cfg, subsegments'[n] = subsegments[n],
           \A i \in FragmentsOf(1) : /\ i \in FragmentsOf(1)' /\ out'[i] = out[i]
                                     /\ Nth(1, i)' = Nth(1, i)
    PROVE  EntryIs(n)'
<1>1. PICK i \in FragmentsOf(1) :
        /\ Nth(1, i) = n
        /\ subsegments[n].size = MoofSize + 8 + out[i].bytes
        /\ (cfg.ccff \/ n < Len(movie[1].plan)) =>
              subsegments[n].duration = TimeAt(movie[1], Edge(movie[1], n + 1))
                                          - TimeAt(movie[1], Edge(movie[1], n))
  BY DEF EntryIs
<1>2. i \in FragmentsOf(1)' /\ out'[i] = out[i] /\ Nth(1, i)' = n
  BY <1>1
<1> QED BY <1>1, <1>2 DEF EntryIs

LEMMA SidxUnwritten ==
    ASSUME SidxInv, UNCHANGED <<movie, cfg, subsegments, out>>,
           phase' # "failed" => phase # "failed"
    PROVE  SidxInv'
<1>1. FragmentsOf(1)' = FragmentsOf(1) /\ \A i : Nth(1, i)' = Nth(1, i)
  <2>1. FragmentsOf(1)' = FragmentsOf(1)
    BY DEF FragmentsOf
  <2> QED BY <2>1 DEF Nth
<1>2. Cardinality(FragmentsOf(1))' = Cardinality(FragmentsOf(1)) /\ RefCount(1)' = RefCount(1)
  BY <1>1 DEF RefCount
<1>3. ASSUME NEW n, EntryIs(n) PROVE EntryIs(n)'
  BY <1>1, <1>3, EntryStays
<1>4. ASSUME ~cfg.ccff \/ Len(movie) = 1 PROVE \A n \in 1..Len(subsegments) : EntryIs(n)'
  BY <1>3, <1>4 DEF SidxInv
<1> QED BY <1>2, <1>4 DEF SidxInv

(* An entry is added with the fragment it is for.                           *)
LEMMA SidxWritten ==
    ASSUME WriterInv, SidxInv, PlanKinds', [Next]_vars, ~cfg.ccff \/ Len(movie) = 1,
           NEW t \in Tracks, Writes(t), Succeeds(t)
    PROVE  SidxInv'
<1>1. /\ movie' = movie /\ cfg' = cfg /\ phase = "fragments" /\ phase' = "fragments"
      /\ 1 \in Tracks /\ Tracks' = Tracks /\ Moves(t)
      /\ cfg.ccff => t = 1
  <2>1. Tracks = 1..Len(movie) /\ Len(movie) \in Nat
    BY InvFacts
  <2> QED BY <2>1 DEF Writes, Moves, Succeeds, Tracks
<1>2. PICK x \in Fragment : x = NewFragment(t)
  <2>1. fragSize'[t] \in Nat
    BY <1>1 DEF PlanKinds
  <2> QED BY <2>1, <1>1, FragmentIsOne
<1>3. out' = Append(out, x) /\ x.track = t /\ x.bytes = BytesOf(movie[t], DueEdge(t), NewEdge(t))
  BY <1>2 DEF Succeeds, NewFragment
<1>4. PICK m : m = Len(out)
  OBVIOUS
<1>5. /\ m \in Nat /\ Len(out') = m + 1
      /\ out'[m + 1] = x /\ \A i \in 1..m : out'[i] = out[i]
      /\ FragmentsOf(1)' = FragmentsOf(1) \cup (IF t = 1 THEN {m + 1} ELSE {})
      /\ Cardinality(FragmentsOf(1))' = Cardinality(FragmentsOf(1)) + (IF t = 1 THEN 1 ELSE 0)
      /\ \A i \in 1..m : Nth(1, i)' = Nth(1, i)
      /\ t = 1 => \A i : i = m + 1 => Nth(1, i)' = Cardinality(FragmentsOf(1)) + 1
  BY <1>3, <1>4, InvFacts, FragmentsAppended DEF OutKinds
<1>6. \A i \in FragmentsOf(1) : /\ i \in FragmentsOf(1)' /\ out'[i] = out[i]
                                /\ Nth(1, i)' = Nth(1, i)
  BY <1>4, <1>5 DEF FragmentsOf
<1>7. RefCount(1)' = RefCount(1) /\ RefCount(1) \in Nat
  <2>1. Len(movie[1].plan) \in Nat /\ ShortRange \in Nat \ {0}
    BY <1>1, InvFacts
  <2>2. \A n \in Nat, s \in Nat \ {0} : (n % s) \in Nat
    OBVIOUS
  <2>3. RefCount(1) \in Nat
    BY <2>1, <2>2 DEF RefCount
  <2> QED BY <2>3, <1>1 DEF RefCount
<1>8. /\ Len(subsegments) \in Nat /\ Cardinality(FragmentsOf(1)) \in Nat
      /\ Cardinality(FragmentsOf(1)) = Due(1) - 1 /\ Due(1) \in Nat
  <2>1. Len(subsegments) \in Nat
    <3> DEFINE R == [size : Nat, duration : Nat]
    <3>1. subsegments \in Seq(R)
      BY InvFacts DEF OutKinds
    <3> HIDE DEF R
    <3> QED BY <3>1
  <2>2. Cardinality(FragmentsOf(1)) = Due(1) - 1 /\ Due(1) \in Nat
    BY <1>1, InvFacts DEF WriterInv, Counts
  <2>3. Cardinality(FragmentsOf(1)) \in Nat
    BY InvFacts, FragmentsFinite DEF OutKinds
  <2> QED BY <2>1, <2>2, <2>3
<1>9. /\ \/ Len(subsegments) = Cardinality(FragmentsOf(1))
         \/ /\ Len(subsegments) < Cardinality(FragmentsOf(1))
            /\ Len(subsegments) >= RefCount(1)
      /\ \A n \in 1..Len(subsegments) : EntryIs(n)
  BY <1>1 DEF SidxInv
<1>10. CASE subsegments' = subsegments /\ (t # 1 \/ ~(Len(subsegments) < RefCount(1)))
  <2>1. ASSUME NEW n \in 1..Len(subsegments) PROVE EntryIs(n)'
    BY <1>1, <1>6, <1>9, <1>10, EntryStays
  <2>2. \/ Len(subsegments) = Cardinality(FragmentsOf(1))'
        \/ /\ Len(subsegments) < Cardinality(FragmentsOf(1))'
           /\ Len(subsegments) >= RefCount(1)
    <3>1. PICK c \in Nat : c = Cardinality(FragmentsOf(1))
      BY <1>8
    <3>2. PICK d : d = Cardinality(FragmentsOf(1))'
      OBVIOUS
    <3>3. d = c + (IF t = 1 THEN 1 ELSE 0)
      BY <1>5, <3>1, <3>2
    <3>4. Len(subsegments) = c \/ (Len(subsegments) < c /\ Len(subsegments) >= RefCount(1))
      BY <1>9, <3>1
    <3>5. Len(subsegments) = d \/ (Len(subsegments) < d /\ Len(subsegments) >= RefCount(1))
      BY ONLY <3>1, <3>3, <3>4, <1>7, <1>8, <1>10
    <3> QED BY <3>2, <3>5
  <2> QED BY <2>1, <2>2, <1>1, <1>7, <1>10 DEF SidxInv
<1>11. CASE /\ t = 1 /\ Len(subsegments) < RefCount(1)
            /\ subsegments' = Append(subsegments, Subsegment(x.bytes, t))
  <2>1. PICK k : k = Len(subsegments) + 1
    OBVIOUS
  <2>2. /\ Len(subsegments') = k /\ subsegments'[k] = Subsegment(x.bytes, t)
        /\ \A n \in 1..Len(subsegments) : subsegments'[n] = subsegments[n]
    <3> DEFINE R == [size : Nat, duration : Nat]
    <3>1. subsegments \in Seq(R)
      BY InvFacts DEF OutKinds
    <3>2. PICK s : s = Subsegment(x.bytes, t)
      OBVIOUS
    <3>3. s \in R
      <4>1. fragDuration'[1] \in Nat /\ MoofSize + 8 + x.bytes \in Nat
        <5>1. x.bytes \in Nat /\ MoofSize \in Nat
          BY <1>1, <1>3, WriteFacts, InvFacts
        <5> QED BY <5>1, <1>1 DEF PlanKinds, Tracks
      <4> QED BY <4>1, <3>2 DEF Subsegment
    <3> HIDE DEF R
    <3>4. /\ Len(Append(subsegments, s)) = Len(subsegments) + 1
          /\ Append(subsegments, s)[Len(subsegments) + 1] = s
          /\ \A n \in 1..Len(subsegments) : Append(subsegments, s)[n] = subsegments[n]
      BY <3>1, <3>3
    <3> QED BY <3>2, <3>4, <2>1, <1>11
  <2>3. k = Due(1) /\ k = Cardinality(FragmentsOf(1)) + 1
    BY <1>7, <1>8, <1>9, <1>11, <2>1
  <2>4. EntryIs(k)'
    <3>1. PICK i : i = m + 1
      OBVIOUS
    <3>2. i \in FragmentsOf(1)' /\ Nth(1, i)' = k /\ out'[i] = x
      BY <1>5, <1>11, <2>3, <3>1
    <3>3. /\ subsegments'[k].size = MoofSize + 8 + x.bytes
          /\ subsegments'[k].duration = fragDuration'[1]
      BY <2>2 DEF Subsegment
    <3>4. (cfg.ccff \/ Due(1) < Len(movie[1].plan)) =>
            fragDuration'[1] = TimeAt(movie[1], NewEdge(1)) - TimeAt(movie[1], DueEdge(1))
      BY <1>11, FragmentLasts
    <3>5. (cfg.ccff \/ k < Len(movie[1].plan)) =>
            fragDuration'[1] = TimeAt(movie[1], Edge(movie[1], k + 1))
                                 - TimeAt(movie[1], Edge(movie[1], k))
      BY <2>3, <3>4 DEF NewEdge, DueEdge
    <3> QED BY <3>2, <3>3, <3>5, <1>1 DEF EntryIs
  <2>5. ASSUME NEW n \in 1..Len(subsegments') PROVE EntryIs(n)'
    <3>1. CASE n \in 1..Len(subsegments)
      BY <1>1, <1>6, <1>9, <2>2, <3>1, EntryStays
    <3>2. n \in 1..Len(subsegments) \/ n = k
      BY <1>8, <2>1, <2>2
    <3> QED BY <3>1, <3>2, <2>4
  <2>6. Len(subsegments') = Cardinality(FragmentsOf(1))'
    BY <1>5, <1>11, <2>2, <2>3
  <2> QED BY <2>5, <2>6 DEF SidxInv
<1>12. subsegments' = IF (cfg.ccff \/ t = 1) /\ Len(subsegments) < RefCount(1)
                      THEN Append(subsegments, Subsegment(x.bytes, t)) ELSE subsegments
  BY <1>3 DEF Succeeds
<1> QED BY <1>1, <1>10, <1>11, <1>12

LEMMA SidxStep ==
    ASSUME WriterInv, SidxInv, [Next]_vars
    PROVE  SidxInv'
<1>1. CASE Keeps
  BY <1>1, SidxUnwritten DEF Keeps
<1>2. ASSUME NEW t \in Tracks, Writes(t) PROVE SidxInv'
  <2>1. movie' = movie /\ cfg' = cfg /\ phase = "fragments"
    BY <1>2 DEF Writes, Moves
  <2>2. CASE Fails
    BY <2>1, <2>2, SidxUnwritten DEF Fails
  <2>3. CASE Succeeds(t) /\ (~cfg.ccff \/ Len(movie) = 1)
    BY <1>2, <2>3, StepKinds, SidxWritten
  <2>4. CASE ~(~cfg.ccff \/ Len(movie) = 1)
    BY <2>1, <2>4 DEF SidxInv
  <2> QED BY <1>2, <2>2, <2>3, <2>4 DEF Writes
<1> QED BY <1>1, <1>2, StepKinds

LEMMA EntriesDescribe == WriterInv /\ SidxInv => SidxDescribesFragments
<1> SUFFICES ASSUME WriterInv, SidxInv, ~cfg.ccff \/ Len(movie) = 1,
                    NEW n \in 1..Len(subsegments)
             PROVE  LET plan == movie[1].plan
                        end  == IF n = Len(plan) THEN movie[1].duration
                                ELSE DtsFromIdx(1, plan[n].stop)
                    IN  \E i \in FragmentsOf(1) :
                          /\ Nth(1, i) = n
                          /\ subsegments[n].size = MoofSize + 8 + out[i].bytes
                          /\ cfg.ccff \/ n < Len(plan) =>
                                subsegments[n].duration = end - DtsFromIdx(1, plan[n].start)
  BY DEF SidxDescribesFragments
<1> DEFINE plan == movie[1].plan
           end  == IF n = Len(plan) THEN movie[1].duration ELSE DtsFromIdx(1, plan[n].stop)
<1>1. PICK i \in FragmentsOf(1) :
        /\ Nth(1, i) = n
        /\ subsegments[n].size = MoofSize + 8 + out[i].bytes
        /\ (cfg.ccff \/ n < Len(plan)) =>
              subsegments[n].duration = TimeAt(movie[1], Edge(movie[1], n + 1))
                                          - TimeAt(movie[1], Edge(movie[1], n))
  BY DEF SidxInv, EntryIs
<1>2. /\ movie \in Movies /\ 1 \in Tracks /\ Len(plan) \in Nat
      /\ Due(1) \in 1..(Len(plan) + 1)
  BY InvFacts DEF CursorAt
<1>3. n \in 1..(Due(1) - 1)
  BY <1>1, <1>2 DEF WriterInv, Written, WrittenAt, FragmentsOf
<1>4. n \in 1..Len(plan)
  BY <1>2, <1>3
<1> DEFINE a == Edge(movie[1], n)
           e == Edge(movie[1], n + 1)
<1>5. /\ a \in Nat /\ e \in Nat /\ a < e /\ e <= Num(1) /\ (e = Num(1) <=> n = Len(plan))
      /\ plan[n].start = a /\ plan[n].stop = e /\ Num(1) \in Nat
  BY <1>2, <1>4, PlanOfTrack
<1>6. /\ \A j \in 0..(Num(1) - 1) : DtsFromIdx(1, j) = TimeAt(movie[1], j)
      /\ TimeAt(movie[1], Num(1)) = movie[1].duration
  BY <1>2, DtsIsTime
<1> HIDE DEF a, e
<1>7. DtsFromIdx(1, plan[n].start) = TimeAt(movie[1], a)
  <2>1. a \in 0..(Num(1) - 1)
    BY <1>5
  <2> QED BY <2>1, <1>5, <1>6
<1>8. end = TimeAt(movie[1], e)
  <2>1. CASE n = Len(plan)
    BY <2>1, <1>5, <1>6
  <2>2. CASE n # Len(plan)
    <3>1. e \in 0..(Num(1) - 1)
      BY <2>2, <1>5
    <3> QED BY <2>2, <3>1, <1>5, <1>6
  <2> QED BY <2>1, <2>2
<1> HIDE DEF end
<1>9. (cfg.ccff \/ n < Len(plan)) =>
        subsegments[n].duration = end - DtsFromIdx(1, plan[n].start)
  BY <1>1, <1>7, <1>8 DEF a, e
<1> QED BY <1>1, <1>9 DEF end

(* The entries of 'sidx' are the sizes and durations of the first track's   *)
(* fragments, from the first on, although they are filled in as fragments   *)
(* of any track are written and their number was counted before.            *)
THEOREM SidxDescribes == Spec => []SidxDescribesFragments
<1>1. Init => SidxInv
  <2> SUFFICES ASSUME Init PROVE SidxInv
    OBVIOUS
  <2>1. subsegments = << >> /\ out = << >>
    BY DEF Init
  <2>2. Len(<< >>) = 0 /\ 1..0 = {}
    OBVIOUS
  <2>3. FragmentsOf(1) = {}
    BY <2>1, <2>2 DEF FragmentsOf
  <2>4. Cardinality(FragmentsOf(1)) = 0
    BY <2>3, FS_EmptySet
  <2> QED BY <2>1, <2>2, <2>4 DEF SidxInv
<1>2. WriterInv /\ SidxInv /\ [Next]_vars => SidxInv'
  BY SidxStep
<1> QED BY <1>1, <1>2, EntriesDescribe, WriterInvariance, PTL DEF Spec
-----------------------------------------------------------------------------
(* The list of a track's 'tfra' entries, and the samples s that they are    *)
(* for: sync samples of the fragments, all if not all samples are.          *)
Entry == [moof : Nat, time : Nat, sample : Nat]

IsEntry(t, e, p, i) ==
    /\ out[i].first <= p /\ p < out[i].stop
    /\ e.moof = out[i].moof /\ e.sample = p - out[i].first + 1
    /\ e.time = DtsFromIdx(t, p)

TfraAt(t, list, s) ==
    /\ list \in Seq(Entry) /\ s \in Seq(Nat) /\ Len(s) = Len(list)
    /\ \A k, l \in 1..Len(s) : k < l => s[k] < s[l]
    /\ \A k \in 1..Len(s) : /\ s[k] \in movie[t].sync /\ s[k] < written[t]
                            /\ \E i \in FragmentsOf(t) : IsEntry(t, list[k], s[k], i)
    /\ ~AllRap(t) => \A p \in movie[t].sync : p < written[t] => \E k \in 1..Len(s) : s[k] = p

TfraInv == phase \notin {"failed", "done"} =>
    /\ tfra \in [Tracks -> Seq(Entry)]
    /\ \A t \in Tracks : \E s : TfraAt(t, tfra[t], s)

(* InOrder lists a set of numbers from the least on.                        *)
LEMMA Enumerated ==
    ASSUME NEW S \in SUBSET Nat, IsFiniteSet(S)
    PROVE  /\ Cardinality(S) \in Nat /\ InOrder(S) \in Seq(S)
           /\ Len(InOrder(S)) = Cardinality(S)
           /\ \A k, l \in 1..Cardinality(S) : k < l => InOrder(S)[k] < InOrder(S)[l]
           /\ \A x \in S : \E k \in 1..Cardinality(S) : InOrder(S)[k] = x
<1> DEFINE n == Cardinality(S)
           below(x) == {j \in S : j < x}
           f == [x \in S |-> Cardinality(below(x))]
           T == 0..(n - 1)
<1>1. n \in Nat
  BY FS_CardinalityType
<1>2. ASSUME NEW x \in S PROVE f[x] \in T
  <2>1. below(x) \in SUBSET S /\ below(x) # S
    OBVIOUS
  <2>2. IsFiniteSet(below(x)) /\ Cardinality(below(x)) <= n /\ Cardinality(below(x)) # n
    BY <2>1, FS_Subset
  <2>3. Cardinality(below(x)) \in Nat
    BY <2>2, FS_CardinalityType
  <2> QED BY <2>2, <2>3, <1>1
<1>3. ASSUME NEW x \in S, NEW y \in S, x < y PROVE f[x] < f[y]
  <2>1. below(x) \in SUBSET below(y) /\ below(x) # below(y) /\ below(y) \in SUBSET S
    <3>1. \A j \in S : j \in Nat
      OBVIOUS
    <3>2. \A j \in S : j < x => j < y
      BY <3>1, <1>3
    <3>3. x \in below(y) /\ x \notin below(x)
      BY <3>1, <1>3
    <3> QED BY <3>2, <3>3
  <2>2. IsFiniteSet(below(y))
    BY <2>1, FS_Subset
  <2>3. Cardinality(below(x)) <= Cardinality(below(y)) /\ Cardinality(below(x)) # Cardinality(below(y))
    BY <2>1, <2>2, FS_Subset
  <2>4. f[x] = Cardinality(below(x)) /\ f[y] = Cardinality(below(y))
    OBVIOUS
  <2>5. f[x] \in Int /\ f[y] \in Int
    BY <1>2
  <2> QED BY <2>3, <2>4, <2>5
<1>4. DOMAIN f = S
  OBVIOUS
<1> HIDE DEF f
<1>5. \A x, y \in S : x # y => f[x] # f[y]
  <2> SUFFICES ASSUME NEW x \in S, NEW y \in S, x # y PROVE f[x] # f[y]
    OBVIOUS
  <2>1. x < y \/ y < x
    OBVIOUS
  <2>2. f[x] \in Int /\ f[y] \in Int
    BY <1>2
  <2> QED BY <2>1, <2>2, <1>3
<1>6. \A m \in T : \E x \in S : f[x] = m
  <2>1. f \in Injection(S, T)
    <3>1. f \in [S -> T]
      BY <1>2, <1>4 DEF f
    <3> QED BY <3>1, <1>5 DEF Injection, IsInjective
  <2>2. IsFiniteSet(T) /\ Cardinality(T) = n
    <3>1. Cardinality(T) = IF 0 > n - 1 THEN 0 ELSE (n - 1) - 0 + 1
      BY <1>1, FS_Interval
    <3> QED BY <3>1, <1>1, FS_Interval
  <2>3. f \in Surjection(S, T)
    BY <2>1, <2>2, FS_Injection
  <2> QED BY <2>3 DEF Surjection
<1> DEFINE c(k) == CHOOSE i \in S : Cardinality({j \in S : j < i}) = k - 1
<1>7. ASSUME NEW k \in 1..n PROVE c(k) \in S /\ f[c(k)] = k - 1
  <2>1. k - 1 \in T
    BY <1>1
  <2>2. \E x \in S : Cardinality({j \in S : j < x}) = k - 1
    BY <2>1, <1>6 DEF f
  <2>3. c(k) \in S /\ Cardinality({j \in S : j < c(k)}) = k - 1
    BY <2>2
  <2> QED BY <2>3 DEF f
<1> HIDE DEF c, T
<1>8. InOrder(S) = [k \in 1..n |-> c(k)]
  BY DEF InOrder, c
<1>9. InOrder(S) \in Seq(S) /\ Len(InOrder(S)) = n
  BY <1>1, <1>7, <1>8
<1>10. ASSUME NEW k \in 1..n, NEW l \in 1..n, k < l PROVE c(k) < c(l)
  <2>1. /\ c(k) \in S /\ c(l) \in S /\ f[c(k)] = k - 1 /\ f[c(l)] = l - 1
    BY <1>7
  <2>2. c(k) \in Nat /\ c(l) \in Nat /\ ~(k - 1 = l - 1) /\ ~(l - 1 < k - 1)
    <3>1. k \in Int /\ l \in Int
      BY <1>1
    <3>2. ~(k - 1 = l - 1) /\ ~(l - 1 < k - 1)
      BY ONLY <3>1, <1>10
    <3> QED BY <2>1, <3>2
  <2>3. c(k) # c(l) /\ ~(c(l) < c(k))
    BY <2>1, <2>2, <1>3
  <2> QED BY <2>2, <2>3
<1>11. ASSUME NEW x \in S PROVE \E k \in 1..n : c(k) = x
  <2>1. f[x] \in 0..(n - 1)
    BY <1>2 DEF T
  <2>2. PICK k \in 1..n : k - 1 = f[x]
    <3>1. f[x] + 1 \in 1..n /\ (f[x] + 1) - 1 = f[x]
      BY <2>1, <1>1
    <3> QED BY <3>1
  <2>3. c(k) \in S /\ f[c(k)] = f[x]
    BY <2>2, <1>7
  <2>4. c(k) = x
    BY <2>3, <1>5
  <2> QED BY <2>4
<1> QED BY <1>1, <1>8, <1>9, <1>10, <1>11

(* No two fragments start at the same place.                                *)
LEMMA MoofsGrow ==
    ASSUME WriterInv
    PROVE  \A i, j \in 1..Len(out) : i < j => out[i].moof < out[j].moof
<1> DEFINE n == Len(out)
           s == [k \in 1..n |-> out[k].moof]
<1>1. /\ n \in Nat /\ MoofSize \in Nat
      /\ \A k \in 1..n : out[k].moof \in Nat /\ out[k].bytes \in Nat
  <2> DEFINE F == Fragment
  <2>1. out \in Seq(F)
    BY InvFacts DEF OutKinds
  <2>2. \A x \in F : x.moof \in Nat /\ x.bytes \in Nat
    BY DEF Fragment
  <2> HIDE DEF F
  <2>3. Len(out) \in Nat /\ \A k \in 1..Len(out) : out[k] \in F
    BY <2>1
  <2> QED BY <2>2, <2>3, InvFacts
<1>2. \A k \in 1..(n - 1) : s[k] < s[k + 1]
  <2> SUFFICES ASSUME NEW k \in 1..(n - 1) PROVE s[k] < s[k + 1]
    OBVIOUS
  <2>1. k \in 1..n /\ k + 1 \in 1..n /\ k < n
    BY <1>1
  <2>2. out[k].data = out[k].moof + MoofSize + 8 /\ out[k + 1].moof = out[k].data + out[k].bytes
    BY <2>1 DEF WriterInv, Placed
  <2>3. out[k].moof \in Nat /\ out[k].bytes \in Nat
    BY <2>1, <1>1
  <2>4. out[k].moof < out[k + 1].moof
    BY <2>2, <2>3, <1>1
  <2> QED BY <2>1, <2>4
<1>3. \A k \in 1..n : s[k] \in Int
  BY <1>1
<1>4. n \in Int
  BY <1>1
<1> HIDE DEF s, n
<1>5. \A i, j \in 1..n : i < j => s[i] < s[j]
  BY ONLY <1>2, <1>3, <1>4, Rising
<1> QED BY <1>5 DEF s, n

(* The entries that MoofBox makes are for sync samples of the fragment.     *)
LEMMA EntriesMade ==
    ASSUME WriterInv, NEW t \in Tracks, Writes(t), MoofBox(t)
    PROVE  /\ TfraEntries(t) \in SUBSET Nat /\ IsFiniteSet(TfraEntries(t))
           /\ \A p \in TfraEntries(t) : /\ p \in movie[t].sync
                                        /\ DueEdge(t) <= p /\ p < NewEdge(t)
                                        /\ DtsFromIdx(t, p) \in Nat
           /\ ~AllRap(t) => \A p \in movie[t].sync :
                 (DueEdge(t) <= p /\ p < NewEdge(t)) => p \in TfraEntries(t)
<1>1. /\ movie \in Movies /\ written[t] = DueEdge(t) /\ written'[t] = NewEdge(t)
      /\ DueEdge(t) \in Nat /\ NewEdge(t) \in Nat /\ NewEdge(t) <= Num(t) /\ Num(t) \in Nat
      /\ movie[t] \in Track
  BY WriteFacts DEF Writes
<1>2. StopIdx(t) = NewEdge(t)
  <2>1. written' = [written EXCEPT ![t] = StopIdx(t)] /\ written \in [Tracks -> Nat]
    BY InvFacts DEF MoofBox, OutKinds
  <2> QED BY <2>1, <1>1
<1> DEFINE syncs == {i \in movie[t].sync : DueEdge(t) <= i /\ i < NewEdge(t)}
<1>3. movie[t].sync \subseteq Nat
  <2>1. movie[t].sync \in SUBSET Nat
    BY <1>1 DEF Track
  <2> QED BY <2>1
<1>4. syncs \in SUBSET Nat
  BY <1>3
<1>5. TfraEntries(t) = IF AllRap(t)
                       THEN IF cfg.forceTfra /\ syncs # {} THEN {Min(syncs)} ELSE {}
                       ELSE syncs
  BY <1>1, <1>2 DEF TfraEntries
<1>6. syncs # {} => Min(syncs) \in syncs
  <2> HIDE DEF syncs
  <2> QED BY <1>4, MinOf
<1>7. TfraEntries(t) \subseteq syncs /\ (~AllRap(t) => TfraEntries(t) = syncs)
  <2> HIDE DEF syncs
  <2> QED BY <1>5, <1>6
<1>8. IsFiniteSet(TfraEntries(t))
  <2>1. \A p \in syncs : p <= NewEdge(t)
    BY <1>1, <1>4
  <2> HIDE DEF syncs
  <2>2. IsFiniteSet(syncs)
    BY <1>1, <1>4, <2>1, FS_BoundedSetOfNaturals
  <2> QED BY <1>7, <2>2, FS_Subset
<1>9. \A p \in syncs : DtsFromIdx(t, p) \in Nat
  <2>1. \A p \in syncs : p \in 0..(Num(t) - 1)
    BY <1>1, <1>4
  <2> QED BY <2>1, <1>1, DtsIsTime
<1> QED BY <1>4, <1>7, <1>8, <1>9

(* The entries of a track of which nothing is written stay what they are.   *)
LEMMA EntryKept ==
    ASSUME NEW t, NEW e, NEW p, NEW i, IsEntry(t, e, p, i), movie' = movie, out'[i] = out[i]
    PROVE  IsEntry(t, e, p, i)'
BY DEF IsEntry, DtsFromIdx, Num

LEMMA EntriesKept ==
    ASSUME NEW t, NEW list, NEW s, TfraAt(t, list, s), movie' = movie, written'[t] = written[t],
           \A i \in FragmentsOf(t) : i \in FragmentsOf(t)' /\ out'[i] = out[i]
    PROVE  TfraAt(t, list, s)'
<1>1. AllRap(t)' = AllRap(t)
  BY DEF AllRap, Num
<1>2. ASSUME NEW k \in 1..Len(s)
      PROVE  \E i \in FragmentsOf(t)' : IsEntry(t, list[k], s[k], i)'
  <2>1. PICK i \in FragmentsOf(t) : IsEntry(t, list[k], s[k], i)
    BY DEF TfraAt
  <2>2. PICK e : e = list[k]
    OBVIOUS
  <2>3. PICK p : p = s[k]
    OBVIOUS
  <2>4. IsEntry(t, e, p, i)'
    BY <2>1, <2>2, <2>3, EntryKept
  <2> QED BY <2>1, <2>2, <2>3, <2>4
<1> QED BY <1>1, <1>2 DEF TfraAt

(* Entries are added behind those of earlier fragments.                     *)
LEMMA EntriesAdded ==
    ASSUME WriterInv, NEW t \in Tracks, Writes(t), Succeeds(t), MoofBox(t), PlanKinds',
           tfra \in [Tracks -> Seq(Entry)], NEW s, TfraAt(t, tfra[t], s)
    PROVE  /\ tfra' \in [Tracks -> Seq(Entry)]
           /\ \A u \in Tracks : u # t => tfra'[u] = tfra[u]
           /\ \E list, z : list = tfra'[t] /\ TfraAt(t, list, z)'
<1>1. /\ movie' = movie /\ movie \in Movies /\ written[t] = DueEdge(t) /\ written'[t] = NewEdge(t)
      /\ DueEdge(t) \in Nat /\ NewEdge(t) \in Nat /\ DueEdge(t) < NewEdge(t)
      /\ pos \in Nat /\ Moves(t)
  BY WriteFacts, InvFacts DEF Writes, Moves, OutKinds
<1>2. PICK x \in Fragment : x = NewFragment(t)
  <2>1. fragSize'[t] \in Nat
    BY <1>1 DEF PlanKinds, Tracks
  <2> QED BY <2>1, <1>1, FragmentIsOne
<1>3. /\ out' = Append(out, x) /\ x.track = t /\ x.first = DueEdge(t) /\ x.stop = NewEdge(t)
      /\ x.moof = pos
  BY <1>2 DEF Succeeds, NewFragment
<1>4. PICK last : last = Len(out) + 1
  OBVIOUS
<1>5. /\ last \in FragmentsOf(t)' /\ out'[last] = x
      /\ \A i \in FragmentsOf(t) : i \in FragmentsOf(t)' /\ out'[i] = out[i]
  <2>1. /\ \A i \in 1..Len(out) : out'[i] = out[i]
        /\ out'[last] = x
        /\ FragmentsOf(t)' = FragmentsOf(t) \cup {last}
    BY <1>3, <1>4, InvFacts, FragmentsAppended DEF OutKinds
  <2> QED BY <2>1 DEF FragmentsOf
<1>6. PICK es : es = InOrder(TfraEntries(t))
  OBVIOUS
<1>7. /\ es \in Seq(Nat) /\ Len(es) \in Nat
      /\ \A k \in 1..Len(es) : /\ es[k] \in movie[t].sync /\ es[k] \in Nat
                               /\ DueEdge(t) <= es[k] /\ es[k] < NewEdge(t)
                               /\ DtsFromIdx(t, es[k]) \in Nat
      /\ \A k, l \in 1..Len(es) : k < l => es[k] < es[l]
      /\ ~AllRap(t) => \A p \in movie[t].sync :
            (DueEdge(t) <= p /\ p < NewEdge(t)) => \E k \in 1..Len(es) : es[k] = p
  <2>1. PICK E : E = TfraEntries(t)
    OBVIOUS
  <2>2. /\ E \in SUBSET Nat /\ IsFiniteSet(E)
        /\ \A p \in E : /\ p \in movie[t].sync
                        /\ DueEdge(t) <= p /\ p < NewEdge(t)
                        /\ DtsFromIdx(t, p) \in Nat
        /\ ~AllRap(t) => \A p \in movie[t].sync :
              (DueEdge(t) <= p /\ p < NewEdge(t)) => p \in E
    BY <2>1, EntriesMade
  <2>3. /\ Cardinality(E) \in Nat /\ es \in Seq(E) /\ Len(es) = Cardinality(E)
        /\ \A k, l \in 1..Len(es) : k < l => es[k] < es[l]
        /\ \A p \in E : \E k \in 1..Len(es) : es[k] = p
    BY <1>6, <2>1, <2>2, Enumerated
  <2>4. \A k \in 1..Len(es) : es[k] \in E /\ es[k] \in Nat
    BY <2>2, <2>3
  <2>5. es \in Seq(Nat)
    <3>1. es = [k \in 1..Len(es) |-> es[k]]
      BY <2>3
    <3> QED BY <2>3, <2>4, <3>1
  <2> QED BY <2>2, <2>3, <2>4, <2>5
<1> DEFINE more == [k \in 1..Len(es) |-> [moof   |-> pos,
                                          time   |-> DtsFromIdx(t, es[k]),
                                          sample |-> es[k] - written[t] + 1]]
<1>8. more \in Seq(Entry) /\ Len(more) = Len(es)
  <2>1. \A k \in 1..Len(es) : more[k] \in Entry
    <3> SUFFICES ASSUME NEW k \in 1..Len(es) PROVE more[k] \in Entry
      OBVIOUS
    <3>1. es[k] - written[t] + 1 \in Nat /\ DtsFromIdx(t, es[k]) \in Nat
      BY <1>1, <1>7, SMTT(40), ZenonT(40)
    <3> QED BY <3>1, <1>1 DEF Entry
  <2> QED BY <2>1, <1>7
<1>8a. PICK added : added = more
  OBVIOUS
<1>9. \A k \in 1..Len(es) : IsEntry(t, added[k], es[k], last)'
  <2> SUFFICES ASSUME NEW k \in 1..Len(es) PROVE IsEntry(t, added[k], es[k], last)'
    OBVIOUS
  <2>1. PICK e : e = added[k]
    OBVIOUS
  <2>2. PICK p : p = es[k]
    OBVIOUS
  <2>3. e.moof = pos /\ e.time = DtsFromIdx(t, p) /\ e.sample = p - DueEdge(t) + 1
    BY <1>1, <1>8a, <2>1, <2>2
  <2>4. DtsFromIdx(t, p)' = DtsFromIdx(t, p)
    BY <1>1 DEF DtsFromIdx, Num
  <2>5. DueEdge(t) <= p /\ p < NewEdge(t)
    BY <1>7, <2>2
  <2>6. IsEntry(t, e, p, last)'
    BY <1>3, <1>5, <2>3, <2>4, <2>5 DEF IsEntry
  <2> QED BY <2>1, <2>2, <2>6
<1>10. tfra' = [tfra EXCEPT ![t] = @ \o more]
  BY <1>6 DEF MoofBox
<1> HIDE DEF more
<1>11. PICK list : list = tfra[t]
  OBVIOUS
<1>13. /\ list \in Seq(Entry) /\ s \in Seq(Nat) /\ Len(s) = Len(list) /\ Len(s) \in Nat
       /\ \A k, l \in 1..Len(s) : k < l => s[k] < s[l]
       /\ \A k \in 1..Len(s) : /\ s[k] \in movie[t].sync /\ s[k] < DueEdge(t) /\ s[k] \in Nat
                               /\ \E i \in FragmentsOf(t) : IsEntry(t, list[k], s[k], i)
       /\ ~AllRap(t) => \A p \in movie[t].sync : p < DueEdge(t) => \E k \in 1..Len(s) : s[k] = p
  BY <1>1, <1>11 DEF TfraAt
<1>14. /\ list \o added \in Seq(Entry) /\ s \o es \in Seq(Nat)
       /\ Len(list \o added) = Len(s) + Len(es) /\ Len(s \o es) = Len(s) + Len(es)
       /\ \A k \in 1..Len(s) : (list \o added)[k] = list[k] /\ (s \o es)[k] = s[k]
       /\ \A k \in 1..Len(es) : /\ (list \o added)[Len(s) + k] = added[k]
                                /\ (s \o es)[Len(s) + k] = es[k]
  <2>1. added \in Seq(Entry) /\ Len(added) = Len(es)
    BY <1>8, <1>8a
  <2>2. /\ list \o added \in Seq(Entry) /\ Len(list \o added) = Len(s) + Len(es)
        /\ \A i \in 1..(Len(s) + Len(es)) : (list \o added)[i] =
              IF i <= Len(s) THEN list[i] ELSE added[i - Len(s)]
    <3>1. /\ list \o added \in Seq(Entry) /\ Len(list \o added) = Len(list) + Len(added)
          /\ \A i \in 1..(Len(list) + Len(added)) : (list \o added)[i] =
                IF i <= Len(list) THEN list[i] ELSE added[i - Len(list)]
      <4>1. list \in Seq(Entry)
        BY <1>13
      <4> QED BY ONLY <2>1, <4>1, ConcatProperties
    <3> QED BY <3>1, <1>13, <2>1
  <2>3. /\ s \o es \in Seq(Nat) /\ Len(s \o es) = Len(s) + Len(es)
        /\ \A i \in 1..(Len(s) + Len(es)) : (s \o es)[i] =
              IF i <= Len(s) THEN s[i] ELSE es[i - Len(s)]
    BY <1>7, <1>13, ConcatProperties, SMTT(40), ZenonT(40)
  <2>4. ASSUME NEW k \in 1..Len(s) PROVE (list \o added)[k] = list[k] /\ (s \o es)[k] = s[k]
    <3>1. k \in 1..(Len(s) + Len(es)) /\ k <= Len(s)
      BY <1>7, <1>13
    <3> QED BY <3>1, <2>2, <2>3
  <2>5. ASSUME NEW k \in 1..Len(es)
        PROVE  (list \o added)[Len(s) + k] = added[k] /\ (s \o es)[Len(s) + k] = es[k]
    <3>1. /\ Len(s) + k \in 1..(Len(s) + Len(es)) /\ ~(Len(s) + k <= Len(s))
          /\ (Len(s) + k) - Len(s) = k
      BY <1>7, <1>13
    <3> QED BY <3>1, <2>2, <2>3
  <2> QED BY <2>2, <2>3, <2>4, <2>5
<1>15. PICK L : L = list \o added
  OBVIOUS
<1>16. PICK z : z = s \o es
  OBVIOUS
<1>17. tfra'[t] = L /\ (\A u \in Tracks : u # t => tfra'[u] = tfra[u])
       /\ tfra' \in [Tracks -> Seq(Entry)]
  <2>1. tfra' = [tfra EXCEPT ![t] = L]
    BY <1>10, <1>11, <1>8a, <1>15
  <2>2. L \in Seq(Entry)
    BY <1>14, <1>15
  <2> DEFINE Q == Seq(Entry)
  <2>3. L \in Q /\ tfra \in [Tracks -> Q]
    BY <2>2
  <2> HIDE DEF Q
  <2>4. tfra'[t] = L /\ (\A u \in Tracks : u # t => tfra'[u] = tfra[u]) /\ tfra' \in [Tracks -> Q]
    BY <2>1, <2>3
  <2> QED BY <2>4 DEF Q
<1>18. \A k \in 1..Len(z) : k \in 1..Len(s) \/ \E j \in 1..Len(es) : k = Len(s) + j
  <2> SUFFICES ASSUME NEW k \in 1..Len(z), k \notin 1..Len(s)
               PROVE  \E j \in 1..Len(es) : k = Len(s) + j
    OBVIOUS
  <2>1. k - Len(s) \in 1..Len(es) /\ k = Len(s) + (k - Len(s))
    BY <1>7, <1>13, <1>14, <1>16
  <2> QED BY <2>1
<1>19. ASSUME NEW k \in 1..Len(z)
       PROVE  /\ z[k] \in movie[t].sync /\ z[k] < NewEdge(t)
              /\ \E i \in FragmentsOf(t)' : IsEntry(t, L[k], z[k], i)'
  <2>1. CASE k \in 1..Len(s)
    <3>1. z[k] = s[k] /\ L[k] = list[k]
      BY <2>1, <1>14, <1>15, <1>16
    <3>2. PICK i \in FragmentsOf(t) : IsEntry(t, L[k], z[k], i)
      BY <2>1, <3>1, <1>13
    <3>3. IsEntry(t, L[k], z[k], i)' /\ i \in FragmentsOf(t)'
      <4>1. out'[i] = out[i] /\ i \in FragmentsOf(t)'
        BY <1>5
      <4> QED BY <4>1, <3>2, <1>1, EntryKept
    <3>4. z[k] \in movie[t].sync /\ z[k] < NewEdge(t)
      <4>1. s[k] \in Nat /\ s[k] < DueEdge(t) /\ s[k] \in movie[t].sync
        BY <2>1, <1>13
      <4> QED BY <3>1, <4>1, <1>1
    <3> QED BY <3>3, <3>4
  <2>2. ASSUME NEW j \in 1..Len(es), k = Len(s) + j
        PROVE  /\ z[k] \in movie[t].sync /\ z[k] < NewEdge(t)
               /\ \E i \in FragmentsOf(t)' : IsEntry(t, L[k], z[k], i)'
    <3>1. z[k] = es[j] /\ L[k] = added[j]
      BY <2>2, <1>8a, <1>14, <1>15, <1>16
    <3>2. PICK e : e = L[k]
      OBVIOUS
    <3>3. PICK p : p = z[k]
      OBVIOUS
    <3>4. IsEntry(t, e, p, last)'
      <4>1. IsEntry(t, added[j], es[j], last)'
        BY <1>9
      <4> QED BY <4>1, <3>1, <3>2, <3>3 DEF IsEntry
    <3> QED BY <3>1, <3>2, <3>3, <3>4, <1>5, <1>7
  <2> QED BY <2>1, <2>2, <1>18
<1>20. ASSUME NEW k \in 1..Len(z), NEW l \in 1..Len(z), k < l PROVE z[k] < z[l]
  <2>0. Len(s) \in Nat /\ Len(es) \in Nat /\ k \in Nat /\ l \in Nat
    BY <1>7, <1>13, <1>14, <1>16
  <2>1. CASE k \in 1..Len(s) /\ l \in 1..Len(s)
    <3>1. z[k] = s[k] /\ z[l] = s[l]
      BY <2>1, <1>14, <1>16
    <3> QED BY <2>1, <3>1, <1>13, <1>20
  <2>2. ASSUME k \in 1..Len(s), NEW j \in 1..Len(es), l = Len(s) + j PROVE z[k] < z[l]
    <3>1. z[k] = s[k] /\ z[l] = es[j]
      BY <2>2, <1>14, <1>16
    <3>2. s[k] \in Nat /\ s[k] < DueEdge(t) /\ DueEdge(t) <= es[j] /\ es[j] \in Nat
      BY <2>2, <1>7, <1>13
    <3> QED BY <3>1, <3>2, <1>1
  <2>3. ASSUME NEW i \in 1..Len(es), k = Len(s) + i, NEW j \in 1..Len(es), l = Len(s) + j
        PROVE  z[k] < z[l]
    <3>1. z[k] = es[i] /\ z[l] = es[j]
      BY <2>3, <1>14, <1>16
    <3>2. i < j
      BY <2>0, <2>3, <1>20
    <3> QED BY <3>1, <3>2, <1>7
  <2>4. ASSUME NEW i \in 1..Len(es), k = Len(s) + i, l \in 1..Len(s) PROVE FALSE
    BY <2>0, <2>4, <1>20
  <2> QED BY <2>1, <2>2, <2>3, <2>4, <1>18
<1>21. ASSUME ~AllRap(t), NEW p \in movie[t].sync, p < NewEdge(t)
       PROVE  \E k \in 1..Len(z) : z[k] = p
  <2>0. p \in Nat
    <3>1. movie[t].sync \in SUBSET Nat
      BY <1>1, MovieTracks DEF Track
    <3> QED BY <3>1
  <2>1. CASE p < DueEdge(t)
    <3>1. PICK k \in 1..Len(s) : s[k] = p
      BY <2>1, <1>13, <1>21
    <3>2. k \in 1..Len(z) /\ z[k] = p
      BY <3>1, <1>7, <1>13, <1>14, <1>16
    <3> QED BY <3>2
  <2>2. CASE DueEdge(t) <= p
    <3>1. PICK k \in 1..Len(es) : es[k] = p
      BY <2>2, <1>7, <1>21
    <3>2. Len(s) + k \in 1..Len(z) /\ z[Len(s) + k] = p
      BY <3>1, <1>7, <1>13, <1>14, <1>16, SMTT(40), ZenonT(40)
    <3> QED BY <3>2
  <2> QED BY <2>0, <2>1, <2>2, <1>1
<1>22. AllRap(t)' = AllRap(t)
  BY <1>1 DEF AllRap, Num
<1>23. /\ L \in Seq(Entry) /\ z \in Seq(Nat) /\ Len(z) = Len(L)
  BY <1>14, <1>15, <1>16
<1>24. TfraAt(t, L, z)'
  BY <1>1, <1>19, <1>20, <1>21, <1>22, <1>23 DEF TfraAt
<1> QED BY <1>17, <1>24

LEMMA TfraKept ==
    ASSUME TfraInv, UNCHANGED <<movie, written, out, tfra>>,
           phase' \notin {"failed", "done"} => phase \notin {"failed", "done"}
    PROVE  TfraInv'
<1> SUFFICES ASSUME phase' \notin {"failed", "done"} PROVE TfraInv'
  BY DEF TfraInv
<1>1. tfra \in [Tracks -> Seq(Entry)] /\ \A t \in Tracks : \E s : TfraAt(t, tfra[t], s)
  BY DEF TfraInv
<1>2. Tracks' = Tracks /\ \A t : FragmentsOf(t)' = FragmentsOf(t)
  BY DEF Tracks, FragmentsOf
<1>3. ASSUME NEW t \in Tracks PROVE \E s : TfraAt(t, tfra[t], s)'
  <2>1. PICK list : list = tfra[t]
    OBVIOUS
  <2>2. PICK s : TfraAt(t, list, s)
    BY <1>1, <2>1
  <2>3. TfraAt(t, list, s)'
    BY <1>2, <2>2, EntriesKept
  <2>4. tfra'[t] = list
    BY <2>1
  <2> QED BY <2>3, <2>4 DEF TfraAt
<1> QED BY <1>1, <1>2, <1>3 DEF TfraInv

LEMMA TfraStep ==
    ASSUME WriterInv, TfraInv, [Next]_vars
    PROVE  TfraInv'
<1>1. CASE Start
  BY <1>1, TfraKept DEF Start
<1>2. CASE PrepareTracks
  BY <1>2, TfraKept DEF PrepareTracks
<1>3. CASE Finish
  BY <1>3 DEF Finish, TfraInv
<1>4. CASE UNCHANGED vars
  BY <1>4, TfraKept DEF vars
<1>5. ASSUME NEW t \in Tracks, Writes(t), MoofBox(t) PROVE TfraInv'
  <2>1. Moves(t) /\ movie' = movie /\ phase = "fragments" /\ PlanKinds' /\ Tracks' = Tracks
        /\ \A u \in Tracks : u # t => written'[u] = written[u]
    <3>1. Moves(t)
      BY <1>5 DEF Writes
    <3>2. Tracks' = Tracks /\ \A u \in Tracks : u # t => written'[u] = written[u]
      BY <3>1, WriteFacts
    <3>3. PlanKinds'
      BY StepKinds
    <3> QED BY <3>1, <3>2, <3>3 DEF Moves
  <2>2. CASE Fails
    BY <2>2 DEF Fails, TfraInv
  <2>3. CASE Succeeds(t)
    <3>1. tfra \in [Tracks -> Seq(Entry)] /\ \A u \in Tracks : \E s : TfraAt(u, tfra[u], s)
      BY <2>1 DEF TfraInv
    <3>2. PICK s : TfraAt(t, tfra[t], s)
      BY <3>1
    <3>3. /\ tfra' \in [Tracks -> Seq(Entry)]
          /\ \A u \in Tracks : u # t => tfra'[u] = tfra[u]
          /\ \E list, z : list = tfra'[t] /\ TfraAt(t, list, z)'
      BY <1>5, <2>1, <2>3, <3>1, <3>2, EntriesAdded
    <3>4. \A u : \A i \in FragmentsOf(u) : i \in FragmentsOf(u)' /\ out'[i] = out[i]
      <4>1. PICK x \in Fragment : x = NewFragment(t)
        <5>1. fragSize'[t] \in Nat
          BY <2>1 DEF PlanKinds
        <5> QED BY <5>1, <2>1, FragmentIsOne
      <4>2. out' = Append(out, x)
        BY <2>3, <4>1 DEF Succeeds
      <4>3. /\ \A i \in 1..Len(out) : out'[i] = out[i]
            /\ \A u : FragmentsOf(u) \subseteq FragmentsOf(u)'
        BY <4>2, InvFacts, FragmentsAppended DEF OutKinds
      <4> QED BY <4>3 DEF FragmentsOf
    <3>5. ASSUME NEW u \in Tracks PROVE \E z : TfraAt(u, tfra[u], z)'
      <4>1. CASE u = t
        <5>1. PICK list, z : list = tfra'[t] /\ TfraAt(t, list, z)'
          BY <3>3
        <5> QED BY <4>1, <5>1 DEF TfraAt
      <4>2. CASE u # t
        <5>1. PICK list : list = tfra[u]
          OBVIOUS
        <5>2. PICK z : TfraAt(u, list, z)
          BY <3>1, <5>1
        <5>3. TfraAt(u, list, z)'
          BY <2>1, <3>4, <4>2, <5>2, EntriesKept
        <5>4. tfra'[u] = list
          BY <3>3, <4>2, <5>1
        <5> QED BY <5>3, <5>4 DEF TfraAt
      <4> QED BY <4>1, <4>2
    <3> QED BY <2>1, <3>3, <3>5 DEF TfraInv
  <2> QED BY <1>5, <2>2, <2>3 DEF Writes
<1>6. CASE OutputTurn
  <2>1. CASE Keeps /\ tfra' = tfra
    <3>1. phase = "fragments"
      BY <1>6 DEF OutputTurn
    <3> QED BY <2>1, <3>1, TfraKept DEF Keeps
  <2> QED BY <1>5, <1>6, <2>1, TurnStep
<1>7. ASSUME NEW t \in Tracks, OutputQueued(t) PROVE TfraInv'
  <2>1. MoofBox(t)
    BY <1>7 DEF OutputQueued
  <2> QED BY <1>5, <1>7, <2>1, QueuedStep
<1> QED BY <1>1, <1>2, <1>3, <1>4, <1>6, <1>7 DEF Next

LEMMA TfraStart == Init => TfraInv
<1> SUFFICES ASSUME Init PROVE TfraInv
  OBVIOUS
<1>1. /\ movie \in Movies /\ written = [t \in Tracks |-> 0] /\ tfra = [t \in Tracks |-> << >>]
  BY DEF Init
<1>2. << >> \in Seq(Entry) /\ << >> \in Seq(Nat) /\ Len(<< >>) = 0 /\ 1..0 = {}
  OBVIOUS
<1>3. tfra \in [Tracks -> Seq(Entry)]
  BY <1>1, <1>2
<1>4. ASSUME NEW t \in Tracks PROVE TfraAt(t, tfra[t], << >>)
  <2>1. movie[t].sync \in SUBSET Nat
    BY <1>1, MovieTracks DEF Track
  <2>2. \A p \in Nat : ~(p < 0)
    OBVIOUS
  <2>3. written[t] = 0 /\ tfra[t] = << >>
    BY <1>1
  <2> QED BY <1>2, <2>1, <2>2, <2>3 DEF TfraAt
<1> QED BY <1>3, <1>4 DEF TfraInv

(* The fragments of a track follow one another.                             *)
LEMMA FragmentsInOrder ==
    ASSUME WriterInv, NEW t \in Tracks
    PROVE  /\ \A i \in FragmentsOf(t) : i \in 1..Len(out) /\ out[i].first \in Nat /\ out[i].stop \in Nat
           /\ \A i, j \in FragmentsOf(t) : i < j => out[i].stop <= out[j].first
<1> DEFINE n(i) == Nth(t, i)
<1>1. /\ movie \in Movies /\ movie[t] \in Track /\ IsPlanned(movie[t])
      /\ Due(t) \in 1..(Len(movie[t].plan) + 1) /\ Len(movie[t].plan) \in Nat
  BY InvFacts, MovieTracks DEF CursorAt
<1>2. ASSUME NEW i \in FragmentsOf(t)
      PROVE  /\ i \in 1..Len(out) /\ n(i) \in 1..Len(movie[t].plan)
             /\ out[i].first = Edge(movie[t], n(i)) /\ out[i].stop = Edge(movie[t], n(i) + 1)
  <2>1. i \in 1..Len(out) /\ out[i].track = t
    BY DEF FragmentsOf
  <2>2. WrittenAt(t, i)
    BY <2>1 DEF WriterInv, Written
  <2>3. /\ n(i) \in 1..(Due(t) - 1)
        /\ out[i].first = Edge(movie[t], n(i)) /\ out[i].stop = Edge(movie[t], n(i) + 1)
    BY <2>2 DEF WrittenAt
  <2> HIDE DEF n
  <2> QED BY <2>1, <2>3, <1>1
<1>3. ASSUME NEW i \in FragmentsOf(t), NEW j \in FragmentsOf(t), i < j PROVE n(i) < n(j)
  <2> DEFINE A == {k \in FragmentsOf(t) : k <= i}
             B == {k \in FragmentsOf(t) : k <= j}
  <2>0. /\ FragmentsOf(t) \subseteq 1..Len(out) /\ IsFiniteSet(B) /\ i \in Int /\ j \in Int
        /\ \A k \in FragmentsOf(t) : k \in Int
    <3>1. FragmentsOf(t) \subseteq 1..Len(out) /\ IsFiniteSet(B)
      BY <1>2, InvFacts, FragmentsFinite DEF OutKinds
    <3>2. \A k \in 1..Len(out) : k \in Int
      OBVIOUS
    <3> QED BY <3>1, <3>2
  <2>1. A \in SUBSET B /\ j \in B /\ j \notin A
    BY <2>0, <1>3
  <2>2. IsFiniteSet(A) /\ Cardinality(A) <= Cardinality(B) /\ Cardinality(A) # Cardinality(B)
    BY <2>0, <2>1, FS_Subset
  <2>3. Cardinality(A) \in Nat /\ Cardinality(B) \in Nat
    BY <2>0, <2>2, FS_CardinalityType
  <2>4. n(i) = Cardinality(A) /\ n(j) = Cardinality(B)
    BY DEF Nth
  <2> HIDE DEF n, A, B
  <2> QED BY <2>2, <2>3, <2>4
<1> HIDE DEF n
<1>4. /\ \A k \in 1..(Len(movie[t].plan) + 1) : Edge(movie[t], k) \in Nat
      /\ \A k, l \in 1..(Len(movie[t].plan) + 1) : k < l => Edge(movie[t], k) < Edge(movie[t], l)
  <2>1. /\ \A k \in 1..(Len(movie[t].plan) + 1) : Edge(movie[t], k) \in 0..Len(movie[t].dts)
        /\ \A k, l \in 1..(Len(movie[t].plan) + 1) : k < l => Edge(movie[t], k) < Edge(movie[t], l)
    BY <1>1, PlanEdges
  <2>2. \A x \in 0..Len(movie[t].dts) : x \in Nat
    OBVIOUS
  <2> QED BY <2>1, <2>2
<1>5. ASSUME NEW i \in FragmentsOf(t) PROVE out[i].first \in Nat /\ out[i].stop \in Nat
  <2>1. n(i) \in 1..(Len(movie[t].plan) + 1) /\ n(i) + 1 \in 1..(Len(movie[t].plan) + 1)
    BY <1>1, <1>2
  <2> QED BY <2>1, <1>2, <1>4
<1>6. ASSUME NEW i \in FragmentsOf(t), NEW j \in FragmentsOf(t), i < j
      PROVE  out[i].stop <= out[j].first
  <2>1. n(i) < n(j) /\ n(i) \in 1..Len(movie[t].plan) /\ n(j) \in 1..Len(movie[t].plan)
    BY <1>2, <1>3, <1>6
  <2>2. /\ n(i) + 1 \in 1..(Len(movie[t].plan) + 1) /\ n(j) \in 1..(Len(movie[t].plan) + 1)
        /\ n(i) + 1 = n(j) \/ n(i) + 1 < n(j)
    BY <2>1, <1>1
  <2>3. /\ out[i].stop = Edge(movie[t], n(i) + 1) /\ out[j].first = Edge(movie[t], n(j))
        /\ out[i].stop \in Nat /\ out[j].first \in Nat
    BY <1>2, <1>5
  <2>4. CASE n(i) + 1 = n(j)
    BY <2>3, <2>4
  <2>5. CASE n(i) + 1 < n(j)
    <3>1. Edge(movie[t], n(i) + 1) < Edge(movie[t], n(j))
      BY <2>2, <2>5, <1>4
    <3> QED BY <2>3, <3>1
  <2> QED BY <2>2, <2>4, <2>5
<1> QED BY <1>2, <1>5, <1>6

(* What an entry leads to.                                                  *)
Found(t, e)   == {i \in FragmentsOf(t) : out[i].moof = e.moof}
PlaceIn(e, i) == out[i].first + e.sample - 1
Hit(t, list)  == UNION {{PlaceIn(e, i) : i \in Found(t, e)} : e \in Range(list)}
Wanted(t)     == {p \in movie[t].sync : p < written[t]}
Own(i)        == (out[i].first)..(out[i].stop - 1)

Leads(t, e) == \E i \in Found(t, e) :
    /\ PlaceIn(e, i) \in movie[t].sync \cap Own(i)
    /\ e.time = DtsFromIdx(t, PlaceIn(e, i))

TfraGood(t, list, one) ==
    /\ \A e \in Range(list) : Leads(t, e)
    /\ ~AllRap(t) =>
          IF one
          THEN \A i \in FragmentsOf(t) :
                  Hit(t, list) \cap Own(i) = IF Wanted(t) \cap Own(i) = {} THEN {}
                                             ELSE {Min(Wanted(t) \cap Own(i))}
          ELSE Hit(t, list) = Wanted(t) /\ Len(list) = Cardinality(Wanted(t))

LEMMA EntryFound ==
    ASSUME WriterInv, NEW t \in Tracks, NEW e \in Entry, NEW p \in Nat,
           NEW i \in FragmentsOf(t), IsEntry(t, e, p, i)
    PROVE  Found(t, e) = {i} /\ PlaceIn(e, i) = p /\ p \in Own(i)
<1>1. /\ \A j \in FragmentsOf(t) : j \in 1..Len(out) /\ out[j].first \in Nat /\ out[j].stop \in Nat
  BY FragmentsInOrder
<1>2. \A j, k \in 1..Len(out) : j < k => out[j].moof < out[k].moof
  BY MoofsGrow
<1>3. \A j \in 1..Len(out) : out[j].moof \in Nat /\ j \in Int
  <2> DEFINE F == Fragment
  <2>1. out \in Seq(F) /\ \A x \in F : x.moof \in Nat
    BY InvFacts DEF OutKinds, Fragment
  <2> HIDE DEF F
  <2>2. \A j \in 1..Len(out) : j \in Int
    OBVIOUS
  <2> QED BY <2>1, <2>2
<1>4. ASSUME NEW j \in FragmentsOf(t), out[j].moof = out[i].moof PROVE j = i
  <2>1. i \in 1..Len(out) /\ j \in 1..Len(out) /\ i \in Int /\ j \in Int
        /\ out[i].moof \in Nat
    BY <1>1, <1>3
  <2>2. ~(i < j) /\ ~(j < i)
    BY <2>1, <1>2, <1>4
  <2> QED BY <2>1, <2>2
<1>5. e.moof = out[i].moof /\ out[i].first <= p /\ p < out[i].stop
      /\ e.sample = p - out[i].first + 1
  BY DEF IsEntry
<1>6. Found(t, e) = {i}
  BY <1>4, <1>5 DEF Found
<1>7. PlaceIn(e, i) = p /\ p \in Own(i)
  BY <1>1, <1>5 DEF PlaceIn, Own
<1> QED BY <1>6, <1>7

(* Some of the entries of a track lead to the samples that they are for.    *)
LEMMA EntriesLead ==
    ASSUME WriterInv, NEW t \in Tracks, NEW list, NEW s, TfraAt(t, list, s),
           NEW K \in SUBSET (1..Len(s)), NEW some, Range(some) = {list[k] : k \in K}
    PROVE  /\ \A e \in Range(some) : Leads(t, e)
           /\ Hit(t, some) = {s[k] : k \in K}
<1>1. ASSUME NEW k \in K
      PROVE  \E i \in FragmentsOf(t) : /\ IsEntry(t, list[k], s[k], i)
                                       /\ Found(t, list[k]) = {i} /\ PlaceIn(list[k], i) = s[k]
                                       /\ s[k] \in Own(i) /\ s[k] \in movie[t].sync
  <2>1. k \in 1..Len(s) /\ s \in Seq(Nat) /\ list \in Seq(Entry) /\ Len(s) = Len(list)
    BY DEF TfraAt
  <2>2. s[k] \in Nat /\ list[k] \in Entry
    BY <2>1, ElementOfSeq
  <2>3. s[k] \in movie[t].sync /\ \E i \in FragmentsOf(t) : IsEntry(t, list[k], s[k], i)
    BY <2>1 DEF TfraAt
  <2> QED BY <2>2, <2>3, EntryFound
<1>2. ASSUME NEW e \in Range(some) PROVE Leads(t, e)
  <2>1. PICK k \in K : e = list[k]
    OBVIOUS
  <2>2. PICK i \in FragmentsOf(t) : /\ IsEntry(t, e, s[k], i)
                                    /\ Found(t, e) = {i} /\ PlaceIn(e, i) = s[k]
                                    /\ s[k] \in Own(i) /\ s[k] \in movie[t].sync
    BY <1>1, <2>1
  <2>3. e.time = DtsFromIdx(t, s[k])
    BY <2>2 DEF IsEntry
  <2> QED BY <2>2, <2>3 DEF Leads
<1>3. ASSUME NEW e \in Range(some), NEW i \in Found(t, e) PROVE PlaceIn(e, i) \in {s[k] : k \in K}
  <2>1. PICK k \in K : e = list[k]
    OBVIOUS
  <2> QED BY <1>1, <1>3, <2>1
<1>4. ASSUME NEW k \in K PROVE \E e \in Range(some) : \E i \in Found(t, e) : PlaceIn(e, i) = s[k]
  BY <1>1
<1>5. \A x : x \in Hit(t, some) <=> \E e \in Range(some) : \E i \in Found(t, e) : x = PlaceIn(e, i)
  BY DEF Hit
<1>6. Hit(t, some) = {s[k] : k \in K}
  <2>1. \A x \in Hit(t, some) : x \in {s[k] : k \in K}
    BY <1>3, <1>5
  <2>2. \A k \in K : s[k] \in Hit(t, some)
    BY <1>4, <1>5
  <2> QED BY ONLY <2>1, <2>2
<1> QED BY <1>2, <1>6

(* All entries, while the fragments are written.                            *)
LEMMA TfraComplete ==
    ASSUME WriterInv, NEW t \in Tracks, NEW list, NEW s, TfraAt(t, list, s)
    PROVE  TfraGood(t, list, FALSE)
<1> DEFINE K == 1..Len(s)
<1>1. /\ s \in Seq(Nat) /\ list \in Seq(Entry) /\ Len(s) = Len(list) /\ Len(s) \in Nat
      /\ \A k, l \in K : k < l => s[k] < s[l]
      /\ \A k \in K : s[k] \in movie[t].sync /\ s[k] < written[t] /\ s[k] \in Nat
  <2>1. s \in Seq(Nat)
    BY DEF TfraAt
  <2>2. \A k \in K : s[k] \in Nat
    BY <2>1, ElementOfSeq
  <2>3. Len(s) \in Nat
    BY <2>1
  <2> QED BY <2>1, <2>2, <2>3 DEF TfraAt
<1>2. Range(list) = {list[k] : k \in K}
  <2>1. DOMAIN list = K
    BY <1>1, LenProperties
  <2> QED BY <2>1 DEF Range
<1>3. (\A e \in Range(list) : Leads(t, e)) /\ Hit(t, list) = {s[k] : k \in K}
  <2>1. K \in SUBSET (1..Len(s))
    OBVIOUS
  <2> HIDE DEF K
  <2> QED BY <1>2, <2>1, EntriesLead
<1>4. ASSUME ~AllRap(t)
      PROVE  Hit(t, list) = Wanted(t) /\ Len(list) = Cardinality(Wanted(t))
  <2>1. \A p \in Wanted(t) : \E k \in K : s[k] = p
    BY <1>4 DEF TfraAt, Wanted
  <2>2. \A k \in K : s[k] \in Wanted(t)
    BY <1>1 DEF Wanted
  <2>3. {s[k] : k \in K} = Wanted(t)
    BY <2>1, <2>2
  <2>4. s \in Bijection(K, Wanted(t))
    <3>1. s \in [K -> Wanted(t)]
      <4>1. s \in [K -> Nat]
        BY <1>1, LenProperties
      <4> QED BY <2>2, <4>1
    <3>2. \A k, l \in K : s[k] = s[l] => k = l
      <4> SUFFICES ASSUME NEW k \in K, NEW l \in K, s[k] = s[l] PROVE k = l
        OBVIOUS
      <4>1. k \in Int /\ l \in Int /\ s[k] \in Nat /\ s[l] \in Nat
        BY <1>1
      <4>2. ~(s[k] < s[l]) /\ ~(s[l] < s[k])
        BY <4>1
      <4>3. ~(k < l) /\ ~(l < k)
        BY <1>1, <4>2
      <4> QED BY <4>1, <4>3
    <3> HIDE DEF K
    <3>3. s \in Injection(K, Wanted(t))
      BY <3>1, <3>2 DEF Injection, IsInjective
    <3>4. s \in Surjection(K, Wanted(t))
      BY <3>1, <2>1 DEF Surjection
    <3> QED BY <3>3, <3>4 DEF Bijection
  <2>5. Cardinality(Wanted(t)) = Len(s)
    <3>1. ExistsBijection(1..Len(s), Wanted(t))
      BY <2>4 DEF ExistsBijection
    <3> QED BY <1>1, <3>1, FS_CountingElements
  <2> QED BY <1>1, <1>3, <2>3, <2>5
<1> QED BY <1>3, <1>4 DEF TfraGood

(* The first entry of each 'moof', when they are finished.                  *)
LEMMA TfraFirsts ==
    ASSUME WriterInv, NEW t \in Tracks, NEW list, NEW s, TfraAt(t, list, s)
    PROVE  TfraGood(t, FirstOfEachMoof(list), TRUE)
<1> DEFINE N == 1..Len(s)
           K == {k \in 1..Len(list) : k = 1 \/ list[k].moof # list[k - 1].moof}
           kept == InOrder(K)
           some == [i \in 1..Len(kept) |-> list[kept[i]]]
<1>1. /\ s \in Seq(Nat) /\ list \in Seq(Entry) /\ Len(s) = Len(list) /\ Len(s) \in Nat
      /\ \A k, l \in N : k < l => s[k] < s[l]
      /\ \A k \in N : s[k] \in movie[t].sync /\ s[k] < written[t] /\ s[k] \in Nat
      /\ \A k \in N : list[k] \in Entry /\ \E i \in FragmentsOf(t) : IsEntry(t, list[k], s[k], i)
  <2>1. s \in Seq(Nat) /\ list \in Seq(Entry) /\ Len(s) = Len(list)
    BY DEF TfraAt
  <2>2. \A k \in N : s[k] \in Nat /\ list[k] \in Entry
    BY <2>1, ElementOfSeq
  <2>3. Len(s) \in Nat
    BY <2>1
  <2> QED BY <2>1, <2>2, <2>3 DEF TfraAt
<1>2. FirstOfEachMoof(list) = some
  BY DEF FirstOfEachMoof
<1>3. Range(some) = {list[k] : k \in K}
  <2>1. K \in SUBSET Nat /\ IsFiniteSet(K)
    <3>1. K \in SUBSET (1..Len(s)) /\ IsFiniteSet(1..Len(s))
      BY <1>1, FS_Interval
    <3>2. 1..Len(s) \subseteq Nat
      OBVIOUS
    <3> QED BY <3>1, <3>2, FS_Subset
  <2> HIDE DEF K
  <2>2. /\ kept \in Seq(K) /\ Len(kept) = Cardinality(K)
        /\ \A x \in K : \E k \in 1..Cardinality(K) : kept[k] = x
    BY <2>1, Enumerated
  <2>3. \A i \in 1..Len(kept) : kept[i] \in K
    BY <2>2, ElementOfSeq
  <2> HIDE DEF kept
  <2>4. Range(some) = {list[kept[i]] : i \in 1..Len(kept)}
    BY DEF Range
  <2> QED BY <2>2, <2>3, <2>4
<1>4. (\A e \in Range(some) : Leads(t, e)) /\ Hit(t, some) = {s[k] : k \in K}
  <2>1. K \in SUBSET (1..Len(s))
    BY <1>1
  <2> HIDE DEF K, some
  <2> QED BY <1>3, <2>1, EntriesLead
(* The entries of a fragment are those for its samples.                     *)
<1>5. ASSUME NEW i \in FragmentsOf(t), NEW k \in N
      PROVE  s[k] \in Own(i) <=> list[k].moof = out[i].moof
  <2>1. PICK j \in FragmentsOf(t) : IsEntry(t, list[k], s[k], j)
    BY <1>1
  <2>2. Found(t, list[k]) = {j} /\ s[k] \in Own(j) /\ s[k] \in Nat
    BY <1>1, <2>1, EntryFound
  <2>3. i = j <=> list[k].moof = out[i].moof
    BY <2>2 DEF Found
  <2>4. s[k] \in Own(i) => i = j
    <3> SUFFICES ASSUME s[k] \in Own(i), i # j PROVE FALSE
      OBVIOUS
    <3>1. /\ i \in 1..Len(out) /\ j \in 1..Len(out)
          /\ out[i].first \in Nat /\ out[i].stop \in Nat
          /\ out[j].first \in Nat /\ out[j].stop \in Nat
          /\ i < j => out[i].stop <= out[j].first
          /\ j < i => out[j].stop <= out[i].first
      BY FragmentsInOrder
    <3>2. /\ out[i].first <= s[k] /\ s[k] < out[i].stop
          /\ out[j].first <= s[k] /\ s[k] < out[j].stop
      BY <2>2, <3>1 DEF Own
    <3>3. i < j \/ j < i
      BY <3>1
    <3> QED BY <2>2, <3>1, <3>2, <3>3
  <2> QED BY <2>2, <2>3, <2>4
<1>6. ASSUME ~AllRap(t), NEW i \in FragmentsOf(t)
      PROVE  Hit(t, some) \cap Own(i) = IF Wanted(t) \cap Own(i) = {} THEN {}
                                        ELSE {Min(Wanted(t) \cap Own(i))}
  <2> DEFINE W == Wanted(t) \cap Own(i)
  <2>1. Wanted(t) = {s[k] : k \in N}
    <3>1. \A p \in Wanted(t) : \E k \in N : s[k] = p
      BY <1>6 DEF TfraAt, Wanted
    <3>2. \A k \in N : s[k] \in Wanted(t)
      BY <1>1 DEF Wanted
    <3> QED BY <3>1, <3>2
  <2>2. K \subseteq N
    BY <1>1
  <2>3. CASE W = {}
    BY <1>4, <2>1, <2>2, <2>3
  <2>4. CASE W # {}
    <3>1. W \subseteq Nat
      BY <1>1, <2>1
    <3>2. PICK m : m = Min(W)
      OBVIOUS
    <3>3. m \in W /\ \A y \in W : m <= y
      <4> HIDE DEF W
      <4> QED BY <2>4, <3>1, <3>2, MinOf
    <3>4. PICK a \in N : s[a] = m
      BY <2>1, <3>3
    <3>5. list[a].moof = out[i].moof
      BY <1>5, <3>3, <3>4
    <3>6. a \in K
      <4> SUFFICES ASSUME a # 1, list[a].moof = list[a - 1].moof PROVE FALSE
        BY <1>1
      <4>1. a - 1 \in N /\ a - 1 < a
        BY <1>1
      <4>2. s[a - 1] \in W
        BY <1>5, <2>1, <3>5, <4>1
      <4>3. m <= s[a - 1] /\ s[a - 1] < s[a] /\ s[a - 1] \in Nat /\ s[a] \in Nat
        BY <1>1, <3>3, <4>1, <4>2
      <4> QED BY <3>4, <4>3
    <3>7. ASSUME NEW k \in K, s[k] \in Own(i) PROVE s[k] = m
      <4>1. k \in N /\ s[k] \in W /\ k \in Int /\ a \in Int
        BY <2>1, <2>2, <3>7
      <4>2. m <= s[k] /\ s[k] \in Nat /\ m \in Nat
        BY <1>1, <3>3, <3>4, <4>1
      <4>3. ~(k < a)
        BY <1>1, <3>4, <4>1, <4>2
      <4>4. CASE k = a
        BY <3>4, <4>4
      <4>5. CASE a < k
        <5>1. k - 1 \in N /\ k # 1 /\ k - 1 < k /\ (k - 1 = a \/ a < k - 1)
          BY <1>1, <4>1, <4>5
        <5>2. s[k - 1] \in Nat /\ s[a] <= s[k - 1] /\ s[k - 1] < s[k]
          BY <1>1, <4>1, <5>1
        <5>3. s[k - 1] \in Own(i)
          <6>1. m \in Own(i)
            BY <3>3
          <6>2. out[i].first \in Nat /\ out[i].stop \in Nat
            BY FragmentsInOrder
          <6>3. out[i].first <= m /\ s[k] < out[i].stop
            BY <6>1, <6>2, <3>7, <4>2 DEF Own
          <6> QED BY <3>4, <4>2, <5>2, <6>2, <6>3, SMTT(40), ZenonT(40) DEF Own
        <5>4. list[k].moof = list[k - 1].moof
          BY <1>5, <3>7, <4>1, <5>1, <5>3
        <5> QED BY <5>1, <5>4
      <4> QED BY <4>1, <4>3, <4>4, <4>5
    <3>8. m \in {s[k] : k \in K} /\ m \in Own(i)
      BY <3>3, <3>4, <3>6
    <3>9. {s[k] : k \in K} \cap Own(i) = {m}
      BY <3>7, <3>8
    <3> QED BY <1>4, <2>4, <3>2, <3>9
  <2> QED BY <2>3, <2>4
<1> QED BY <1>2, <1>4, <1>6 DEF TfraGood

TfraDone == phase = "done" => \A t \in Tracks : TfraGood(t, tfra[t], cfg.oneTfra)

LEMMA TfraSame ==
    ASSUME NEW t, NEW list, NEW one, TfraGood(t, list, one), UNCHANGED <<movie, written, out>>
    PROVE  TfraGood(t, list, one)'
<1>1. /\ \A e : Found(t, e)' = Found(t, e) /\ \A i : PlaceIn(e, i)' = PlaceIn(e, i)
      /\ \A p : DtsFromIdx(t, p)' = DtsFromIdx(t, p)
      /\ FragmentsOf(t)' = FragmentsOf(t) /\ Wanted(t)' = Wanted(t) /\ AllRap(t)' = AllRap(t)
      /\ \A i : Own(i)' = Own(i)
  BY DEF Found, PlaceIn, DtsFromIdx, Num, FragmentsOf, Wanted, AllRap, Own
<1>2. \A e : Leads(t, e)' = Leads(t, e)
  BY <1>1 DEF Leads
<1>3. Hit(t, list)' = Hit(t, list)
  BY <1>1 DEF Hit
<1> QED BY <1>1, <1>2, <1>3 DEF TfraGood

LEMMA TfraDoneStep ==
    ASSUME WriterInv, TfraInv, TfraDone, [Next]_vars
    PROVE  TfraDone'
<1> SUFFICES ASSUME phase' = "done", NEW t \in Tracks'
             PROVE  \E list, one : /\ list = tfra'[t] /\ one = cfg'.oneTfra
                                   /\ TfraGood(t, list, one)'
  BY DEF TfraDone, TfraGood, Hit
<1>1. CASE Finish
  <2>1. /\ UNCHANGED <<movie, cfg, written, out>> /\ phase = "fragments" /\ Tracks' = Tracks
        /\ tfra' = IF cfg.oneTfra THEN [u \in Tracks |-> FirstOfEachMoof(tfra[u])] ELSE tfra
    BY <1>1 DEF Finish, Tracks
  <2>2. PICK one : one = cfg.oneTfra
    OBVIOUS
  <2>3. PICK list : list = tfra'[t]
    OBVIOUS
  <2>4. PICK s : TfraAt(t, tfra[t], s)
    BY <2>1 DEF TfraInv
  <2>5. TfraGood(t, list, one)
    <3>1. CASE cfg.oneTfra
      <4>1. list = FirstOfEachMoof(tfra[t]) /\ one = TRUE
        <5>1. one \in BOOLEAN
          BY <2>2, InvFacts, FragmentWriterAssumption DEF PlanKinds
        <5> QED BY <2>1, <2>2, <2>3, <3>1, <5>1
      <4>2. TfraGood(t, FirstOfEachMoof(tfra[t]), TRUE)
        BY <2>1, <2>4, TfraFirsts
      <4> QED BY <4>1, <4>2
    <3>2. CASE ~cfg.oneTfra
      <4>1. list = tfra[t] /\ one = FALSE
        <5>1. one \in BOOLEAN
          BY <2>2, InvFacts, FragmentWriterAssumption DEF PlanKinds
        <5> QED BY <2>1, <2>2, <2>3, <3>2, <5>1
      <4>2. TfraGood(t, tfra[t], FALSE)
        BY <2>1, <2>4, TfraComplete
      <4> QED BY <4>1, <4>2
    <3> QED BY <3>1, <3>2
  <2>6. TfraGood(t, list, one)'
    BY <2>1, <2>5, TfraSame
  <2> QED BY <2>1, <2>2, <2>3, <2>6
<1>2. CASE UNCHANGED vars
  <2>1. UNCHANGED <<movie, cfg, written, out, tfra, phase>> /\ Tracks' = Tracks
    BY <1>2 DEF vars, Tracks
  <2>2. PICK one : one = cfg.oneTfra
    OBVIOUS
  <2>3. PICK list : list = tfra[t]
    OBVIOUS
  <2>4. TfraGood(t, list, one)'
    BY <2>1, <2>2, <2>3, TfraSame DEF TfraDone
  <2> QED BY <2>1, <2>2, <2>3, <2>4
<1>3. ~Start /\ ~PrepareTracks /\ ~OutputTurn /\ \A u \in Tracks : ~OutputQueued(u)
  BY DEF Start, PrepareTracks, OutputTurn, OutputQueued, MdatFails
<1> QED BY <1>1, <1>2, <1>3 DEF Next

LEMMA TfraFinds == WriterInv /\ TfraInv /\ TfraDone => TfraFindsSyncs
<1>1. (\A t \in Tracks : TfraGood(t, tfra[t], cfg.oneTfra /\ phase = "done")) => TfraFindsSyncs
  BY DEF TfraFindsSyncs, TfraGood, Leads, Hit, Found, PlaceIn, Wanted, Own
<1> SUFFICES ASSUME WriterInv, TfraInv, TfraDone, phase # "failed", NEW t \in Tracks
             PROVE  TfraGood(t, tfra[t], cfg.oneTfra /\ phase = "done")
  BY <1>1 DEF TfraFindsSyncs
<1>2. CASE phase = "done"
  <2>1. TfraGood(t, tfra[t], cfg.oneTfra)
    BY <1>2 DEF TfraDone
  <2>2. cfg.oneTfra \in BOOLEAN
    BY InvFacts, FragmentWriterAssumption DEF PlanKinds
  <2>3. (cfg.oneTfra /\ phase = "done") = cfg.oneTfra
    BY <1>2, <2>2
  <2> QED BY <2>1, <2>3
<1>3. CASE phase # "done"
  <2>1. PICK s : TfraAt(t, tfra[t], s)
    BY <1>3 DEF TfraInv
  <2>2. TfraGood(t, tfra[t], FALSE)
    BY <2>1, TfraComplete
  <2>3. (cfg.oneTfra /\ phase = "done") = FALSE
    BY <1>3
  <2> QED BY <2>2, <2>3
<1> QED BY <1>2, <1>3

(* Every entry of 'tfra' leads to a sync sample and gives its time, and all *)
(* have one or, if so configured, the first of each 'moof': for any sync    *)
(* samples, plans and options.  The entries of a 'moof' stand together, in  *)
(* the order of their samples, so that those the removal leaves are the     *)
(* first ones.                                                              *)
THEOREM TfraIndexes == Spec => []TfraFindsSyncs
<1>1. Init => TfraInv /\ TfraDone
  <2>1. Init => TfraDone
    BY DEF Init, TfraDone
  <2> QED BY <2>1, TfraStart
<1>2. WriterInv /\ (TfraInv /\ TfraDone) /\ [Next]_vars => (TfraInv /\ TfraDone)'
  BY TfraStep, TfraDoneStep
<1> QED BY <1>1, <1>2, TfraFinds, WriterInvariance, PTL DEF Spec
=============================================================================
