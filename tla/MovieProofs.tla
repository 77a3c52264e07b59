----------------------------- MODULE MovieProofs -----------------------------
(***************************************************************************)
(* Proofs about what the muxer keeps of a movie and writes in front of its *)
(* media data.                                                             *)
(*                                                                         *)
(* First, for every track that intake can leave and any sequence of        *)
(* queries, what the lookups of mp4_stream.c find in the sample tables:    *)
(* what the tables say of the track they are written from; then, that a    *)
(* cursor at an entry moves to the entry that holds what is looked for;    *)
(* and last the answers.                                                   *)
(*                                                                         *)
(* Second, for every configuration and any tracks, the way from            *)
(* mp4_muxer_create to the end of 'moov': the types of what setup_muxer    *)
(* computes, the IDs of the tracks, the presentation, the boxes, and that  *)
(* the estimate of their size is large enough.                             *)
(***************************************************************************)
EXTENDS MuxerSetup, StreamLookup, SumsProofs, SequenceTheorems, FiniteSetTheorems

(* A step taken n times.                                                    *)
IsIterated(n, base, g, f) == f = [k \in 0..n |-> IF k = 0 THEN base ELSE g[k][f[k - 1]]]

LEMMA Iterates ==
    ASSUME NEW S, NEW base \in S, NEW n \in Nat, NEW g \in [1..n -> [S -> S]]
    PROVE  \E f \in [0..n -> S] : IsIterated(n, base, g, f)
<1> DEFINE Is(m, f) == f = [k \in 0..m |-> IF k = 0 THEN base ELSE g[k][f[k - 1]]]
           D == {m \in Nat : \E f \in [0..m -> S] : Is(m, f)}
<1>1. 0 \in D
  <2> DEFINE h == [k \in 0..0 |-> base]
  <2>1. h \in [0..0 -> S]
    OBVIOUS
  <2>2. Is(0, h)
    OBVIOUS
  <2> QED BY <2>1, <2>2
<1>2. ASSUME NEW m \in 0..(n - 1), m \in D PROVE m + 1 \in D
  <2>1. PICK f \in [0..m -> S] : Is(m, f)
    BY <1>2
  <2> DEFINE h == [k \in 0..(m + 1) |-> IF k = m + 1 THEN g[m + 1][f[m]] ELSE f[k]]
  <2>2. f[m] \in S /\ m + 1 \in 1..n /\ m + 1 \in Nat
    OBVIOUS
  <2>3. g[m + 1][f[m]] \in S
    BY <2>2
  <2>4. h \in [0..(m + 1) -> S]
    BY <2>3
  <2>5. \A k \in 0..m : f[k] = IF k = 0 THEN base ELSE g[k][f[k - 1]]
    <3> DEFINE r == [k \in 0..m |-> IF k = 0 THEN base ELSE g[k][f[k - 1]]]
    <3>1. f = r
      BY <2>1
    <3>2. \A k \in 0..m : r[k] = IF k = 0 THEN base ELSE g[k][f[k - 1]]
      OBVIOUS
    <3> HIDE DEF r
    <3> QED BY <3>1, <3>2
  <2>6. \A k \in 0..(m + 1) : h[k] = IF k = 0 THEN base ELSE g[k][h[k - 1]]
    <3> SUFFICES ASSUME NEW k \in 0..(m + 1)
                 PROVE  h[k] = IF k = 0 THEN base ELSE g[k][h[k - 1]]
      OBVIOUS
    <3>1. CASE k = m + 1
      <4>1. k - 1 = m /\ k # 0 /\ h[m] = f[m]
        BY <3>1
      <4> QED BY <3>1, <4>1
    <3>2. CASE k # m + 1
      <4>1. k \in 0..m /\ h[k] = f[k]
        BY <3>2
      <4>2. k # 0 => k - 1 \in 0..m /\ h[k - 1] = f[k - 1]
        BY <3>2
      <4> HIDE DEF h
      <4> QED BY <2>5, <4>1, <4>2
    <3> QED BY <3>1, <3>2
  <2>7. Is(m + 1, h)
    <3>1. DOMAIN h = 0..(m + 1) /\ h = [k \in 0..(m + 1) |-> h[k]]
      OBVIOUS
    <3> HIDE DEF h
    <3> QED BY <2>6, <3>1
  <2> HIDE DEF h
  <2> QED BY <2>2, <2>4, <2>7
<1>3. \A k \in 0..n : k \in D
  <2> HIDE DEF D
  <2>1. \A k \in 0..(n - 1) : k \in D => k + 1 \in D
    BY <1>2
  <2>2. 0 \in Int /\ n \in Int
    OBVIOUS
  <2> QED BY <1>1, <2>1, <2>2, Upwards
<1>4. n \in D
  BY <1>3
<1> QED BY <1>4 DEF IsIterated
-----------------------------------------------------------------------------
(* Samples and time in the entries before e.                                *)
Before(runs, e)     == SumOver(Counts(runs), 1, e - 1)
TimeBefore(runs, e) == SumOver(Spans(runs), 1, e - 1)

SttsEntry == [count : Nat \ {0}, delta : Nat]

(* The runs stand for the m distances between the times d.                  *)
Describes(runs, d, m) ==
    /\ runs \in Seq(SttsEntry)
    /\ Before(runs, Len(runs) + 1) = m
    /\ \A e \in 1..Len(runs) : \A j \in 0..runs[e].count :
          TimeBefore(runs, e) + j * runs[e].delta = d[Before(runs, e) + j + 1] - d[1]

LEMMA BeforeNext ==
    ASSUME NEW runs, Len(runs) \in Nat, \A k \in 1..Len(runs) : runs[k].count \in Nat
    PROVE  /\ Before(runs, 1) = 0
           /\ \A e \in 1..(Len(runs) + 1) : Before(runs, e) \in Nat
           /\ \A e \in 1..Len(runs) : Before(runs, e + 1) = Before(runs, e) + runs[e].count
<1>1. \A k \in 1..Len(runs) : Counts(runs)[k] = runs[k].count
  BY DEF Counts
<1>2. Before(runs, 1) = 0
  BY SumEmpty DEF Before
<1>3. ASSUME NEW e \in 1..(Len(runs) + 1) PROVE Before(runs, e) \in Nat
  <2>1. e - 1 \in Int /\ \A k \in 1..(e - 1) : Counts(runs)[k] \in Nat
    BY <1>1
  <2> QED BY <2>1, SumNat DEF Before
<1>4. ASSUME NEW e \in 1..Len(runs) PROVE Before(runs, e + 1) = Before(runs, e) + runs[e].count
  <2>1. e \in Int /\ 1 <= e /\ (e + 1) - 1 = e /\ 1 \in Int
    OBVIOUS
  <2>2. SumOver(Counts(runs), 1, e) = SumOver(Counts(runs), 1, e - 1) + Counts(runs)[e]
    BY <2>1, SumNext
  <2> QED BY <2>1, <2>2, <1>1 DEF Before
<1> QED BY <1>2, <1>3, <1>4

LEMMA TimeNext ==
    ASSUME NEW runs, Len(runs) \in Nat,
           \A k \in 1..Len(runs) : runs[k].count \in Nat /\ runs[k].delta \in Nat
    PROVE  /\ TimeBefore(runs, 1) = 0
           /\ \A e \in 1..(Len(runs) + 1) : TimeBefore(runs, e) \in Nat
           /\ \A e \in 1..Len(runs) :
                TimeBefore(runs, e + 1) = TimeBefore(runs, e) + runs[e].count * runs[e].delta
<1>1. \A k \in 1..Len(runs) : /\ Spans(runs)[k] = runs[k].count * runs[k].delta
                              /\ Spans(runs)[k] \in Nat
  BY DEF Spans
<1>2. TimeBefore(runs, 1) = 0
  BY SumEmpty DEF TimeBefore
<1>3. ASSUME NEW e \in 1..(Len(runs) + 1) PROVE TimeBefore(runs, e) \in Nat
  <2>1. e - 1 \in Int /\ \A k \in 1..(e - 1) : Spans(runs)[k] \in Nat
    BY <1>1
  <2> QED BY <2>1, SumNat DEF TimeBefore
<1>4. ASSUME NEW e \in 1..Len(runs)
      PROVE  TimeBefore(runs, e + 1) = TimeBefore(runs, e) + runs[e].count * runs[e].delta
  <2>1. e \in Int /\ 1 <= e /\ (e + 1) - 1 = e /\ 1 \in Int
    OBVIOUS
  <2>2. SumOver(Spans(runs), 1, e) = SumOver(Spans(runs), 1, e - 1) + Spans(runs)[e]
    BY <2>1, SumNext
  <2> QED BY <2>1, <2>2, <1>1 DEF TimeBefore
<1> QED BY <1>2, <1>3, <1>4

(* The entries before e are all that the sums before it depend on.          *)
LEMMA BeforeSame ==
    ASSUME NEW runs, NEW more, NEW e \in Nat, e > 0, Len(runs) \in Nat, Len(more) \in Nat,
           e - 1 <= Len(runs), e - 1 <= Len(more), \A k \in 1..(e - 1) : more[k] = runs[k]
    PROVE  Before(more, e) = Before(runs, e) /\ TimeBefore(more, e) = TimeBefore(runs, e)
<1>1. /\ \A k \in 1..(e - 1) : Counts(more)[k] = Counts(runs)[k]
      /\ \A k \in 1..(e - 1) : Spans(more)[k] = Spans(runs)[k]
  BY DEF Counts, Spans
<1>2. e - 1 \in Int /\ 1 \in Int
  OBVIOUS
<1> QED BY <1>1, <1>2, SumSame DEF Before, TimeBefore

LEMMA EntryFields ==
    ASSUME NEW runs \in Seq(SttsEntry)
    PROVE  /\ Len(runs) \in Nat
           /\ \A k \in 1..Len(runs) : /\ runs[k] \in SttsEntry /\ runs[k].count \in Nat
                                      /\ runs[k].count > 0 /\ runs[k].delta \in Nat
<1>1. Len(runs) \in Nat /\ \A k \in 1..Len(runs) : runs[k] \in SttsEntry
  OBVIOUS
<1> QED BY <1>1 DEF SttsEntry

LEMMA DescribesMore ==
    ASSUME NEW runs, NEW more, NEW d, NEW m \in Nat, NEW n \in Nat, Describes(runs, d, m),
           n > 0, n <= Len(runs) + 1,
           more \in Seq(SttsEntry), Len(more) = n, \A k \in 1..(n - 1) : more[k] = runs[k],
           Before(runs, n) + more[n].count = m + 1,
           \A j \in 0..more[n].count :
              TimeBefore(runs, n) + j * more[n].delta = d[Before(runs, n) + j + 1] - d[1]
    PROVE  Describes(more, d, m + 1)
<1>1. /\ Len(runs) \in Nat /\ runs \in Seq(SttsEntry)
      /\ Len(more) \in Nat /\ \A k \in 1..Len(more) : more[k].count \in Nat
  BY EntryFields DEF Describes
<1>2. ASSUME NEW e \in 1..n
      PROVE  Before(more, e) = Before(runs, e) /\ TimeBefore(more, e) = TimeBefore(runs, e)
  <2>1. /\ e \in Nat /\ e > 0 /\ e - 1 <= Len(runs) /\ e - 1 <= Len(more)
        /\ \A k \in 1..(e - 1) : more[k] = runs[k]
    BY <1>1
  <2> QED BY <1>1, <2>1, BeforeSame
<1>3. Before(more, Len(more) + 1) = m + 1
  <2>1. n \in 1..n /\ n \in 1..Len(more)
    OBVIOUS
  <2>2. Before(more, n + 1) = Before(more, n) + more[n].count
    BY <1>1, <2>1, BeforeNext
  <2> QED BY <1>2, <2>1, <2>2
<1>4. ASSUME NEW e \in 1..n, NEW j \in 0..more[e].count
      PROVE  TimeBefore(more, e) + j * more[e].delta = d[Before(more, e) + j + 1] - d[1]
  <2>1. CASE e = n
    BY <1>2, <2>1
  <2>2. CASE e # n
    <3>1. e \in 1..(n - 1) /\ e \in 1..Len(runs) /\ more[e] = runs[e]
      BY <1>1, <2>2
    <3>2. TimeBefore(runs, e) + j * runs[e].delta = d[Before(runs, e) + j + 1] - d[1]
      BY <3>1 DEF Describes
    <3> QED BY <1>2, <3>1, <3>2
  <2> QED BY <2>1, <2>2
<1> QED BY <1>3, <1>4 DEF Describes

(* Where the last run ends.                                                 *)
LEMMA DescribedEnd ==
    ASSUME NEW runs, NEW d, NEW m \in Nat, Describes(runs, d, m), d[1] \in Nat
    PROVE  TimeBefore(runs, Len(runs) + 1) = d[m + 1] - d[1]
<1>1. /\ Len(runs) \in Nat
      /\ \A k \in 1..Len(runs) : /\ runs[k].count \in Nat /\ runs[k].count > 0
                                 /\ runs[k].delta \in Nat
  BY EntryFields DEF Describes
<1>2. CASE Len(runs) = 0
  <2>1. Before(runs, 1) = 0 /\ TimeBefore(runs, 1) = 0 /\ m = 0
    BY <1>1, <1>2, BeforeNext, TimeNext DEF Describes
  <2> QED BY <1>2, <2>1
<1>3. CASE Len(runs) # 0
  <2> DEFINE n == Len(runs)
  <2>1. n \in 1..Len(runs) /\ runs[n].count \in 0..runs[n].count
    BY <1>1, <1>3
  <2>2. Before(runs, n + 1) = Before(runs, n) + runs[n].count /\ Before(runs, n + 1) = m
    BY <1>1, <2>1, BeforeNext DEF Describes
  <2>3. TimeBefore(runs, n + 1) = TimeBefore(runs, n) + runs[n].count * runs[n].delta
    BY <1>1, <2>1, TimeNext
  <2>4. TimeBefore(runs, n) + runs[n].count * runs[n].delta
            = d[Before(runs, n) + runs[n].count + 1] - d[1]
    BY <2>1 DEF Describes
  <2> QED BY <2>2, <2>3, <2>4
<1> QED BY <1>2, <1>3

LEMMA OneLonger ==
    ASSUME NEW r \in SttsEntry
    PROVE  /\ [r EXCEPT !.count = @ + 1] \in SttsEntry
           /\ [r EXCEPT !.count = @ + 1].count = r.count + 1
           /\ [r EXCEPT !.count = @ + 1].delta = r.delta
BY DEF SttsEntry

LEMMA SumMoved ==
    ASSUME NEW t \in Nat, NEW x \in Nat, NEW w \in Nat, NEW a \in Nat, NEW b \in Nat,
           NEW z \in Nat, t + x = a - b, w + a = z
    PROVE  t + (x + w) = z - b
OBVIOUS

LEMMA TimesNext ==
    ASSUME NEW c \in Nat, NEW x \in Nat
    PROVE  (c + 1) * x = c * x + x /\ c * x \in Nat
OBVIOUS

(* One more distance.                                                       *)
LEMMA DeltaAdded ==
    ASSUME NEW runs, NEW d, NEW m \in Nat, Describes(runs, d, m),
           d[1] \in Nat, d[m + 1] \in Nat, d[m + 2] \in Nat, d[m + 1] <= d[m + 2]
    PROVE  Describes(AddDelta(runs, d[m + 2] - d[m + 1]), d, m + 1)
<1> DEFINE delta == d[m + 2] - d[m + 1]
           n == Len(runs)
<1>1. /\ runs \in Seq(SttsEntry) /\ n \in Nat /\ delta \in Nat
      /\ \A k \in 1..n : /\ runs[k] \in SttsEntry /\ runs[k].count \in Nat
                         /\ runs[k].count > 0 /\ runs[k].delta \in Nat
  BY EntryFields DEF Describes
<1>2. Before(runs, n + 1) = m /\ TimeBefore(runs, n + 1) = d[m + 1] - d[1]
  BY DescribedEnd DEF Describes
<1>3. CASE runs # << >> /\ Final(runs).delta = delta
  <2> DEFINE more == [runs EXCEPT ![n].count = @ + 1]
  <2>1. n \in 1..n /\ n > 0
    BY <1>1, <1>3
  <2>2. runs[n].delta = delta
    BY <1>3 DEF Final
  <2>3. [runs[n] EXCEPT !.count = @ + 1] \in SttsEntry
    BY <1>1, <2>1, OneLonger
  <2>4. more \in Seq(SttsEntry) /\ Len(more) = n /\ \A k \in 1..(n - 1) : more[k] = runs[k]
    BY <1>1, <2>1, <2>3
  <2>5. more[n].count = runs[n].count + 1 /\ more[n].delta = delta
    BY <1>1, <2>1, <2>2 DEF SttsEntry
  <2>8. AddDelta(runs, delta) = more
    BY <1>3 DEF AddDelta
  <2> HIDE DEF more
  <2>6. /\ Before(runs, n) \in Nat /\ Before(runs, n) + runs[n].count = m
        /\ TimeBefore(runs, n) \in Nat
        /\ TimeBefore(runs, n) + runs[n].count * delta = d[m + 1] - d[1]
    <3>1. n \in 1..(n + 1)
      BY <2>1
    <3>2. /\ Before(runs, n) \in Nat /\ Before(runs, n + 1) = Before(runs, n) + runs[n].count
      BY <1>1, <2>1, <3>1, BeforeNext
    <3>3. /\ TimeBefore(runs, n) \in Nat
          /\ TimeBefore(runs, n + 1) = TimeBefore(runs, n) + runs[n].count * runs[n].delta
      BY <1>1, <2>1, <3>1, TimeNext
    <3> QED BY <1>2, <2>2, <3>2, <3>3
  <2>6a. /\ Before(runs, n) \in Nat /\ Before(runs, n) + runs[n].count = m
    BY <2>6
  <2>7. ASSUME NEW j \in 0..more[n].count
        PROVE  TimeBefore(runs, n) + j * more[n].delta = d[Before(runs, n) + j + 1] - d[1]
    <3>1. CASE j \in 0..runs[n].count
      <4>1. TimeBefore(runs, n) + j * runs[n].delta = d[Before(runs, n) + j + 1] - d[1]
        BY <2>1, <3>1 DEF Describes
      <4> QED BY <4>1, <2>2, <2>5
    <3>2. CASE j \notin 0..runs[n].count
      <4>1. j = runs[n].count + 1 /\ runs[n].count \in Nat
        BY <1>1, <2>1, <2>5, <3>2
      <4> DEFINE c == runs[n].count
      <4>2. (c + 1) * delta = c * delta + delta /\ c * delta \in Nat
        BY <1>1, <4>1, TimesNext
      <4>3. TimeBefore(runs, n) + (c + 1) * delta = d[m + 2] - d[1]
        <5>1. /\ TimeBefore(runs, n) \in Nat /\ c * delta \in Nat /\ delta \in Nat
              /\ TimeBefore(runs, n) + c * delta = d[m + 1] - d[1]
              /\ delta + d[m + 1] = d[m + 2]
          BY <1>1, <2>6, <4>2
        <5>2. TimeBefore(runs, n) + (c * delta + delta) = d[m + 2] - d[1]
          <6> DEFINE T == TimeBefore(runs, n)
                     y == c * delta
                     a == d[m + 1]
                     b == d[1]
                     z == d[m + 2]
          <6>1. /\ T \in Nat /\ y \in Nat /\ delta \in Nat
                /\ a \in Nat /\ b \in Nat /\ z \in Nat
                /\ T + y = a - b /\ delta + a = z
            BY <5>1
          <6> HIDE DEF c, delta, T, y, a, b, z
          <6>2. T + (y + delta) = z - b
            BY <6>1, SumMoved
          <6> QED BY <6>2 DEF T, y, b, z
        <5> QED BY <4>2, <5>2
      <4>4. Before(runs, n) + j + 1 = m + 2
        <5> DEFINE b == Before(runs, n)
        <5>1. b \in Nat /\ c \in Nat /\ b + c = m /\ j = c + 1
          BY <2>6a, <4>1
        <5> HIDE DEF b, c
        <5>2. b + j + 1 = m + 2
          BY <5>1
        <5> QED BY <5>2 DEF b
      <4> QED BY <2>5, <4>1, <4>3, <4>4
    <3> QED BY <3>1, <3>2
  <2>9. Before(runs, n) + more[n].count = m + 1 /\ n <= n + 1
    BY <1>1, <2>1, <2>5, <2>6a
  <2> HIDE DEF delta
  <2>10. Describes(more, d, m + 1)
    BY <1>1, <2>1, <2>4, <2>7, <2>9, DescribesMore
  <2> QED BY <2>8, <2>10 DEF delta
<1>4. CASE ~(runs # << >> /\ Final(runs).delta = delta)
  <2> DEFINE new == [count |-> 1, delta |-> delta]
             more == Append(runs, new)
  <2>1. new \in SttsEntry
    BY <1>1 DEF SttsEntry
  <2>2. /\ more \in Seq(SttsEntry) /\ Len(more) = n + 1 /\ \A k \in 1..n : more[k] = runs[k]
        /\ more[n + 1] = new
    <3> HIDE DEF new
    <3> QED BY <1>1, <2>1
  <2>3. more[n + 1].count = 1 /\ more[n + 1].delta = delta
    <3> HIDE DEF more
    <3> QED BY <2>2
  <2>4. ASSUME NEW j \in 0..more[n + 1].count
        PROVE  TimeBefore(runs, n + 1) + j * more[n + 1].delta
                  = d[Before(runs, n + 1) + j + 1] - d[1]
    <3>1. (j = 0 \/ j = 1) /\ more[n + 1].delta = delta
      BY <2>3
    <3>2. 0 * delta = 0 /\ 1 * delta = delta
      BY <1>1
    <3>3. CASE j = 0
      <4>1. j * more[n + 1].delta = 0 /\ m + 0 + 1 = m + 1
        BY <3>1, <3>2, <3>3
      <4> HIDE DEF more, delta
      <4> QED BY <1>2, <3>3, <4>1
    <3>4. CASE j = 1
      <4>1. j * more[n + 1].delta = delta /\ m + 1 + 1 = m + 2
        BY <3>1, <3>2, <3>4
      <4> HIDE DEF more
      <4> QED BY <1>2, <3>4, <4>1
    <3> QED BY <3>1, <3>3, <3>4
  <2>5. AddDelta(runs, delta) = more
    BY <1>4 DEF AddDelta
  <2>6. /\ n + 1 \in Nat /\ n + 1 > 0 /\ n + 1 <= Len(runs) + 1 /\ (n + 1) - 1 = n
        /\ Before(runs, n + 1) + more[n + 1].count = m + 1
    BY <1>1, <1>2, <2>3
  <2> HIDE DEF more, delta
  <2>7. Describes(more, d, m + 1)
    BY <2>2, <2>4, <2>6, DescribesMore
  <2> QED BY <2>5, <2>7 DEF delta
<1> QED BY <1>3, <1>4

-----------------------------------------------------------------------------
LEMMA BeforeGrows ==
    ASSUME NEW runs, Len(runs) \in Nat, \A k \in 1..Len(runs) : runs[k].count \in Nat,
           NEW e \in 1..(Len(runs) + 1), NEW k \in e..(Len(runs) + 1)
    PROVE  Before(runs, e) <= Before(runs, k)
<1> DEFINE S == {i \in e..(Len(runs) + 1) : Before(runs, e) <= Before(runs, i)}
<1>1. \A i \in 1..(Len(runs) + 1) : Before(runs, i) \in Nat
  BY BeforeNext
<1>2. e \in S
  BY <1>1
<1>3. ASSUME NEW i \in e..(k - 1), i \in S PROVE i + 1 \in S
  <2>1. i \in 1..Len(runs) /\ i + 1 \in e..(Len(runs) + 1)
    OBVIOUS
  <2>2. Before(runs, i + 1) = Before(runs, i) + runs[i].count /\ runs[i].count \in Nat
    BY <2>1, BeforeNext
  <2>3. /\ Before(runs, e) <= Before(runs, i) /\ Before(runs, e) \in Nat
        /\ Before(runs, i) \in Nat /\ Before(runs, i + 1) \in Nat
    BY <1>1, <1>3, <2>1
  <2> QED BY <2>1, <2>2, <2>3
<1>4. \A i \in e..k : i \in S
  <2> HIDE DEF S
  <2>1. e \in Int /\ k \in Int /\ \A i \in e..(k - 1) : i \in S => i + 1 \in S
    BY <1>3
  <2> QED BY <1>2, <2>1, Upwards
<1> QED BY <1>4

(* Sample j of entry e is one of those described.                           *)
LEMMA InRange ==
    ASSUME NEW runs, Len(runs) \in Nat, \A k \in 1..Len(runs) : runs[k].count \in Nat,
           NEW e \in 1..Len(runs), NEW j \in 0..runs[e].count
    PROVE  /\ Before(runs, e) \in Nat
           /\ Before(runs, e) + j <= Before(runs, Len(runs) + 1)
<1>1. e + 1 \in 1..(Len(runs) + 1) /\ Len(runs) + 1 \in (e + 1)..(Len(runs) + 1)
  OBVIOUS
<1>2. Before(runs, e + 1) <= Before(runs, Len(runs) + 1)
  BY <1>1, BeforeGrows
<1>3. /\ Before(runs, e + 1) = Before(runs, e) + runs[e].count /\ runs[e].count \in Nat
      /\ Before(runs, e) \in Nat /\ Before(runs, Len(runs) + 1) \in Nat
  BY <1>1, BeforeNext
<1> QED BY <1>2, <1>3

LEMMA DescribesSame ==
    ASSUME NEW runs, NEW d, NEW c, NEW m \in Nat, Describes(runs, d, m),
           \A i \in 1..(m + 1) : c[i] = d[i]
    PROVE  Describes(runs, c, m)
<1>1. Len(runs) \in Nat /\ \A k \in 1..Len(runs) : runs[k].count \in Nat
  BY EntryFields DEF Describes
<1>2. ASSUME NEW e \in 1..Len(runs), NEW j \in 0..runs[e].count
      PROVE  TimeBefore(runs, e) + j * runs[e].delta = c[Before(runs, e) + j + 1] - c[1]
  <2>1. Before(runs, e) \in Nat /\ Before(runs, e) + j <= m
    BY <1>1, InRange DEF Describes
  <2>2. /\ j \in Nat
    BY <1>1
  <2>3. Before(runs, e) + j + 1 \in 1..(m + 1) /\ 1 \in 1..(m + 1)
    BY <2>1, <2>2
  <2>4. TimeBefore(runs, e) + j * runs[e].delta = d[Before(runs, e) + j + 1] - d[1]
    BY DEF Describes
  <2> QED BY <2>3, <2>4
<1> QED BY <1>2 DEF Describes

LEMMA AddDeltaType ==
    ASSUME NEW runs \in Seq(SttsEntry), NEW x \in Nat
    PROVE  AddDelta(runs, x) \in Seq(SttsEntry)
<1>1. CASE runs # << >> /\ Final(runs).delta = x
  <2>1. Len(runs) \in 1..Len(runs) /\ runs[Len(runs)] \in SttsEntry
    BY <1>1
  <2>2. [runs[Len(runs)] EXCEPT !.count = @ + 1] \in SttsEntry
    BY <2>1, OneLonger
  <2>3. [runs EXCEPT ![Len(runs)] = [runs[Len(runs)] EXCEPT !.count = @ + 1]] \in Seq(SttsEntry)
    BY <2>1, <2>2
  <2> QED BY <1>1, <2>3 DEF AddDelta
<1>2. CASE ~(runs # << >> /\ Final(runs).delta = x)
  <2>1. [count |-> 1, delta |-> x] \in SttsEntry
    BY DEF SttsEntry
  <2> QED BY <1>2, <2>1 DEF AddDelta
<1> QED BY <1>1, <1>2

(* The function that DeltaRuns is the last value of.                        *)
IsDeltas(t, h) ==
    h = [i \in 0..(sampleNum(t) - 1) |->
            IF i = 0 THEN << >> ELSE AddDelta(h[i - 1], t.dts[i + 1] - t.dts[i])]

DeltaRun == [count : Nat, delta : Int]

LEMMA AddDeltaRun ==
    ASSUME NEW runs \in Seq(DeltaRun), NEW x \in Int
    PROVE  /\ AddDelta(runs, x) \in Seq(DeltaRun)
           /\ Len(AddDelta(runs, x)) \in 1..(Len(runs) + 1)
<1>1. CASE runs # << >> /\ Final(runs).delta = x
  <2>1. Len(runs) \in 1..Len(runs) /\ runs[Len(runs)] \in DeltaRun
    BY <1>1
  <2> DEFINE r == [runs[Len(runs)] EXCEPT !.count = @ + 1]
  <2>2. r \in DeltaRun
    BY <2>1 DEF DeltaRun
  <2>3. AddDelta(runs, x) = [runs EXCEPT ![Len(runs)] = r]
    BY <1>1 DEF AddDelta
  <2> HIDE DEF r
  <2> QED BY <2>1, <2>2, <2>3
<1>2. CASE ~(runs # << >> /\ Final(runs).delta = x)
  <2> DEFINE r == [count |-> 1, delta |-> x]
  <2>1. r \in DeltaRun
    BY DEF DeltaRun
  <2>2. AddDelta(runs, x) = Append(runs, r)
    BY <1>2 DEF AddDelta
  <2> HIDE DEF r
  <2> QED BY <2>1, <2>2
<1> QED BY <1>1, <1>2

LEMMA DeltasExist ==
    ASSUME NEW t, t.dts \in Seq(Nat), sampleNum(t) > 0
    PROVE  \E h : IsDeltas(t, h)
<1> DEFINE n == sampleNum(t) - 1
           S == Seq(DeltaRun)
           d(k) == t.dts[k + 1] - t.dts[k]
           g == [k \in 1..n |-> [x \in S |-> AddDelta(x, d(k))]]
<1>1. n \in Nat
  BY DEF sampleNum
<1>2. ASSUME NEW k \in 1..n PROVE d(k) \in Int
  <2>1. k \in 1..Len(t.dts) /\ k + 1 \in 1..Len(t.dts)
    BY DEF sampleNum
  <2>2. t.dts[k] \in Nat /\ t.dts[k + 1] \in Nat
    BY <2>1
  <2> QED BY <2>2
<1> HIDE DEF n, d
<1>3. g \in [1..n -> [S -> S]]
  BY <1>2, AddDeltaRun
<1>4. << >> \in S
  OBVIOUS
<1> HIDE DEF S, g
<1>5. PICK f \in [0..n -> S] : IsIterated(n, << >>, g, f)
  BY <1>1, <1>3, <1>4, Iterates
<1>6. ASSUME NEW k \in 0..n, k # 0 PROVE g[k][f[k - 1]] = AddDelta(f[k - 1], d(k))
  <2>1. k \in 1..n /\ k - 1 \in 0..n
    BY <1>1, <1>6
  <2>2. f[k - 1] \in S
    BY <2>1
  <2> QED BY <2>1, <2>2 DEF g
<1>7. f = [k \in 0..n |-> IF k = 0 THEN << >> ELSE AddDelta(f[k - 1], d(k))]
  BY <1>5, <1>6 DEF IsIterated
<1> QED BY <1>7 DEF IsDeltas, n, d

LEMMA DeltaRunsDescribe ==
    ASSUME NEW t, IsIntaken(t)
    PROVE  Describes(DeltaRuns(t), t.dts, sampleNum(t) - 1)
<1> DEFINE n == sampleNum(t) - 1
<1>1. /\ n \in Nat /\ t.dts \in Seq(Nat) /\ Len(t.dts) = n + 1
      /\ \A i \in 1..(n + 1) : t.dts[i] \in Nat
      /\ \A i \in 1..n : t.dts[i] <= t.dts[i + 1]
  <2>1. /\ t.dts \in Seq(Nat) /\ Len(t.dts) > 0
        /\ \A i \in 1..(Len(t.dts) - 1) : t.dts[i] < t.dts[i + 1]
    BY DEF IsIntaken, sampleNum
  <2> QED BY <2>1 DEF sampleNum
<1> HIDE DEF n
<1>3. \E h : IsDeltas(t, h)
  <2>1. sampleNum(t) \in Nat /\ sampleNum(t) > 0
    BY <1>1 DEF sampleNum
  <2> QED BY <1>1, <2>1, DeltasExist
<1> DEFINE h == CHOOSE x : IsDeltas(t, x)
<1>4. IsDeltas(t, h)
  BY <1>3
<1>5. DeltaRuns(t) = h[n]
  <2>1. sampleNum(t) # 0
    BY <1>1 DEF n
  <2> QED BY <2>1 DEF DeltaRuns, IsDeltas, n
<1> HIDE DEF h
<1>6. \A k \in 0..n : h[k] = IF k = 0 THEN << >> ELSE AddDelta(h[k - 1], t.dts[k + 1] - t.dts[k])
  <2> DEFINE r == [k \in 0..n |-> IF k = 0 THEN << >>
                                  ELSE AddDelta(h[k - 1], t.dts[k + 1] - t.dts[k])]
  <2>1. h = r
    BY <1>4 DEF IsDeltas, n
  <2>2. \A k \in 0..n : r[k] = IF k = 0 THEN << >>
                               ELSE AddDelta(h[k - 1], t.dts[k + 1] - t.dts[k])
    OBVIOUS
  <2> HIDE DEF r
  <2> QED BY <2>1, <2>2
<1> DEFINE D == {k \in Nat : Describes(h[k], t.dts, k)}
<1>7. 0 \in D
  <2>1. h[0] = << >>
    BY <1>1, <1>6
  <2>2. Len(<< >>) = 0 /\ 0 + 1 = 1 /\ << >> \in Seq(SttsEntry) /\ 1..0 = {}
    OBVIOUS
  <2>3. Before(<< >>, 1) = 0
    BY SumEmpty DEF Before
  <2>4. Describes(<< >>, t.dts, 0)
    BY <2>2, <2>3 DEF Describes
  <2> QED BY <2>1, <2>4
<1>8. ASSUME NEW k \in 0..(n - 1), k \in D PROVE k + 1 \in D
  <2>1. k \in Nat /\ k + 1 \in 1..n /\ k + 1 \in 0..n /\ (k + 1) - 1 = k /\ k + 1 # 0
    BY <1>1
  <2>2. h[k + 1] = AddDelta(h[k], t.dts[k + 2] - t.dts[k + 1])
    <3>1. (k + 1) + 1 = k + 2
      BY <2>1
    <3> QED BY <1>6, <2>1, <3>1
  <2>3. /\ t.dts[1] \in Nat /\ t.dts[k + 1] \in Nat /\ t.dts[k + 2] \in Nat
        /\ t.dts[k + 1] <= t.dts[k + 2]
    <3>1. 1 \in 1..(n + 1) /\ k + 1 \in 1..(n + 1) /\ k + 2 \in 1..(n + 1) /\ (k + 1) + 1 = k + 2
      BY <1>1
    <3> QED BY <1>1, <2>1, <3>1
  <2>4. Describes(h[k], t.dts, k)
    BY <1>8
  <2>5. Describes(AddDelta(h[k], t.dts[k + 2] - t.dts[k + 1]), t.dts, k + 1)
    BY <2>1, <2>3, <2>4, DeltaAdded
  <2> QED BY <2>1, <2>2, <2>5
<1>9. n \in D
  <2> HIDE DEF D
  <2>1. 0 \in Int /\ n \in Int /\ \A k \in 0..(n - 1) : k \in D => k + 1 \in D
    BY <1>1, <1>8
  <2>2. \A k \in 0..n : k \in D
    BY <1>7, <2>1, Upwards
  <2> QED BY <1>1, <2>2
<1> QED BY <1>5, <1>9 DEF n

(* The last sample's distance to the end of the track, as written, and the  *)
(* times that the table is about.                                           *)
LastDelta(t) ==
    IF sampleNum(t) = 1 THEN 0
    ELSE IF t.duration - Final(t.dts) >= 0 THEN t.duration - Final(t.dts)
    ELSE Final(DeltaRuns(t)).delta

Ends(t) == [i \in 1..(sampleNum(t) + 1) |->
               IF i <= sampleNum(t) THEN t.dts[i] ELSE Final(t.dts) + LastDelta(t)]

LEMMA SttsDescribes ==
    ASSUME NEW t, IsIntaken(t)
    PROVE  /\ LastDelta(t) \in Nat
           /\ Describes(Stts(t), Ends(t), sampleNum(t))
<1> DEFINE n == sampleNum(t)
           runs == DeltaRuns(t)
           x == LastDelta(t)
           last == t.duration - Final(t.dts)
<1>1. /\ n \in Nat /\ n > 0 /\ n = Len(t.dts) /\ \A i \in 1..n : t.dts[i] \in Nat
      /\ t.duration \in Int
  <2>1. t.dts \in Seq(Nat) /\ Len(t.dts) > 0 /\ t.duration \in Int
    BY DEF IsIntaken, sampleNum
  <2> QED BY <2>1 DEF sampleNum
<1>2. Describes(runs, t.dts, n - 1) /\ n - 1 \in Nat
  BY <1>1, DeltaRunsDescribe
<1>3. /\ runs \in Seq(SttsEntry) /\ Len(runs) \in Nat
      /\ Before(runs, Len(runs) + 1) = n - 1
      /\ \A k \in 1..Len(runs) : /\ runs[k].count \in Nat /\ runs[k].count > 0
                                 /\ runs[k].delta \in Nat
  BY <1>2, EntryFields DEF Describes
<1>0. n = 1 \/ n > 1
  <2> HIDE DEF n
  <2>1. n \in Nat /\ n > 0
    BY <1>1
  <2> QED BY <2>1
<1> HIDE DEF n, runs, x
<1>4. n = 1 => runs = << >>
  <2> SUFFICES ASSUME n = 1, Len(runs) > 0 PROVE FALSE
    BY <1>3
  <2>1. Len(runs) \in 1..Len(runs) /\ Len(runs) \in 1..(Len(runs) + 1)
    BY <1>3
  <2>2. /\ Before(runs, Len(runs) + 1) = Before(runs, Len(runs)) + runs[Len(runs)].count
        /\ Before(runs, Len(runs)) \in Nat
    BY <1>3, <2>1, BeforeNext
  <2> QED BY <1>3, <2>1, <2>2
<1>5. n > 1 => runs # << >>
  <2> SUFFICES ASSUME n > 1, runs = << >> PROVE FALSE
    OBVIOUS
  <2>1. Len(runs) + 1 = 1 /\ Before(runs, 1) = 0
    BY <1>3, BeforeNext
  <2> QED BY <1>1, <1>3, <2>1
<1>6. Final(t.dts) \in Nat /\ last \in Int
  BY <1>1 DEF Final
<1>7. n > 1 => Final(runs).delta \in Nat
  BY <1>3, <1>5 DEF Final
<1>8. x \in Nat
  <2>1. CASE n = 1
    BY <2>1 DEF LastDelta, x, n
  <2>2. CASE n > 1 /\ last >= 0
    <3>1. x = last
      BY <2>2 DEF LastDelta, x, n
    <3> QED BY <1>6, <2>2, <3>1
  <2>3. CASE n > 1 /\ ~(last >= 0)
    <3>1. x = Final(runs).delta
      BY <2>3 DEF LastDelta, x, n, runs
    <3> QED BY <1>7, <2>3, <3>1
  <2> HIDE DEF last
  <2> QED BY <1>0, <2>1, <2>2, <2>3
<1>9. Stts(t) = AddDelta(runs, x)
  <2>1. CASE n = 1
    <3>1. x = 0
      BY <2>1 DEF LastDelta, x, n
    <3>2. Stts(t) = << [count |-> 1, delta |-> 0] >>
      BY <2>1 DEF Stts, n
    <3>3. AddDelta(runs, 0) = << [count |-> 1, delta |-> 0] >>
      BY <1>4, <2>1 DEF AddDelta
    <3> QED BY <3>1, <3>2, <3>3
  <2>2. CASE n > 1 /\ last # Final(runs).delta /\ last >= 0
    <3>1. x = last
      BY <2>2 DEF LastDelta, x, n
    <3>2. Stts(t) = Append(runs, [count |-> 1, delta |-> last])
      <4> DEFINE pending == IF runs = << >> THEN [count |-> 0, delta |-> 0] ELSE Final(runs)
      <4>1. pending.delta = Final(runs).delta /\ ~(n = 1)
        BY <1>5, <2>2
      <4>2. sampleNum(t) > 1 /\ last # pending.delta /\ last >= 0 /\ ~(sampleNum(t) = 1)
        BY <4>1, <2>2 DEF n
      <4> QED BY <4>2 DEF Stts, runs
    <3> QED BY <2>2, <3>1, <3>2 DEF AddDelta
  <2>3. CASE n > 1 /\ ~(last # Final(runs).delta /\ last >= 0)
    <3>1. x = Final(runs).delta
      <4>1. CASE last >= 0
        BY <2>3, <4>1 DEF LastDelta, x, n, runs
      <4>2. CASE ~(last >= 0)
        BY <2>3, <4>2 DEF LastDelta, x, n, runs
      <4> QED BY <4>1, <4>2
    <3>2. Stts(t) = [runs EXCEPT ![Len(runs)].count = @ + 1]
      <4> DEFINE pending == IF runs = << >> THEN [count |-> 0, delta |-> 0] ELSE Final(runs)
      <4>1. pending.delta = Final(runs).delta /\ ~(n = 1)
        BY <1>5, <2>3
      <4>2. ~(sampleNum(t) > 1 /\ last # pending.delta /\ last >= 0) /\ ~(sampleNum(t) = 1)
        BY <4>1, <2>3 DEF n
      <4> QED BY <4>2 DEF Stts, runs
    <3> QED BY <1>5, <2>3, <3>1, <3>2 DEF AddDelta
  <2> HIDE DEF last
  <2> QED BY <1>0, <2>1, <2>2, <2>3
<1> DEFINE d == Ends(t)
<1>10. /\ \A i \in 1..n : d[i] = t.dts[i]
       /\ d[n + 1] = t.dts[n] + x
  <2>1. Final(t.dts) = t.dts[n] /\ n + 1 \in 1..(n + 1) /\ ~(n + 1 <= n)
    BY <1>1 DEF Final
  <2> QED BY <1>1, <2>1 DEF Ends, n, x
<1> HIDE DEF d
<1>11. Describes(runs, d, n - 1)
  <2>1. \A i \in 1..((n - 1) + 1) : d[i] = t.dts[i]
    BY <1>1, <1>10
  <2> QED BY <1>2, <2>1, DescribesSame
<1>12. /\ d[1] \in Nat /\ d[(n - 1) + 1] \in Nat /\ d[(n - 1) + 2] \in Nat
       /\ d[(n - 1) + 1] <= d[(n - 1) + 2] /\ d[(n - 1) + 2] - d[(n - 1) + 1] = x
  <2>1. 1 \in 1..n /\ n \in 1..n /\ (n - 1) + 1 = n /\ (n - 1) + 2 = n + 1
    BY <1>1
  <2>2. t.dts[n] \in Nat /\ t.dts[1] \in Nat /\ d[n] = t.dts[n] /\ d[1] = t.dts[1]
    BY <1>1, <1>10, <2>1
  <2> QED BY <1>8, <1>10, <2>1, <2>2
<1>13. Describes(AddDelta(runs, d[(n - 1) + 2] - d[(n - 1) + 1]), d, (n - 1) + 1)
  BY <1>2, <1>11, <1>12, DeltaAdded
<1>14. Describes(AddDelta(runs, x), d, n)
  <2>1. (n - 1) + 1 = n
    BY <1>1
  <2> QED BY <1>12, <1>13, <2>1
<1> QED BY <1>8, <1>9, <1>14 DEF x, d, n

-----------------------------------------------------------------------------
(* What a query finds from a cursor on.                                     *)
LEMMA FirstFound ==
    ASSUME NEW c, NEW n \in Int, NEW Found, c.entry \in Nat, c.entry <= n + 1
    PROVE  LET e == FirstFrom(c, n, Found)
           IN  /\ e \in c.entry..(n + 1) /\ (e <= n => e \in Found)
               /\ \A k \in c.entry..(e - 1) : k \notin Found
<1> DEFINE S == {k \in c.entry..(n + 1) : k <= n => k \in Found}
<1>1. S \subseteq Nat /\ n + 1 \in S
  OBVIOUS
<1>2. PICK m \in S : \A k \in S : m <= k
  BY <1>1, Least
<1>3. \A k \in c.entry..(m - 1) : k \notin Found
  <2> SUFFICES ASSUME NEW k \in c.entry..(m - 1), k \in Found PROVE FALSE
    OBVIOUS
  <2>1. k \in S
    OBVIOUS
  <2>2. m <= k
    BY <1>2, <2>1
  <2> QED BY <2>2
<1>4. \E e \in c.entry..(n + 1) : /\ e <= n => e \in Found
                                  /\ \A k \in c.entry..(e - 1) : k \notin Found
  BY <1>3
<1> HIDE DEF S
<1> QED BY <1>4 DEF FirstFrom

LEMMA Located ==
    ASSUME NEW c, NEW n \in Nat, c.entry \in 1..(n + 1), NEW B, NEW x \in Int, NEW Found,
           \A k \in 1..(n + 1) : B[k] \in Int, B[c.entry] <= x,
           \A k \in c.entry..n : k \in Found <=> x < B[k + 1]
    PROVE  LET e == FirstFrom(c, n, Found)
           IN  e \in c.entry..(n + 1) /\ B[e] <= x /\ (e <= n => x < B[e + 1])
<1> DEFINE e == FirstFrom(c, n, Found)
<1>1. /\ e \in c.entry..(n + 1) /\ (e <= n => e \in Found)
      /\ \A k \in c.entry..(e - 1) : k \notin Found
  BY FirstFound
<1> HIDE DEF e
<1>2. e <= n => x < B[e + 1]
  BY <1>1
<1>3. B[e] <= x
  <2>1. CASE e = c.entry
    BY <2>1
  <2>2. CASE e # c.entry
    <3>1. e - 1 \in c.entry..(e - 1) /\ e - 1 \in c.entry..n /\ (e - 1) + 1 = e
      BY <1>1, <2>2
    <3>2. ~(x < B[e])
      BY <1>1, <3>1
    <3>3. B[e] \in Int
      BY <1>1
    <3> QED BY <3>2, <3>3
  <2> QED BY <2>1, <2>2
<1> QED BY <1>1, <1>2, <1>3 DEF e

(* From the sum at one entry to the sum at another.                         *)
LEMMA SumOn ==
    ASSUME NEW v, NEW n \in Nat, \A k \in 1..n : v[k] \in Nat,
           NEW a \in 1..(n + 1), NEW e \in a..(n + 1)
    PROVE  SumOver(v, 1, a - 1) + SumOver(v, a, e - 1) = SumOver(v, 1, e - 1)
<1>1. /\ 1 \in Int /\ e - 1 \in Int /\ a - 1 \in (1 - 1)..(e - 1) /\ (a - 1) + 1 = a
      /\ \A k \in 1..(e - 1) : v[k] \in Nat
  OBVIOUS
<1> QED BY <1>1, SumSplit

(* A cursor of stts is at its entry.                                        *)
SttsSits(c) ==
    /\ c.entry \in 1..(Len(tables.stts) + 1)
    /\ c.idx0 = Before(tables.stts, c.entry)
    /\ c.acc = TimeBefore(tables.stts, c.entry)

LEMMA SttsMoves ==
    ASSUME tables.stts \in Seq(SttsEntry), NEW c, SttsSits(c),
           NEW e \in c.entry..(Len(tables.stts) + 1)
    PROVE  /\ SttsSits(SkipTo(c, e))
           /\ SkipTo(c, e) = [entry |-> e, idx0 |-> Before(tables.stts, e),
                              acc |-> TimeBefore(tables.stts, e)]
<1> DEFINE n == Len(tables.stts)
<1>1. /\ n \in Nat
      /\ \A k \in 1..n : /\ Counts(tables.stts)[k] \in Nat
                         /\ Spans(tables.stts)[k] \in Nat
  <2>1. n \in Nat /\ \A k \in 1..n : tables.stts[k].count \in Nat /\ tables.stts[k].delta \in Nat
    BY EntryFields
  <2> QED BY <2>1 DEF Counts, Spans
<1>2. c.entry \in 1..(n + 1) /\ e \in 1..(n + 1)
  BY <1>1 DEF SttsSits
<1>3. /\ Before(tables.stts, c.entry) + SumOver(Counts(tables.stts), c.entry, e - 1)
            = Before(tables.stts, e)
      /\ TimeBefore(tables.stts, c.entry) + SumOver(Spans(tables.stts), c.entry, e - 1)
            = TimeBefore(tables.stts, e)
  BY <1>1, <1>2, SumOn DEF Before, TimeBefore
<1>4. SkipTo(c, e) = [entry |-> e, idx0 |-> Before(tables.stts, e),
                      acc |-> TimeBefore(tables.stts, e)]
  BY <1>3 DEF SkipTo, SttsSits
<1> QED BY <1>2, <1>4 DEF SttsSits

LEMMA SttsTable ==
    ASSUME tables.stts \in Seq(SttsEntry)
    PROVE  /\ Len(tables.stts) \in Nat
           /\ \A k \in 1..Len(tables.stts) : /\ tables.stts[k].count \in Nat
                                             /\ tables.stts[k].delta \in Nat
           /\ \A k \in 1..(Len(tables.stts) + 1) : /\ Before(tables.stts, k) \in Nat
                                                   /\ TimeBefore(tables.stts, k) \in Nat
           /\ Before(tables.stts, 1) = 0 /\ TimeBefore(tables.stts, 1) = 0
           /\ SttsSits(SttsStart)
<1>1. /\ Len(tables.stts) \in Nat
      /\ \A k \in 1..Len(tables.stts) : /\ tables.stts[k].count \in Nat
                                        /\ tables.stts[k].delta \in Nat
  BY EntryFields
<1>2. /\ \A k \in 1..(Len(tables.stts) + 1) : /\ Before(tables.stts, k) \in Nat
                                              /\ TimeBefore(tables.stts, k) \in Nat
      /\ Before(tables.stts, 1) = 0 /\ TimeBefore(tables.stts, 1) = 0
  BY <1>1, BeforeNext, TimeNext
<1>3. SttsSits(SttsStart)
  BY <1>1, <1>2 DEF SttsSits, SttsStart
<1> QED BY <1>1, <1>2, <1>3

(* By sample: the cursor goes to the entry that holds it.                   *)
LEMMA SttsBySample ==
    ASSUME tables.stts \in Seq(SttsEntry), SttsSits(stts), NEW i \in Nat,
           i < Before(tables.stts, Len(tables.stts) + 1)
    PROVE  LET c == SttsAtSample(i)
           IN  /\ SttsSits(c) /\ c.entry <= Len(tables.stts)
               /\ c = [entry |-> c.entry, idx0 |-> Before(tables.stts, c.entry),
                       acc |-> TimeBefore(tables.stts, c.entry)]
               /\ c.idx0 <= i /\ i < Before(tables.stts, c.entry + 1)
<1> DEFINE n == Len(tables.stts)
           c == IF i < stts.idx0 THEN SttsStart ELSE stts
           F == {k \in c.entry..n : i < SttsEnd(c, k).idx0}
           e == FirstFrom(c, n, F)
           B == [k \in 1..(n + 1) |-> Before(tables.stts, k)]
<1>1. /\ n \in Nat /\ \A k \in 1..(n + 1) : B[k] = Before(tables.stts, k) /\ B[k] \in Nat
      /\ Before(tables.stts, 1) = 0 /\ SttsSits(SttsStart) /\ SttsStart.entry = 1
  BY SttsTable DEF SttsStart
<1>2. SttsSits(c)
  BY <1>1
<1>3. c.entry \in 1..(n + 1) /\ B[c.entry] <= i
  <2>1. CASE i < stts.idx0
    BY <1>1, <2>1
  <2>2. CASE ~(i < stts.idx0)
    <3>1. c = stts /\ c.entry \in 1..(n + 1) /\ B[c.entry] = stts.idx0
      BY <1>1, <2>2 DEF SttsSits
    <3>2. stts.idx0 \in Nat
      BY <1>1, <3>1
    <3> QED BY <2>2, <3>1, <3>2
  <2> QED BY <2>1, <2>2
<1> HIDE DEF c, B
<1>4. \A k \in c.entry..n : k \in F <=> i < B[k + 1]
  <2> SUFFICES ASSUME NEW k \in c.entry..n PROVE k \in F <=> i < B[k + 1]
    OBVIOUS
  <2>1. k + 1 \in c.entry..(n + 1) /\ k + 1 \in 1..(n + 1)
    BY <1>1, <1>3
  <2>2. SkipTo(c, k + 1).idx0 = Before(tables.stts, k + 1)
    BY <1>2, <2>1, SttsMoves
  <2> QED BY <1>1, <2>1, <2>2 DEF SttsEnd
<1> HIDE DEF F
<1>5. e \in c.entry..(n + 1) /\ B[e] <= i /\ (e <= n => i < B[e + 1])
  <2>1. \A k \in 1..(n + 1) : B[k] \in Int
    BY <1>1
  <2>2. n \in Nat /\ i \in Int
    BY <1>1
  <2> HIDE DEF n
  <2> QED BY <1>3, <1>4, <2>1, <2>2, Located
<1>6. SttsAtSample(i) = SkipTo(c, e)
  BY DEF SttsAtSample, c, F, e
<1> HIDE DEF e
<1>7. /\ SttsSits(SkipTo(c, e))
      /\ SkipTo(c, e) = [entry |-> e, idx0 |-> Before(tables.stts, e),
                         acc |-> TimeBefore(tables.stts, e)]
  BY <1>2, <1>5, SttsMoves
<1>8. e \in 1..(n + 1) /\ e <= n
  <2>1. e \in 1..(n + 1)
    BY <1>3, <1>5
  <2>2. e # n + 1
    BY <1>1, <1>5, <2>1
  <2> QED BY <1>1, <2>1, <2>2
<1>9. Before(tables.stts, e) <= i /\ i < Before(tables.stts, e + 1)
  <2>1. e + 1 \in 1..(n + 1)
    BY <1>1, <1>8
  <2> QED BY <1>1, <1>5, <1>8, <2>1
<1> QED BY <1>6, <1>7, <1>8, <1>9

(* By time: the entry whose samples the time is among, or past the table.   *)
LEMMA SttsByTime ==
    ASSUME tables.stts \in Seq(SttsEntry), SttsSits(stts), NEW x \in Nat
    PROVE  LET c == SttsAtTime(x)
           IN  /\ SttsSits(c)
               /\ c = [entry |-> c.entry, idx0 |-> Before(tables.stts, c.entry),
                       acc |-> TimeBefore(tables.stts, c.entry)]
               /\ c.acc <= x
               /\ c.entry <= Len(tables.stts) => x < TimeBefore(tables.stts, c.entry + 1)
<1> DEFINE n == Len(tables.stts)
           c == IF x < stts.acc THEN SttsStart ELSE stts
           F == {k \in c.entry..n : x < SttsEnd(c, k).acc}
           e == FirstFrom(c, n, F)
           B == [k \in 1..(n + 1) |-> TimeBefore(tables.stts, k)]
<1>1. /\ n \in Nat /\ \A k \in 1..(n + 1) : B[k] = TimeBefore(tables.stts, k) /\ B[k] \in Nat
      /\ TimeBefore(tables.stts, 1) = 0 /\ SttsSits(SttsStart) /\ SttsStart.entry = 1
  BY SttsTable DEF SttsStart
<1>2. SttsSits(c)
  BY <1>1
<1>3. c.entry \in 1..(n + 1) /\ B[c.entry] <= x
  <2>1. CASE x < stts.acc
    BY <1>1, <2>1
  <2>2. CASE ~(x < stts.acc)
    <3>1. c = stts /\ c.entry \in 1..(n + 1) /\ B[c.entry] = stts.acc
      BY <1>1, <2>2 DEF SttsSits
    <3>2. stts.acc \in Nat
      BY <1>1, <3>1
    <3> QED BY <2>2, <3>1, <3>2
  <2> QED BY <2>1, <2>2
<1> HIDE DEF c, B
<1>4. \A k \in c.entry..n : k \in F <=> x < B[k + 1]
  <2> SUFFICES ASSUME NEW k \in c.entry..n PROVE k \in F <=> x < B[k + 1]
    OBVIOUS
  <2>1. k + 1 \in c.entry..(n + 1) /\ k + 1 \in 1..(n + 1)
    BY <1>1, <1>3
  <2>2. SkipTo(c, k + 1).acc = TimeBefore(tables.stts, k + 1)
    BY <1>2, <2>1, SttsMoves
  <2> QED BY <1>1, <2>1, <2>2 DEF SttsEnd
<1> HIDE DEF F
<1>5. e \in c.entry..(n + 1) /\ B[e] <= x /\ (e <= n => x < B[e + 1])
  <2>1. \A k \in 1..(n + 1) : B[k] \in Int
    BY <1>1
  <2>2. n \in Nat /\ x \in Int
    BY <1>1
  <2> HIDE DEF n
  <2> QED BY <1>3, <1>4, <2>1, <2>2, Located
<1>6. SttsAtTime(x) = SkipTo(c, e)
  BY DEF SttsAtTime, c, F, e
<1> HIDE DEF e
<1>7. /\ SttsSits(SkipTo(c, e))
      /\ SkipTo(c, e) = [entry |-> e, idx0 |-> Before(tables.stts, e),
                         acc |-> TimeBefore(tables.stts, e)]
  BY <1>2, <1>5, SttsMoves
<1>8. e \in 1..(n + 1)
  BY <1>3, <1>5
<1>9. TimeBefore(tables.stts, e) <= x /\ (e <= n => x < TimeBefore(tables.stts, e + 1))
  <2>1. e <= n => e + 1 \in 1..(n + 1)
    BY <1>1, <1>8
  <2> QED BY <1>1, <1>5, <1>8, <2>1
<1> QED BY <1>6, <1>7, <1>8, <1>9

-----------------------------------------------------------------------------
(* Decode times.                                                            *)
LEMMA EndsTimes ==
    ASSUME NEW t, IsIntaken(t)
    PROVE  /\ sampleNum(t) \in Nat /\ sampleNum(t) > 0
           /\ \A i \in 1..sampleNum(t) : Ends(t)[i] = t.dts[i] /\ t.dts[i] \in Nat
           /\ Ends(t)[sampleNum(t) + 1] = t.dts[sampleNum(t)] + LastDelta(t)
           /\ LastDelta(t) \in Nat
           /\ \A i \in 1..sampleNum(t) : \A k \in i..sampleNum(t) : t.dts[i] <= t.dts[k]
           /\ \A i \in 1..sampleNum(t) : \A k \in (i + 1)..sampleNum(t) : t.dts[i] < t.dts[k]
<1> DEFINE n == sampleNum(t)
<1>1. /\ n \in Nat /\ n > 0 /\ Final(t.dts) = t.dts[n] /\ \A i \in 1..n : t.dts[i] \in Nat
      /\ \A i \in 1..(n - 1) : t.dts[i] < t.dts[i + 1]
  <2>1. t.dts \in Seq(Nat) /\ Len(t.dts) > 0
    BY DEF IsIntaken, sampleNum
  <2>2. \A i \in 1..(sampleNum(t) - 1) : t.dts[i] < t.dts[i + 1]
    BY DEF IsIntaken
  <2> QED BY <2>1, <2>2 DEF sampleNum, Final
<1>2. LastDelta(t) \in Nat
  BY SttsDescribes
<1>3. \A i \in 1..n : Ends(t)[i] = t.dts[i]
  BY <1>1 DEF Ends
<1>4. Ends(t)[n + 1] = t.dts[n] + LastDelta(t)
  <2>1. n + 1 \in 1..(n + 1) /\ ~(n + 1 <= n)
    BY <1>1
  <2> QED BY <1>1, <2>1 DEF Ends
<1> HIDE DEF n
<1>5. ASSUME NEW i \in 1..n, NEW k \in i..n PROVE t.dts[i] <= t.dts[k]
  <2> DEFINE S == {j \in i..n : t.dts[i] <= t.dts[j]}
  <2>1. i \in S
    BY <1>1
  <2>2. ASSUME NEW j \in i..(n - 1), j \in S PROVE j + 1 \in S
    <3>1. j \in 1..(n - 1) /\ j + 1 \in i..n /\ j \in 1..n /\ j + 1 \in 1..n
      BY <1>1
    <3>2. /\ t.dts[j] < t.dts[j + 1] /\ t.dts[j] \in Nat /\ t.dts[j + 1] \in Nat
          /\ t.dts[i] \in Nat /\ t.dts[i] <= t.dts[j]
      BY <1>1, <2>2, <3>1
    <3> QED BY <3>1, <3>2
  <2> HIDE DEF S
  <2>3. i \in Int /\ n \in Int /\ \A j \in i..(n - 1) : j \in S => j + 1 \in S
    BY <1>1, <2>2
  <2>4. k \in S
    BY <2>1, <2>3, Upwards
  <2> QED BY <2>4 DEF S
<1>6. ASSUME NEW i \in 1..n, NEW k \in (i + 1)..n PROVE t.dts[i] < t.dts[k]
  <2>1. i \in 1..(n - 1) /\ i + 1 \in 1..n /\ k \in 1..n
    BY <1>1
  <2>2. t.dts[i] < t.dts[i + 1] /\ t.dts[i + 1] <= t.dts[k]
    BY <1>1, <1>5, <2>1
  <2>3. t.dts[i] \in Nat /\ t.dts[i + 1] \in Nat /\ t.dts[k] \in Nat
    BY <1>1, <2>1
  <2> QED BY <2>2, <2>3
<1> QED BY <1>1, <1>2, <1>3, <1>4, <1>5, <1>6 DEF n

LEMMA SttsFacts ==
    ASSUME tables = Stbl(track), IsIntaken(track)
    PROVE  /\ tables.stts \in Seq(SttsEntry)
           /\ Before(tables.stts, Len(tables.stts) + 1) = sampleNum(track)
           /\ Describes(tables.stts, Ends(track), sampleNum(track))
<1>1. tables.stts = Stts(track)
  BY DEF Stbl
<1>2. Describes(tables.stts, Ends(track), sampleNum(track))
  BY <1>1, SttsDescribes
<1> QED BY <1>2 DEF Describes

LEMMA Clamped ==
    ASSUME IsIntaken(track), NEW idx \in Nat
    PROVE  /\ Clamp(idx) \in 0..(sampleNum(track) - 1)
           /\ Clamp(idx) \in Nat /\ Clamp(idx) < sampleNum(track)
<1>1. sampleNum(track) \in Nat /\ sampleNum(track) > 0
  BY EndsTimes
<1> QED BY <1>1 DEF Clamp

LEMMA BetweenTimes ==
    ASSUME NEW t \in Nat, NEW y \in Nat, NEW x \in Nat, NEW a \in Nat, NEW b \in Nat,
           NEW z \in Nat, t + y = a - b, t + (y + x) = z - b
    PROVE  x = z - a
OBVIOUS

LEMMA PlaceInRun ==
    ASSUME NEW b \in Nat, NEW w \in Nat, NEW i \in Nat, b <= i, i < b + w
    PROVE  /\ i - b \in 0..w /\ (i - b) + 1 \in 0..w /\ i - b \in Nat
           /\ b + (i - b) + 1 = i + 1 /\ b + ((i - b) + 1) + 1 = i + 2
OBVIOUS

(* Where a sample is in its entry, and when.                                *)
LEMMA SampleInEntry ==
    ASSUME tables = Stbl(track), IsIntaken(track), NEW e \in 1..Len(tables.stts),
           NEW i \in Nat, Before(tables.stts, e) <= i, i < Before(tables.stts, e + 1)
    PROVE  /\ tables.stts[e].delta \in Nat /\ TimeBefore(tables.stts, e) \in Nat
           /\ Before(tables.stts, e) \in Nat /\ i < sampleNum(track)
           /\ TimeBefore(tables.stts, e) + (i - Before(tables.stts, e)) * tables.stts[e].delta
                = track.dts[i + 1] - track.dts[1]
           /\ tables.stts[e].delta = Ends(track)[i + 2] - Ends(track)[i + 1]
<1> DEFINE n == sampleNum(track)
           runs == tables.stts
           j == i - Before(tables.stts, e)
           x == tables.stts[e].delta
           T == TimeBefore(tables.stts, e)
           d == Ends(track)
<1>1. /\ Len(runs) \in Nat /\ runs[e].count \in Nat /\ x \in Nat /\ T \in Nat
      /\ Before(runs, e) \in Nat /\ e \in 1..(Len(runs) + 1)
      /\ \A k \in 1..Len(runs) : runs[k].count \in Nat
  BY SttsFacts, SttsTable
<1>2. Before(runs, e + 1) = Before(runs, e) + runs[e].count
  BY <1>1, BeforeNext
<1>3. /\ j \in 0..runs[e].count /\ j + 1 \in 0..runs[e].count /\ j \in Nat
      /\ Before(runs, e) + j + 1 = i + 1 /\ Before(runs, e) + (j + 1) + 1 = i + 2
  <2> DEFINE b == Before(runs, e)
             w == runs[e].count
  <2>1. b \in Nat /\ w \in Nat /\ i \in Nat /\ b <= i /\ i < b + w
    BY <1>1, <1>2
  <2> HIDE DEF b, w
  <2>2. /\ i - b \in 0..w /\ (i - b) + 1 \in 0..w /\ i - b \in Nat
        /\ b + (i - b) + 1 = i + 1 /\ b + ((i - b) + 1) + 1 = i + 2
    BY <2>1, PlaceInRun
  <2> QED BY <2>2 DEF b, w
<1>4. i < n
  <2>1. Before(runs, e) + (j + 1) <= n
    BY <1>1, <1>3, InRange, SttsFacts
  <2>2. n \in Nat
    BY EndsTimes
  <2> QED BY <1>1, <1>3, <2>1, <2>2
<1>5. /\ T + j * x = d[Before(runs, e) + j + 1] - d[1]
      /\ T + (j + 1) * x = d[Before(runs, e) + (j + 1) + 1] - d[1]
  BY <1>3, SttsFacts DEF Describes
<1>6. T + j * x = d[i + 1] - d[1] /\ T + (j + 1) * x = d[i + 2] - d[1]
  BY <1>3, <1>5
<1>7. (j + 1) * x = j * x + x /\ j * x \in Nat
  BY <1>1, <1>3, TimesNext
<1>8. /\ d[1] \in Nat /\ d[i + 1] \in Nat /\ d[i + 2] \in Nat
      /\ d[1] = track.dts[1] /\ d[i + 1] = track.dts[i + 1]
  <2>1. /\ n \in Nat /\ n > 0 /\ \A k \in 1..n : d[k] = track.dts[k] /\ track.dts[k] \in Nat
        /\ d[n + 1] = track.dts[n] + LastDelta(track) /\ LastDelta(track) \in Nat
    BY EndsTimes
  <2> HIDE DEF n, d
  <2>2. 1 \in 1..n /\ i + 1 \in 1..n /\ n \in 1..n
    BY <1>4, <2>1
  <2>3. d[i + 2] \in Nat
    <3>1. CASE i + 2 \in 1..n
      BY <2>1, <3>1
    <3>2. CASE i + 2 \notin 1..n
      <4>1. i + 2 = n + 1
        BY <1>4, <2>1, <3>2
      <4>2. d[n + 1] \in Nat
        BY <2>1, <2>2
      <4> QED BY <4>1, <4>2
    <3> QED BY <3>1, <3>2
  <2> QED BY <2>1, <2>2, <2>3
<1> HIDE DEF n, runs, j, x, T, d
<1>9. x = d[i + 2] - d[i + 1]
  <2> DEFINE y == j * x
             a == d[i + 1]
             b == d[1]
             z == d[i + 2]
  <2>1. T + y = a - b /\ T + (y + x) = z - b /\ y \in Nat
    BY <1>6, <1>7
  <2>2. T \in Nat /\ x \in Nat /\ b \in Nat /\ a \in Nat /\ z \in Nat
    BY <1>1, <1>8
  <2> HIDE DEF y, a, b, z
  <2>3. x = z - a
    BY <2>1, <2>2, BetweenTimes
  <2> QED BY <2>3 DEF a, z
<1> QED BY <1>1, <1>4, <1>6, <1>8, <1>9 DEF n, runs, j, x, T, d

LEMMA LatestIs ==
    ASSUME NEW S, NEW m \in S, NEW none, S \subseteq Int, \A r \in S : r <= m
    PROVE  Latest(S, none) = m
<1> DEFINE l == CHOOSE s \in S : \A r \in S : r <= s
<1>1. l \in S /\ \A r \in S : r <= l
  OBVIOUS
<1>2. Latest(S, none) = l
  BY DEF Latest
<1> HIDE DEF l
<1>3. l \in Int /\ m \in Int /\ m <= l /\ l <= m
  BY <1>1
<1> QED BY <1>2, <1>3

(* The sample that a time falls in is the last one to start by then.        *)
LEMMA IdxIs ==
    ASSUME IsIntaken(track), dtsOffset \in Int, NEW time \in Int, NEW m \in Nat,
           m < sampleNum(track), track.dts[m + 1] - track.dts[1] + dtsOffset <= time,
           m + 1 < sampleNum(track) => time < track.dts[m + 2] - track.dts[1] + dtsOffset
    PROVE  TrueIdx(time) = m
<1> DEFINE n == sampleNum(track)
           S == {i \in 0..(n - 1) : track.dts[i + 1] - track.dts[1] + dtsOffset <= time}
<1>1. /\ n \in Nat /\ n > 0 /\ \A k \in 1..n : track.dts[k] \in Nat
      /\ \A i \in 1..n : \A k \in i..n : track.dts[i] <= track.dts[k]
  BY EndsTimes
<1>2. m \in S /\ S \subseteq Int
  BY <1>1
<1>3. ASSUME NEW r \in S PROVE r <= m
  <2> SUFFICES ASSUME r > m PROVE FALSE
    BY <1>1
  <2>1. /\ m + 2 \in 1..n /\ r + 1 \in (m + 2)..n /\ r + 1 \in 1..n /\ 1 \in 1..n
        /\ m + 1 < n
    BY <1>1
  <2>2. track.dts[m + 2] <= track.dts[r + 1]
    BY <1>1, <2>1
  <2>3. track.dts[m + 2] \in Nat /\ track.dts[r + 1] \in Nat /\ track.dts[1] \in Nat
    BY <1>1, <2>1
  <2>4. /\ track.dts[r + 1] - track.dts[1] + dtsOffset <= time
        /\ time < track.dts[m + 2] - track.dts[1] + dtsOffset
    BY <2>1
  <2> QED BY <2>2, <2>3, <2>4
<1>4. TrueIdx(time) = Latest(S, 0)
  BY DEF TrueIdx
<1> HIDE DEF S
<1>5. \A r \in S : r <= m
  BY <1>3
<1> QED BY <1>2, <1>4, <1>5, LatestIs

LEMMA Quotient ==
    ASSUME NEW a \in Nat, NEW b \in Nat, b > 0
    PROVE  a \div b \in Nat /\ (a \div b) * b <= a /\ a < (a \div b + 1) * b
OBVIOUS

LEMMA ProductLess ==
    ASSUME NEW q \in Nat, NEW w \in Nat, NEW x \in Nat, q * x < w * x
    PROVE  q < w
OBVIOUS

(* sample_idx: the time falls in the run, or lies past all samples.         *)
LEMMA IdxFound ==
    ASSUME tables = Stbl(track), IsIntaken(track), SttsSits(stts), dtsOffset \in Int,
           NEW time \in Int, time > dtsOffset
    PROVE  LET c == SttsAtTime(time - dtsOffset)
           IN  /\ SttsSits(c)
               /\ (IF c.entry > Len(tables.stts) THEN sampleNum(track) - 1
                   ELSE c.idx0 + (time - dtsOffset - c.acc) \div tables.stts[c.entry].delta)
                    = TrueIdx(time)
<1> DEFINE x == time - dtsOffset
           c == SttsAtTime(x)
           n == sampleNum(track)
           runs == tables.stts
<1>1. x \in Nat /\ time = x + dtsOffset
  OBVIOUS
<1>2. /\ SttsSits(c) /\ c.idx0 = Before(runs, c.entry) /\ c.acc = TimeBefore(runs, c.entry)
      /\ c.acc <= x
      /\ c.entry <= Len(runs) => x < TimeBefore(runs, c.entry + 1)
  <2> HIDE DEF x
  <2> QED BY <1>1, SttsFacts, SttsByTime DEF SttsSits
<1>3. /\ runs \in Seq(SttsEntry) /\ Len(runs) \in Nat
      /\ \A k \in 1..Len(runs) : runs[k].count \in Nat /\ runs[k].delta \in Nat
      /\ \A k \in 1..(Len(runs) + 1) : Before(runs, k) \in Nat /\ TimeBefore(runs, k) \in Nat
      /\ c.entry \in 1..(Len(runs) + 1)
  BY <1>2, SttsFacts, SttsTable DEF SttsSits
<1>4. /\ n \in Nat /\ n > 0 /\ \A k \in 1..n : track.dts[k] \in Nat
      /\ \A k \in 1..n : Ends(track)[k] = track.dts[k]
      /\ Ends(track)[n + 1] = track.dts[n] + LastDelta(track) /\ LastDelta(track) \in Nat
  BY EndsTimes
<1> HIDE DEF x, c, n
<1>5. CASE c.entry > Len(runs)
  <2>1. c.entry = Len(runs) + 1
    BY <1>3, <1>5
  <2>2. TimeBefore(runs, Len(runs) + 1) = Ends(track)[n + 1] - Ends(track)[1]
    <3>1. Ends(track)[1] \in Nat
      BY <1>4
    <3> QED BY <1>4, <3>1, SttsFacts, DescribedEnd DEF n
  <2>3. track.dts[n] - track.dts[1] <= x
    <3>1. 1 \in 1..n /\ n \in 1..n
      BY <1>4
    <3>2. /\ track.dts[n] \in Nat /\ track.dts[1] \in Nat /\ Ends(track)[1] = track.dts[1]
          /\ Ends(track)[n + 1] = track.dts[n] + LastDelta(track) /\ LastDelta(track) \in Nat
      BY <1>4, <3>1
    <3>3. Ends(track)[n + 1] - Ends(track)[1] <= x
      BY <1>2, <2>1, <2>2
    <3> QED BY <1>1, <3>2, <3>3
  <2>4. TrueIdx(time) = n - 1
    <3>1. 1 \in 1..n /\ n \in 1..n /\ n - 1 \in Nat /\ (n - 1) + 1 = n /\ ~(n < n) /\ n - 1 < n
      BY <1>4
    <3>2. track.dts[n] \in Nat /\ track.dts[1] \in Nat
      BY <1>4, <3>1
    <3>3. track.dts[n] - track.dts[1] + dtsOffset <= time
      BY <1>1, <2>3, <3>2
    <3> QED BY <3>1, <3>3, IdxIs DEF n
  <2> QED BY <1>2, <1>5, <2>4 DEF c, n, x
<1>6. CASE ~(c.entry > Len(runs))
  <2> DEFINE e == c.entry
             b == Before(runs, e)
             T == TimeBefore(runs, e)
             w == runs[e].count
             delta == runs[e].delta
             q == (x - T) \div delta
             m == b + q
  <2>1. e \in 1..Len(runs) /\ e \in 1..(Len(runs) + 1)
    BY <1>3, <1>6
  <2>2. b \in Nat /\ T \in Nat /\ w \in Nat /\ delta \in Nat
    BY <1>3, <2>1
  <2>3. Before(runs, e + 1) = b + w /\ TimeBefore(runs, e + 1) = T + w * delta
    BY <1>3, <2>1, BeforeNext, TimeNext
  <2>4. T <= x /\ x < T + w * delta
    BY <1>2, <2>1, <2>3
  <2>5. /\ delta > 0 /\ q \in Nat /\ q < w
        /\ T + q * delta <= x /\ x < T + (q + 1) * delta
    <3> HIDE DEF b, T, w, delta
    <3>1. delta > 0
      <4>1. delta = 0 => w * delta = 0
        BY <2>2
      <4>2. w * delta # 0
        BY <1>1, <2>2, <2>4
      <4> QED BY <2>2, <4>1, <4>2
    <3>2. x - T \in Nat
      BY <1>1, <2>2, <2>4
    <3>3. q \in Nat /\ q * delta <= x - T /\ x - T < (q + 1) * delta
      BY <2>2, <3>1, <3>2, Quotient
    <3> HIDE DEF q
    <3>4. q * delta \in Nat /\ w * delta \in Nat /\ (q + 1) * delta \in Nat
      BY <2>2, <3>3
    <3>5. q * delta < w * delta /\ T + q * delta <= x /\ x < T + (q + 1) * delta
      <4> DEFINE y == q * delta
                 u == w * delta
                 v == (q + 1) * delta
      <4>1. y \in Nat /\ u \in Nat /\ v \in Nat /\ y <= x - T /\ x - T < v /\ x < T + u
        BY <2>4, <3>3, <3>4
      <4> HIDE DEF y, u, v
      <4>2. y < u /\ T + y <= x /\ x < T + v
        BY <1>1, <2>2, <2>4, <4>1
      <4> QED BY <4>2 DEF y, u, v
    <3>6. q < w
      BY <2>2, <3>3, <3>5, ProductLess
    <3> QED BY <3>1, <3>3, <3>5, <3>6
  <2> HIDE DEF q
  <2>6. /\ m \in Nat /\ Before(runs, e) <= m /\ m < Before(runs, e + 1)
        /\ m - Before(runs, e) = q
    <3> HIDE DEF b, w
    <3>1. m \in Nat /\ b <= m /\ m < b + w /\ m - b = q
      BY <2>2, <2>5
    <3> QED BY <2>3, <3>1 DEF b, w
  <2> HIDE DEF m, e
  <2>7. /\ m < n /\ T + q * delta = track.dts[m + 1] - track.dts[1]
        /\ delta = Ends(track)[m + 2] - Ends(track)[m + 1]
    BY <2>1, <2>6, SampleInEntry DEF n
  <2>8. track.dts[m + 1] - track.dts[1] + dtsOffset <= time
    <3>1. 1 \in 1..n /\ m + 1 \in 1..n
      BY <1>4, <2>6, <2>7
    <3>2. track.dts[m + 1] \in Nat /\ track.dts[1] \in Nat
      BY <1>4, <3>1
    <3>3. track.dts[m + 1] - track.dts[1] <= x
      BY <2>5, <2>7
    <3> QED BY <1>1, <3>2, <3>3
  <2>9. m + 1 < n => time < track.dts[m + 2] - track.dts[1] + dtsOffset
    <3> SUFFICES ASSUME m + 1 < n PROVE time < track.dts[m + 2] - track.dts[1] + dtsOffset
      OBVIOUS
    <3>1. 1 \in 1..n /\ m + 1 \in 1..n /\ m + 2 \in 1..n
      BY <1>4, <2>6, <2>7
    <3>2. /\ track.dts[m + 1] \in Nat /\ track.dts[m + 2] \in Nat /\ track.dts[1] \in Nat
          /\ delta = track.dts[m + 2] - track.dts[m + 1]
      BY <1>4, <2>7, <3>1
    <3>3. (q + 1) * delta = q * delta + delta /\ q * delta \in Nat
      BY <2>2, <2>5, TimesNext
    <3> DEFINE y == q * delta
    <3>4. /\ x < T + (y + delta) /\ T + y = track.dts[m + 1] - track.dts[1] /\ y \in Nat
      BY <2>5, <2>7, <3>3
    <3> HIDE DEF y, T, delta
    <3>5. x < track.dts[m + 2] - track.dts[1]
      BY <1>1, <2>2, <3>2, <3>4
    <3> QED BY <1>1, <3>2, <3>5
  <2>10. TrueIdx(time) = m
    BY <2>6, <2>7, <2>8, <2>9, IdxIs DEF n
  <2>11. c.idx0 + (x - c.acc) \div runs[c.entry].delta = m
    BY <1>2 DEF m, q, e
  <2> QED BY <1>2, <1>6, <2>10, <2>11 DEF c, x
<1> QED BY <1>5, <1>6 DEF c, x, n

(* sample_timing and sample_duration: the run of the sample.                *)
LEMMA SttsAnswers ==
    ASSUME tables = Stbl(track), IsIntaken(track), SttsSits(stts), NEW idx \in Nat
    PROVE  LET i == Clamp(idx)
               c == SttsAtSample(i)
           IN  /\ SttsSits(c) /\ c.entry <= Len(tables.stts)
               /\ c.acc + (i - c.idx0) * tables.stts[c.entry].delta
                    = track.dts[i + 1] - track.dts[1]
               /\ tables.stts[c.entry].delta = Ends(track)[i + 2] - Ends(track)[i + 1]
<1> DEFINE i == Clamp(idx)
           c == SttsAtSample(i)
<1>1. i \in Nat /\ i < sampleNum(track)
  BY Clamped
<1>2. /\ tables.stts \in Seq(SttsEntry) /\ Len(tables.stts) \in Nat
      /\ Before(tables.stts, Len(tables.stts) + 1) = sampleNum(track)
  BY SttsFacts
<1> HIDE DEF i
<1>3. /\ SttsSits(c) /\ c.entry <= Len(tables.stts)
      /\ c = [entry |-> c.entry, idx0 |-> Before(tables.stts, c.entry),
              acc |-> TimeBefore(tables.stts, c.entry)]
      /\ c.idx0 <= i /\ i < Before(tables.stts, c.entry + 1)
  BY <1>1, <1>2, SttsBySample
<1> HIDE DEF c
<1>4. /\ c.idx0 = Before(tables.stts, c.entry) /\ c.acc = TimeBefore(tables.stts, c.entry)
      /\ c.entry \in 1..Len(tables.stts)
  BY <1>2, <1>3 DEF SttsSits
<1>5. /\ TimeBefore(tables.stts, c.entry)
            + (i - Before(tables.stts, c.entry)) * tables.stts[c.entry].delta
              = track.dts[i + 1] - track.dts[1]
      /\ tables.stts[c.entry].delta = Ends(track)[i + 2] - Ends(track)[i + 1]
  BY <1>1, <1>3, <1>4, SampleInEntry
<1> QED BY <1>3, <1>4, <1>5 DEF c, i

LEMMA DurationIs ==
    ASSUME IsIntaken(track), NEW i \in Nat, i < sampleNum(track)
    PROVE  \/ Ends(track)[i + 2] - Ends(track)[i + 1] = TrueDuration(i)
           \/ i + 1 = sampleNum(track) /\ (i = 0 \/ TrueDuration(i) < 0)
<1> DEFINE n == sampleNum(track)
<1>1. /\ n \in Nat /\ n > 0 /\ \A k \in 1..n : Ends(track)[k] = track.dts[k]
      /\ \A k \in 1..n : track.dts[k] \in Nat
      /\ Ends(track)[n + 1] = track.dts[n] + LastDelta(track) /\ LastDelta(track) \in Nat
  BY EndsTimes
<1>2. i < n
  OBVIOUS
<1>3. track.duration \in Int
  BY DEF IsIntaken
<1> HIDE DEF n
<1>4. CASE i + 1 < n
  <2>1. i + 1 \in 1..n /\ i + 2 \in 1..n
    BY <1>1, <1>4
  <2> QED BY <1>1, <1>4, <2>1 DEF TrueDuration, n
<1>5. CASE ~(i + 1 < n)
  <2>1. i + 1 = n /\ i + 2 = n + 1 /\ n \in 1..n
    BY <1>1, <1>2, <1>5
  <2>2. TrueDuration(i) = track.duration - track.dts[n]
    BY <1>5, <2>1 DEF TrueDuration, n
  <2>3. CASE i # 0 /\ track.duration - track.dts[n] >= 0
    <3>1. Final(track.dts) = track.dts[n]
      BY DEF Final, n, sampleNum
    <3>2. LastDelta(track) = track.duration - track.dts[n]
      BY <1>1, <2>1, <2>3, <3>1 DEF LastDelta, n
    <3>3. Ends(track)[n + 1] - Ends(track)[n] = LastDelta(track)
      BY <1>1, <2>1
    <3> QED BY <2>1, <2>2, <3>2, <3>3
  <2>4. CASE ~(i # 0 /\ track.duration - track.dts[n] >= 0)
    <3>1. track.dts[n] \in Nat
      BY <1>1, <2>1
    <3> QED BY <1>3, <2>1, <2>2, <2>4, <3>1 DEF n
  <2> QED BY <2>3, <2>4
<1> QED BY <1>4, <1>5

-----------------------------------------------------------------------------
(* Runs of composition offsets and sizes.                                   *)
LEMMA RunFields ==
    ASSUME NEW runs, NEW n \in Nat, NEW Value, RunsOver(runs, n, Value)
    PROVE  /\ Len(runs) \in Nat
           /\ \A k \in 1..Len(runs) : /\ runs[k].count \in Nat /\ runs[k].count > 0
                                      /\ runs[k].value \in Value
           /\ Before(runs, 1) = 0 /\ Before(runs, Len(runs) + 1) = n
           /\ \A k \in 1..(Len(runs) + 1) : Before(runs, k) \in Nat
           /\ n > 0 => Len(runs) > 0
<1>1. runs \in Seq([count : Nat \ {0}, value : Value]) /\ SumOver(Counts(runs), 1, Len(runs)) = n
  BY DEF RunsOver
<1>2. Len(runs) \in Nat /\ \A k \in 1..Len(runs) : runs[k] \in [count : Nat \ {0}, value : Value]
  <2> DEFINE R == [count : Nat \ {0}, value : Value]
  <2>1. runs \in Seq(R)
    BY <1>1
  <2> HIDE DEF R
  <2>2. Len(runs) \in Nat /\ \A k \in 1..Len(runs) : runs[k] \in R
    BY <2>1
  <2> QED BY <2>2 DEF R
<1>3. \A k \in 1..Len(runs) : /\ runs[k].count \in Nat /\ runs[k].count > 0
                              /\ runs[k].value \in Value
  BY <1>2
<1>4. Before(runs, 1) = 0 /\ \A k \in 1..(Len(runs) + 1) : Before(runs, k) \in Nat
  BY <1>2, <1>3, BeforeNext
<1>5. Before(runs, Len(runs) + 1) = n
  <2>1. (Len(runs) + 1) - 1 = Len(runs)
    BY <1>2
  <2> QED BY <1>1, <2>1 DEF Before
<1>6. n > 0 => Len(runs) > 0
  <2>1. Len(runs) = 0 => Len(runs) + 1 = 1
    OBVIOUS
  <2> QED BY <1>2, <1>4, <1>5, <2>1
<1> QED BY <1>2, <1>3, <1>4, <1>5, <1>6

LEMMA RunValueIs ==
    ASSUME NEW runs, Len(runs) \in Nat, \A k \in 1..Len(runs) : runs[k].count \in Nat,
           NEW i \in Int, NEW e \in 1..Len(runs), Before(runs, e) <= i, i < Before(runs, e + 1)
    PROVE  RunValue(runs, i) = runs[e].value
<1> DEFINE upTo(k) == SumOver(Counts(runs), 1, k)
           P(k) == upTo(k - 1) <= i /\ i < upTo(k)
           m == CHOOSE k \in 1..Len(runs) : P(k)
<1>1. \A k \in 1..Len(runs) : upTo(k - 1) = Before(runs, k) /\ upTo(k) = Before(runs, k + 1)
  <2>1. \A k \in 1..Len(runs) : (k + 1) - 1 = k
    OBVIOUS
  <2> QED BY <2>1 DEF Before
<1>2. P(e)
  BY <1>1
<1>3. m \in 1..Len(runs) /\ P(m)
  BY <1>2
<1>4. RunValue(runs, i) = runs[m].value
  BY DEF RunValue
<1> HIDE DEF m
<1>5. Before(runs, m) <= i /\ i < Before(runs, m + 1)
  BY <1>1, <1>3
<1>6. \A k \in 1..(Len(runs) + 1) : Before(runs, k) \in Int
  BY BeforeNext
<1>7. ~(m < e)
  <2> SUFFICES ASSUME m < e PROVE FALSE
    OBVIOUS
  <2>1. m + 1 \in 1..(Len(runs) + 1) /\ e \in (m + 1)..(Len(runs) + 1) /\ e \in 1..(Len(runs) + 1)
    BY <1>3
  <2>2. Before(runs, m + 1) <= Before(runs, e)
    BY <2>1, BeforeGrows
  <2> QED BY <1>5, <1>6, <2>1, <2>2
<1>8. ~(e < m)
  <2> SUFFICES ASSUME e < m PROVE FALSE
    OBVIOUS
  <2>1. e + 1 \in 1..(Len(runs) + 1) /\ m \in (e + 1)..(Len(runs) + 1) /\ m \in 1..(Len(runs) + 1)
    BY <1>3
  <2>2. Before(runs, e + 1) <= Before(runs, m)
    BY <2>1, BeforeGrows
  <2> QED BY <1>5, <1>6, <2>1, <2>2
<1>9. m = e
  BY <1>3, <1>7, <1>8
<1> QED BY <1>4, <1>9

(* A cursor of ctts is at its entry.                                        *)
CttsSits(c) ==
    /\ c.entry \in 1..(Len(tables.ctts) + 1)
    /\ c.idx0 = Before(tables.ctts, c.entry)

LEMMA CttsMoves ==
    ASSUME Len(tables.ctts) \in Nat, \A k \in 1..Len(tables.ctts) : tables.ctts[k].count \in Nat,
           NEW c, CttsSits(c), NEW e \in c.entry..(Len(tables.ctts) + 1)
    PROVE  CttsSits(CttsSkip(c, e)) /\ CttsSkip(c, e) = [entry |-> e, idx0 |-> Before(tables.ctts, e)]
<1> DEFINE n == Len(tables.ctts)
<1>1. n \in Nat /\ \A k \in 1..n : Counts(tables.ctts)[k] \in Nat
  BY DEF Counts
<1>2. c.entry \in 1..(n + 1) /\ e \in 1..(n + 1)
  BY DEF CttsSits
<1>3. Before(tables.ctts, c.entry) + SumOver(Counts(tables.ctts), c.entry, e - 1)
            = Before(tables.ctts, e)
  BY <1>1, <1>2, SumOn DEF Before
<1>4. CttsSkip(c, e) = [entry |-> e, idx0 |-> Before(tables.ctts, e)]
  BY <1>3 DEF CttsSkip, CttsSits
<1> QED BY <1>2, <1>4 DEF CttsSits

LEMMA CttsFacts ==
    ASSUME tables = Stbl(track), IsIntaken(track)
    PROVE  /\ Len(tables.ctts) \in Nat
           /\ \A k \in 1..Len(tables.ctts) : tables.ctts[k].count \in Nat
           /\ CttsSits(Start)
           /\ tables.ctts # << >> =>
                /\ tables.ctts = track.cts
                /\ Before(tables.ctts, Len(tables.ctts) + 1) = sampleNum(track)
           /\ tables.ctts = << >> =>
                \A i \in 0..(sampleNum(track) - 1) : RunValue(track.cts, i) = 0
<1> DEFINE runs == track.cts
           n == sampleNum(track)
<1>0. n \in Nat /\ n > 0
  BY EndsTimes
<1>1. RunsOver(runs, n, Int)
  BY DEF IsIntaken
<1>2. /\ Len(runs) \in Nat /\ \A k \in 1..Len(runs) : runs[k].count \in Nat
      /\ Before(runs, 1) = 0 /\ Before(runs, Len(runs) + 1) = n
      /\ Len(runs) > 0
  BY <1>0, <1>1, RunFields
<1>3. tables.ctts = IF NoCtsOffset(track) THEN << >> ELSE runs
  BY DEF Stbl, Ctts
<1>4. Len(tables.ctts) \in Nat /\ \A k \in 1..Len(tables.ctts) : tables.ctts[k].count \in Nat
  <2>1. Len(<< >>) = 0 /\ 1..0 = {}
    OBVIOUS
  <2> QED BY <1>2, <1>3, <2>1
<1>5. CttsSits(Start)
  <2>1. 1 \in 1..(Len(tables.ctts) + 1) /\ Before(tables.ctts, 1) = 0
    BY <1>4, BeforeNext
  <2> QED BY <2>1 DEF CttsSits, Start
<1>6. tables.ctts = << >> => \A i \in 0..(n - 1) : RunValue(runs, i) = 0
  <2> SUFFICES ASSUME tables.ctts = << >>, NEW i \in 0..(n - 1) PROVE RunValue(runs, i) = 0
    OBVIOUS
  <2>1. Len(runs) = 1 /\ runs[1].value = 0
    <3>1. runs # << >>
      BY <1>2
    <3> QED BY <1>3, <3>1 DEF NoCtsOffset
  <2>2. 1 \in 1..Len(runs) /\ Before(runs, 1) <= i /\ i < Before(runs, 1 + 1) /\ i \in Int
    BY <1>0, <1>2, <2>1
  <2>3. RunValue(runs, i) = runs[1].value
    BY <1>2, <2>2, RunValueIs
  <2> QED BY <2>1, <2>3
<1> QED BY <1>2, <1>3, <1>4, <1>5, <1>6

LEMMA CttsAnswers ==
    ASSUME tables = Stbl(track), IsIntaken(track), CttsSits(ctts), NEW i \in Nat,
           i < sampleNum(track)
    PROVE  LET c == CttsAtSample(i)
           IN  /\ CttsSits(c) /\ c = [entry |-> c.entry, idx0 |-> c.idx0]
               /\ (IF c.entry > Len(tables.ctts) THEN 0 ELSE tables.ctts[c.entry].value)
                    = RunValue(track.cts, i)
<1> DEFINE n == Len(tables.ctts)
           c == IF i < ctts.idx0 THEN Start ELSE ctts
           F == {k \in c.entry..n : i < CttsSkip(c, k + 1).idx0}
           e == FirstFrom(c, n, F)
           B == [k \in 1..(n + 1) |-> Before(tables.ctts, k)]
<1>0. n \in Nat /\ \A k \in 1..n : tables.ctts[k].count \in Nat
  BY CttsFacts
<1>1. /\ \A k \in 1..(n + 1) : B[k] = Before(tables.ctts, k) /\ B[k] \in Nat
      /\ Before(tables.ctts, 1) = 0 /\ CttsSits(Start) /\ Start.entry = 1
  BY <1>0, CttsFacts, BeforeNext DEF Start
<1>2. CttsSits(c)
  BY <1>1
<1>3. c.entry \in 1..(n + 1) /\ B[c.entry] <= i
  <2>1. CASE i < ctts.idx0
    BY <1>0, <1>1, <2>1
  <2>2. CASE ~(i < ctts.idx0)
    <3>1. c = ctts /\ c.entry \in 1..(n + 1) /\ B[c.entry] = ctts.idx0
      BY <1>0, <1>1, <2>2 DEF CttsSits
    <3>2. ctts.idx0 \in Nat
      BY <1>1, <3>1
    <3> QED BY <2>2, <3>1, <3>2
  <2> QED BY <2>1, <2>2
<1> HIDE DEF c, B
<1>4. \A k \in c.entry..n : k \in F <=> i < B[k + 1]
  <2> SUFFICES ASSUME NEW k \in c.entry..n PROVE k \in F <=> i < B[k + 1]
    OBVIOUS
  <2>1. k + 1 \in c.entry..(n + 1) /\ k + 1 \in 1..(n + 1)
    BY <1>0, <1>3
  <2>2. CttsSkip(c, k + 1).idx0 = Before(tables.ctts, k + 1)
    BY <1>0, <1>2, <2>1, CttsMoves
  <2> QED BY <1>1, <2>1, <2>2
<1> HIDE DEF F
<1>5. e \in c.entry..(n + 1) /\ B[e] <= i /\ (e <= n => i < B[e + 1])
  <2>1. \A k \in 1..(n + 1) : B[k] \in Int
    BY <1>1
  <2>2. n \in Nat /\ i \in Int
    BY <1>0
  <2> HIDE DEF n
  <2> QED BY <1>3, <1>4, <2>1, <2>2, Located
<1>6. CttsAtSample(i) = CttsSkip(c, e)
  BY DEF CttsAtSample, c, F, e
<1> HIDE DEF e
<1>7. /\ CttsSits(CttsSkip(c, e))
      /\ CttsSkip(c, e) = [entry |-> e, idx0 |-> Before(tables.ctts, e)]
  BY <1>0, <1>2, <1>5, CttsMoves
<1>8. e \in 1..(n + 1)
  BY <1>3, <1>5
<1>9. (IF e > n THEN 0 ELSE tables.ctts[e].value) = RunValue(track.cts, i)
  <2>1. CASE tables.ctts = << >>
    <3>1. n = 0
      BY <2>1
    <3>2. e > n
      BY <1>8, <3>1
    <3>3. sampleNum(track) \in Nat
      BY EndsTimes
    <3> QED BY <2>1, <3>2, <3>3, CttsFacts
  <2>2. CASE tables.ctts # << >>
    <3>1. tables.ctts = track.cts /\ Before(tables.ctts, n + 1) = sampleNum(track)
      BY <2>2, CttsFacts
    <3>2. e \in 1..n
      <4>1. e # n + 1
        BY <1>0, <1>1, <1>5, <1>8, <3>1
      <4> QED BY <1>0, <1>8, <4>1
    <3>3. Before(tables.ctts, e) <= i /\ i < Before(tables.ctts, e + 1)
      <4>1. e + 1 \in 1..(n + 1)
        BY <1>0, <3>2
      <4> QED BY <1>0, <1>1, <1>5, <1>8, <3>2, <4>1
    <3>4. RunValue(tables.ctts, i) = tables.ctts[e].value
      BY <1>0, <3>2, <3>3, RunValueIs
    <3>5. ~(e > n)
      BY <1>0, <3>2
    <3> QED BY <3>1, <3>4, <3>5
  <2> QED BY <2>1, <2>2
<1> QED BY <1>6, <1>7, <1>9

LEMMA RunExists ==
    ASSUME NEW runs, NEW n \in Nat, NEW Value, RunsOver(runs, n, Value), NEW i \in Nat, i < n
    PROVE  \E e \in 1..Len(runs) : Before(runs, e) <= i /\ i < Before(runs, e + 1)
<1> DEFINE L == Len(runs)
           F == {k \in 1..L : i < Before(runs, k + 1)}
           B == [k \in 1..(L + 1) |-> Before(runs, k)]
           e == FirstFrom(Start, L, F)
<1>1. /\ L \in Nat /\ Before(runs, 1) = 0 /\ Before(runs, L + 1) = n
      /\ \A k \in 1..(L + 1) : B[k] = Before(runs, k) /\ B[k] \in Int
  BY RunFields
<1>2. Start.entry = 1
  BY DEF Start
<1>3. \A k \in 1..L : k \in F <=> i < B[k + 1]
  <2>1. \A k \in 1..L : k + 1 \in 1..(L + 1)
    BY <1>1
  <2> QED BY <1>1, <2>1
<1>4. 1 \in 1..(L + 1) /\ B[1] <= i /\ i \in Int
  BY <1>1
<1>5. e \in 1..(L + 1) /\ B[e] <= i /\ (e <= L => i < B[e + 1])
  <2>1. /\ Start.entry \in 1..(L + 1) /\ B[Start.entry] <= i
        /\ \A k \in Start.entry..L : k \in F <=> i < B[k + 1]
    BY <1>2, <1>3, <1>4
  <2>2. L \in Nat /\ \A k \in 1..(L + 1) : B[k] \in Int
    BY <1>1
  <2> HIDE DEF L, F, B
  <2>3. e \in Start.entry..(L + 1) /\ B[e] <= i /\ (e <= L => i < B[e + 1])
    BY <1>4, <2>1, <2>2, Located
  <2> QED BY <1>2, <2>3
<1> HIDE DEF e, B
<1>6. e \in 1..L
  <2>1. e # L + 1
    BY <1>1, <1>5
  <2> QED BY <1>1, <1>5, <2>1
<1>7. Before(runs, e) <= i /\ i < Before(runs, e + 1)
  <2>1. e + 1 \in 1..(L + 1)
    BY <1>1, <1>6
  <2> QED BY <1>1, <1>5, <1>6, <2>1
<1> QED BY <1>6, <1>7

(* The table of sizes, run after run.                                       *)
IsTable(runs, h) ==
    h = [k \in 0..Len(runs) |-> IF k = 0 THEN << >>
            ELSE h[k - 1] \o [j \in 1..runs[k].count |-> runs[k].value]]

LEMMA TableOfRuns ==
    ASSUME NEW runs, NEW n \in Nat, RunsOver(runs, n, Nat \ {0}), NEW h, IsTable(runs, h)
    PROVE  /\ Len(h[Len(runs)]) = n
           /\ \A e \in 1..Len(runs) : \A j \in 1..runs[e].count :
                 h[Len(runs)][Before(runs, e) + j] = runs[e].value
<1> DEFINE L == Len(runs)
           D == {k \in Nat : /\ h[k] \in Seq(Nat) /\ Len(h[k]) = Before(runs, k + 1)
                             /\ \A e \in 1..k : \A j \in 1..runs[e].count :
                                   h[k][Before(runs, e) + j] = runs[e].value}
<1>1. /\ L \in Nat /\ Before(runs, 1) = 0
      /\ \A k \in 1..L : runs[k].count \in Nat /\ runs[k].value \in Nat \ {0}
      /\ \A k \in 1..(L + 1) : Before(runs, k) \in Nat
  BY RunFields
<1>2. \A k \in 0..L : h[k] = IF k = 0 THEN << >>
                             ELSE h[k - 1] \o [j \in 1..runs[k].count |-> runs[k].value]
  <2> DEFINE r == [k \in 0..L |-> IF k = 0 THEN << >>
                     ELSE h[k - 1] \o [j \in 1..runs[k].count |-> runs[k].value]]
  <2>1. h = r
    BY DEF IsTable
  <2>2. \A k \in 0..L : r[k] = IF k = 0 THEN << >>
                               ELSE h[k - 1] \o [j \in 1..runs[k].count |-> runs[k].value]
    OBVIOUS
  <2> HIDE DEF r
  <2> QED BY <2>1, <2>2
<1>3. 0 \in D
  <2>1. h[0] = << >>
    <3>1. 0 \in 0..L
      BY <1>1
    <3> HIDE DEF L
    <3> QED BY <1>2, <3>1
  <2>2. Len(<< >>) = 0 /\ << >> \in Seq(Nat) /\ 1..0 = {} /\ 0 + 1 = 1
    OBVIOUS
  <2> QED BY <1>1, <2>1, <2>2
<1> HIDE DEF L
<1>4. ASSUME NEW k \in 0..(L - 1), k \in D PROVE k + 1 \in D
  <2> DEFINE w == runs[k + 1].count
             v == runs[k + 1].value
             piece == [j \in 1..w |-> v]
             b == Before(runs, k + 1)
  <2>1. /\ k \in Nat /\ k + 1 \in 0..L /\ k + 1 \in 1..L /\ (k + 1) - 1 = k /\ k + 1 # 0
        /\ k + 1 \in 1..(L + 1)
    BY <1>1
  <2>2. w \in Nat /\ v \in Nat /\ b \in Nat
    BY <1>1, <2>1
  <2>3. h[k + 1] = h[k] \o piece
    BY <1>2, <2>1
  <2>4. piece \in Seq(Nat) /\ Len(piece) = w /\ \A j \in 1..w : piece[j] = v
    <3> HIDE DEF w, v
    <3>1. piece \in [1..w -> Nat]
      BY <2>2
    <3> QED BY <2>2, <3>1
  <2>5. Before(runs, (k + 1) + 1) = b + w
    BY <1>1, <2>1, BeforeNext DEF L
  <2>6. h[k] \in Seq(Nat) /\ Len(h[k]) = b
    BY <1>4
  <2> HIDE DEF piece
  <2>7. h[k + 1] \in Seq(Nat) /\ Len(h[k + 1]) = b + w
    <3> DEFINE a == h[k]
    <3>1. a \in Seq(Nat) /\ piece \in Seq(Nat)
      BY <2>4, <2>6
    <3> HIDE DEF a
    <3>2. a \o piece \in Seq(Nat) /\ Len(a \o piece) = Len(a) + Len(piece)
      BY <3>1, ConcatProperties
    <3> HIDE DEF b, w
    <3> QED BY <2>3, <2>4, <2>6, <3>2 DEF a
  <2>8. /\ \A j \in 1..b : h[k + 1][j] = h[k][j]
        /\ \A j \in 1..w : h[k + 1][b + j] = v
    <3> HIDE DEF b, w, v
    <3>1. \A j \in 1..b : h[k + 1][j] = h[k][j]
      BY <2>2, <2>3, <2>4, <2>6
    <3>2. ASSUME NEW j \in 1..w PROVE h[k + 1][b + j] = v
      <4>1. b + j \in (b + 1)..(b + w) /\ (b + j) - b = j
        BY <2>2
      <4>2. (h[k] \o piece)[b + j] = piece[(b + j) - b]
        <5>1. b + j \in 1..(Len(h[k]) + Len(piece)) /\ ~(b + j <= Len(h[k]))
          BY <2>2, <2>4, <2>6, <4>1
        <5> QED BY <2>4, <2>6, <5>1, ConcatProperties
      <4> QED BY <2>3, <2>4, <4>1, <4>2
    <3> QED BY <3>1, <3>2
  <2>9. ASSUME NEW e \in 1..(k + 1), NEW j \in 1..runs[e].count
        PROVE  h[k + 1][Before(runs, e) + j] = runs[e].value
    <3>1. CASE e = k + 1
      BY <2>8, <3>1
    <3>2. CASE e # k + 1
      <4>1. /\ e \in 1..k /\ e \in 1..L /\ e + 1 \in 1..(L + 1) /\ k + 1 \in (e + 1)..(L + 1)
            /\ e \in 1..(L + 1)
        BY <1>1, <2>1, <3>2
      <4>2. h[k][Before(runs, e) + j] = runs[e].value
        BY <1>4, <4>1
      <4>3. Before(runs, e + 1) <= b
        BY <1>1, <4>1, BeforeGrows DEF L
      <4>4. /\ Before(runs, e + 1) = Before(runs, e) + runs[e].count
            /\ Before(runs, e) \in Nat /\ runs[e].count \in Nat
        BY <1>1, <4>1, BeforeNext DEF L
      <4>5. Before(runs, e) + j \in 1..b
        <5> DEFINE q == Before(runs, e)
                   z == runs[e].count
        <5>1. q \in Nat /\ z \in Nat /\ j \in 1..z /\ q + z <= b
          BY <4>3, <4>4
        <5> HIDE DEF q, z, b
        <5>2. q + j \in 1..b
          BY <2>2, <5>1
        <5> QED BY <5>2 DEF q
      <4> QED BY <2>8, <4>2, <4>5
    <3> QED BY <3>1, <3>2
  <2> QED BY <2>1, <2>5, <2>7, <2>9
<1>5. L \in D
  <2> HIDE DEF D
  <2>1. 0 \in Int /\ L \in Int /\ \A k \in 0..(L - 1) : k \in D => k + 1 \in D
    BY <1>1, <1>4
  <2>2. \A k \in 0..L : k \in D
    BY <1>3, <2>1, Upwards
  <2> QED BY <1>1, <2>2
<1>6. Before(runs, L + 1) = n
  BY RunFields DEF L
<1> QED BY <1>5, <1>6 DEF L

LEMMA TableExists ==
    ASSUME NEW runs, NEW n \in Nat, RunsOver(runs, n, Nat \ {0})
    PROVE  \E h : IsTable(runs, h)
<1> DEFINE L == Len(runs)
           S == Seq(Nat)
           piece(k) == [j \in 1..runs[k].count |-> runs[k].value]
           g == [k \in 1..L |-> [x \in S |-> x \o piece(k)]]
<1>1. L \in Nat /\ \A k \in 1..L : runs[k].count \in Nat /\ runs[k].value \in Nat
  BY RunFields
<1>2. ASSUME NEW k \in 1..L PROVE piece(k) \in S
  <2>1. runs[k].count \in Nat /\ runs[k].value \in Nat
    BY <1>1
  <2>2. piece(k) \in [1..runs[k].count -> Nat]
    BY <2>1
  <2> QED BY <2>1, <2>2
<1>3. << >> \in S
  OBVIOUS
<1> HIDE DEF piece
<1>4. g \in [1..L -> [S -> S]]
  <2>1. \A k \in 1..L : \A x \in S : x \o piece(k) \in S
    BY <1>2, ConcatProperties
  <2> HIDE DEF S
  <2> QED BY <2>1
<1> HIDE DEF S, g, L
<1>5. PICK f \in [0..L -> S] : IsIterated(L, << >>, g, f)
  BY <1>1, <1>3, <1>4, Iterates
<1>6. ASSUME NEW k \in 0..L, k # 0 PROVE g[k][f[k - 1]] = f[k - 1] \o piece(k)
  <2>1. k \in 1..L /\ k - 1 \in 0..L
    BY <1>1, <1>6
  <2>2. f[k - 1] \in S
    BY <2>1
  <2> QED BY <2>1, <2>2 DEF g
<1>7. f = [k \in 0..L |-> IF k = 0 THEN << >> ELSE f[k - 1] \o piece(k)]
  BY <1>5, <1>6 DEF IsIterated
<1> QED BY <1>7 DEF IsTable, L, piece

(* sample_size.                                                             *)
LEMMA SizeIs ==
    ASSUME tables = Stbl(track), IsIntaken(track), NEW idx \in Nat
    PROVE  SizeOf(idx) = RunValue(track.sizes, Clamp(idx))
<1> DEFINE runs == track.sizes
           n == sampleNum(track)
           i == Clamp(idx)
           h == CHOOSE f : IsTable(runs, f)
<1>1. n \in Nat /\ n > 0 /\ RunsOver(runs, n, Nat \ {0}) /\ i \in Nat /\ i < n
  BY EndsTimes, Clamped DEF IsIntaken
<1>2. /\ Len(runs) \in Nat /\ Before(runs, 1) = 0 /\ Before(runs, Len(runs) + 1) = n
      /\ \A k \in 1..Len(runs) : runs[k].count \in Nat /\ runs[k].value \in Nat \ {0}
      /\ \A k \in 1..(Len(runs) + 1) : Before(runs, k) \in Nat
  BY <1>1, RunFields
<1>3. PICK e \in 1..Len(runs) : Before(runs, e) <= i /\ i < Before(runs, e + 1)
  BY <1>1, RunExists
<1>3a. Len(runs) \in Nat /\ \A k \in 1..Len(runs) : runs[k].count \in Nat
  BY <1>2
<1>4. RunValue(runs, i) = runs[e].value
  <2>1. i \in Int
    BY <1>1
  <2> HIDE DEF i
  <2> QED BY <2>1, <1>3, <1>3a, RunValueIs
<1>5. IsTable(runs, h)
  BY <1>1, TableExists
<1>6. tables.stsz = IF AllSameSize(track) THEN [fixed |-> runs[1].value, table |-> << >>]
                    ELSE [fixed |-> 0, table |-> h[Len(runs)]]
  BY DEF Stbl, Stsz, IsTable
<1> HIDE DEF h, i, n
<1>7. CASE AllSameSize(track)
  <2>1. e = 1 /\ runs[1].value \in Nat \ {0}
    BY <1>2, <1>7 DEF AllSameSize
  <2>2. tables.stsz.fixed = runs[1].value
    BY <1>6, <1>7
  <2> QED BY <1>4, <2>1, <2>2 DEF SizeOf, i
<1>8. CASE ~AllSameSize(track)
  <2>1. tables.stsz.fixed = 0 /\ tables.stsz.table = h[Len(runs)]
    BY <1>6, <1>8
  <2> DEFINE b == Before(runs, e)
             w == runs[e].count
             j == (i - b) + 1
  <2>2. b \in Nat /\ w \in Nat /\ b <= i /\ i < b + w
    <3>1. e \in 1..(Len(runs) + 1) /\ Before(runs, e + 1) = b + w
      BY <1>3a, BeforeNext
    <3> QED BY <1>2, <1>3, <3>1
  <2>3. j \in 1..w /\ b + j = i + 1
    <3> HIDE DEF b, w
    <3> QED BY <1>1, <2>2
  <2> HIDE DEF j
  <2>4. h[Len(runs)][b + j] = runs[e].value
    BY <1>1, <1>5, <2>3, TableOfRuns
  <2>5. SizeOf(idx) = h[Len(runs)][i + 1]
    BY <2>1 DEF SizeOf, i
  <2> QED BY <1>4, <2>3, <2>4, <2>5 DEF i
<1> QED BY <1>7, <1>8

-----------------------------------------------------------------------------
(* Chunks.  The number (from 1) of the first sample of each, and of the one *)
(* that would follow the last.                                              *)
ChunkStart(t, c) == IF c <= Len(t.chunks) THEN t.chunks[c].idx ELSE sampleNum(t) + 1

LEMMA ChunkFields ==
    ASSUME NEW t, IsIntaken(t)
    PROVE  /\ Len(t.chunks) \in Nat /\ Len(t.chunks) > 0
           /\ \A c \in 1..Len(t.chunks) : /\ t.chunks[c].num \in Nat /\ t.chunks[c].num > 0
                                          /\ t.chunks[c].sdi \in Nat
                                          /\ t.chunks[c].idx \in Nat
                                          /\ ChunkStart(t, c) = t.chunks[c].idx
           /\ \A c \in 1..(Len(t.chunks) + 1) : ChunkStart(t, c) \in Nat
           /\ ChunkStart(t, 1) = 1 /\ ChunkStart(t, Len(t.chunks) + 1) = sampleNum(t) + 1
           /\ \A c \in 1..Len(t.chunks) :
                ChunkStart(t, c + 1) = ChunkStart(t, c) + t.chunks[c].num
<1> DEFINE R == [num : Nat \ {0}, sdi : Nat, offset : Nat, idx : Nat \ {0}]
           n == Len(t.chunks)
<1>1. t.chunks \in Seq(R) /\ n > 0
  BY DEF IsIntaken
<1> HIDE DEF R
<1>2. n \in Nat /\ \A c \in 1..n : t.chunks[c] \in R
  BY <1>1
<1>3. \A c \in 1..n : /\ t.chunks[c].num \in Nat /\ t.chunks[c].num > 0
                      /\ t.chunks[c].sdi \in Nat /\ t.chunks[c].idx \in Nat
  BY <1>2 DEF R
<1>4. sampleNum(t) \in Nat
  BY EndsTimes
<1>5. \A c \in 1..n : ChunkStart(t, c) = t.chunks[c].idx
  BY <1>2 DEF ChunkStart
<1>6. ChunkStart(t, n + 1) = sampleNum(t) + 1
  BY <1>2 DEF ChunkStart
<1>7. ASSUME NEW c \in 1..(n + 1) PROVE ChunkStart(t, c) \in Nat
  <2>1. c \in 1..n \/ c = n + 1
    BY <1>2
  <2>2. CASE c \in 1..n
    BY <1>3, <1>5, <2>2
  <2>3. CASE c = n + 1
    <3>1. sampleNum(t) + 1 \in Nat
      BY <1>4
    <3> QED BY <1>6, <2>3, <3>1
  <2> QED BY <2>1, <2>2, <2>3
<1>8. ChunkStart(t, 1) = 1
  <2>1. 1 \in 1..n /\ t.chunks[1].idx = 1
    BY <1>1, <1>2 DEF IsIntaken
  <2> QED BY <1>5, <2>1
<1>9. ASSUME NEW c \in 1..n PROVE ChunkStart(t, c + 1) = ChunkStart(t, c) + t.chunks[c].num
  <2>1. CASE c = n
    BY <1>5, <1>6, <2>1 DEF IsIntaken
  <2>2. CASE c # n
    <3>1. c \in 1..(n - 1) /\ c + 1 \in 1..n
      BY <1>2, <2>2
    <3>2. t.chunks[c + 1].idx = t.chunks[c].idx + t.chunks[c].num
      BY <3>1 DEF IsIntaken
    <3> QED BY <1>5, <3>1, <3>2
  <2> QED BY <2>1, <2>2
<1> QED BY <1>1, <1>2, <1>3, <1>5, <1>6, <1>7, <1>8, <1>9

LEMMA ChunksGrow ==
    ASSUME NEW t, IsIntaken(t), NEW c \in 1..(Len(t.chunks) + 1),
           NEW d \in c..(Len(t.chunks) + 1)
    PROVE  ChunkStart(t, c) <= ChunkStart(t, d)
<1> DEFINE n == Len(t.chunks)
           S == {i \in c..(n + 1) : ChunkStart(t, c) <= ChunkStart(t, i)}
<1>1. /\ n \in Nat /\ \A i \in 1..(n + 1) : ChunkStart(t, i) \in Nat
      /\ \A i \in 1..n : t.chunks[i].num \in Nat
      /\ \A i \in 1..n : ChunkStart(t, i + 1) = ChunkStart(t, i) + t.chunks[i].num
  BY ChunkFields
<1> HIDE DEF n
<1>2. c \in S
  BY <1>1 DEF n
<1>3. ASSUME NEW i \in c..(d - 1), i \in S PROVE i + 1 \in S
  <2>1. i \in 1..n /\ i + 1 \in c..(n + 1) /\ i + 1 \in 1..(n + 1) /\ c \in 1..(n + 1)
        /\ i \in 1..(n + 1)
    BY <1>1 DEF n
  <2>2. /\ ChunkStart(t, i + 1) = ChunkStart(t, i) + t.chunks[i].num
        /\ t.chunks[i].num \in Nat /\ ChunkStart(t, i) \in Nat /\ ChunkStart(t, c) \in Nat
        /\ ChunkStart(t, c) <= ChunkStart(t, i)
    BY <1>1, <1>3, <2>1
  <2>3. ChunkStart(t, c) <= ChunkStart(t, i + 1)
    BY <2>2
  <2> QED BY <2>1, <2>3
<1>4. d \in S
  <2> HIDE DEF S
  <2>1. c \in Int /\ d \in Int /\ d \in c..d /\ \A i \in c..(d - 1) : i \in S => i + 1 \in S
    BY <1>3
  <2> QED BY <1>2, <2>1, Upwards
<1> QED BY <1>4

LEMMA ChunkIs ==
    ASSUME IsIntaken(track), NEW i \in Nat, NEW c \in 1..Len(track.chunks),
           ChunkStart(track, c) <= i + 1, i + 1 < ChunkStart(track, c + 1)
    PROVE  ChunkOfSample(i) = c
<1> DEFINE n == Len(track.chunks)
           P(d) == /\ track.chunks[d].idx <= i + 1
                   /\ i + 1 < track.chunks[d].idx + track.chunks[d].num
           m == CHOOSE d \in 1..n : P(d)
<1>1. /\ n \in Nat /\ \A d \in 1..(n + 1) : ChunkStart(track, d) \in Nat
      /\ \A d \in 1..n : /\ ChunkStart(track, d) = track.chunks[d].idx
                         /\ ChunkStart(track, d + 1) = ChunkStart(track, d) + track.chunks[d].num
  BY ChunkFields
<1>2. P(c)
  BY <1>1
<1>3. m \in 1..n /\ P(m)
  BY <1>2
<1>4. ChunkOfSample(i) = m
  BY DEF ChunkOfSample
<1> HIDE DEF m
<1>5. ChunkStart(track, m) <= i + 1 /\ i + 1 < ChunkStart(track, m + 1)
  BY <1>1, <1>3
<1>6. ASSUME NEW d \in 1..n, NEW e \in 1..n, d < e,
             ChunkStart(track, e) <= i + 1, i + 1 < ChunkStart(track, d + 1)
      PROVE  FALSE
  <2>1. d + 1 \in 1..(n + 1) /\ e \in (d + 1)..(n + 1) /\ e \in 1..(n + 1)
    BY <1>1, <1>6
  <2>2. ChunkStart(track, d + 1) <= ChunkStart(track, e)
    BY <2>1, ChunksGrow
  <2> QED BY <1>1, <1>6, <2>1, <2>2
<1>7. ~(m < c) /\ ~(c < m)
  BY <1>3, <1>5, <1>6
<1> QED BY <1>3, <1>4, <1>7

(* The entries stand for the first i chunks.                                *)
StscEntry == [first : Nat, num : Nat, sdi : Nat]

EntryEnd(s, k, i) == IF k < Len(s) THEN s[k + 1].first ELSE i + 1

Covers(t, s, i) ==
    /\ s \in Seq(StscEntry)
    /\ i > 0 => Len(s) > 0 /\ s[1].first = 1
    /\ \A k \in 1..Len(s) :
          /\ 0 < s[k].first /\ s[k].first < EntryEnd(s, k, i) /\ EntryEnd(s, k, i) <= i + 1
          /\ \A c \in s[k].first..(EntryEnd(s, k, i) - 1) :
                t.chunks[c].num = s[k].num /\ t.chunks[c].sdi = s[k].sdi

LEMMA CoversFields ==
    ASSUME NEW t, NEW s, NEW i \in Nat, Covers(t, s, i)
    PROVE  /\ Len(s) \in Nat
           /\ \A k \in 1..Len(s) : /\ s[k].first \in Nat /\ s[k].num \in Nat /\ s[k].sdi \in Nat
                                   /\ EntryEnd(s, k, i) \in Nat
<1>1. Len(s) \in Nat /\ \A k \in 1..Len(s) : s[k] \in StscEntry
  BY DEF Covers
<1>2. \A k \in 1..Len(s) : s[k].first \in Nat /\ s[k].num \in Nat /\ s[k].sdi \in Nat
  BY <1>1 DEF StscEntry
<1>3. ASSUME NEW k \in 1..Len(s) PROVE EntryEnd(s, k, i) \in Nat
  <2>1. k < Len(s) => k + 1 \in 1..Len(s)
    BY <1>1
  <2> QED BY <1>2, <2>1 DEF EntryEnd
<1> QED BY <1>1, <1>2, <1>3

(* A chunk like the one before it.                                          *)
LEMMA CoversSame ==
    ASSUME NEW t, NEW s, NEW i \in Nat, Covers(t, s, i), i > 0,
           t.chunks[i + 1].num = t.chunks[i].num, t.chunks[i + 1].sdi = t.chunks[i].sdi
    PROVE  Covers(t, s, i + 1)
<1> DEFINE n == Len(s)
<1>1. /\ n \in Nat /\ n > 0 /\ s[1].first = 1
      /\ \A k \in 1..n : s[k].first \in Nat /\ EntryEnd(s, k, i) \in Nat
  BY CoversFields DEF Covers
<1>2. ASSUME NEW k \in 1..n
      PROVE  /\ 0 < s[k].first /\ s[k].first < EntryEnd(s, k, i + 1)
             /\ EntryEnd(s, k, i + 1) <= i + 2
             /\ \A c \in s[k].first..(EntryEnd(s, k, i + 1) - 1) :
                   t.chunks[c].num = s[k].num /\ t.chunks[c].sdi = s[k].sdi
  <2>1. /\ 0 < s[k].first /\ s[k].first < EntryEnd(s, k, i) /\ EntryEnd(s, k, i) <= i + 1
        /\ \A c \in s[k].first..(EntryEnd(s, k, i) - 1) :
              t.chunks[c].num = s[k].num /\ t.chunks[c].sdi = s[k].sdi
    BY DEF Covers
  <2>2. CASE k < n
    <3>1. EntryEnd(s, k, i + 1) = EntryEnd(s, k, i)
      BY <2>2 DEF EntryEnd
    <3> QED BY <1>1, <2>1, <3>1
  <2>3. CASE ~(k < n)
    <3>1. EntryEnd(s, k, i) = i + 1 /\ EntryEnd(s, k, i + 1) = i + 2
      BY <2>3 DEF EntryEnd
    <3>2. i \in s[k].first..(EntryEnd(s, k, i) - 1)
      BY <1>1, <2>1, <3>1
    <3>3. ASSUME NEW c \in s[k].first..(EntryEnd(s, k, i + 1) - 1)
          PROVE  t.chunks[c].num = s[k].num /\ t.chunks[c].sdi = s[k].sdi
      <4>1. c = i + 1 \/ c \in s[k].first..(EntryEnd(s, k, i) - 1)
        BY <1>1, <3>1
      <4> QED BY <2>1, <3>2, <4>1
    <3> QED BY <1>1, <2>1, <3>1, <3>3
  <2> QED BY <2>2, <2>3
<1>3. i + 1 + 1 = i + 2
  OBVIOUS
<1> QED BY <1>1, <1>2, <1>3 DEF Covers

(* A chunk that differs.                                                    *)
LEMMA CoversMore ==
    ASSUME NEW t, NEW s, NEW i \in Nat, Covers(t, s, i), NEW r \in StscEntry,
           r.first = i + 1, r.num = t.chunks[i + 1].num, r.sdi = t.chunks[i + 1].sdi
    PROVE  Covers(t, Append(s, r), i + 1)
<1> DEFINE n == Len(s)
           m == Append(s, r)
<1>1. /\ n \in Nat /\ s \in Seq(StscEntry)
      /\ \A k \in 1..n : s[k].first \in Nat /\ EntryEnd(s, k, i) \in Nat
  <2>1. s \in Seq(StscEntry)
    BY DEF Covers
  <2>2. n \in Nat /\ \A k \in 1..n : s[k].first \in Nat /\ EntryEnd(s, k, i) \in Nat
    BY CoversFields
  <2> QED BY <2>1, <2>2
<1>2. /\ m \in Seq(StscEntry) /\ Len(m) = n + 1 /\ \A k \in 1..n : m[k] = s[k]
      /\ m[n + 1] = r
  BY <1>1
<1> HIDE DEF m
<1>3. m[1].first = 1
  <2>1. CASE n = 0
    <3>1. i = 0
      BY <2>1 DEF Covers
    <3> QED BY <1>2, <2>1, <3>1
  <2>2. CASE n # 0
    <3>1. 1 \in 1..n /\ s[1].first < EntryEnd(s, 1, i) /\ EntryEnd(s, 1, i) <= i + 1
          /\ 0 < s[1].first
      BY <1>1, <2>2 DEF Covers
    <3>2. i > 0
      BY <1>1, <3>1
    <3> QED BY <1>2, <3>1, <3>2 DEF Covers
  <2> QED BY <2>1, <2>2
<1>4. ASSUME NEW k \in 1..(n + 1)
      PROVE  /\ 0 < m[k].first /\ m[k].first < EntryEnd(m, k, i + 1)
             /\ EntryEnd(m, k, i + 1) <= i + 2
             /\ \A c \in m[k].first..(EntryEnd(m, k, i + 1) - 1) :
                   t.chunks[c].num = m[k].num /\ t.chunks[c].sdi = m[k].sdi
  <2>1. CASE k = n + 1
    <3>1. EntryEnd(m, k, i + 1) = i + 2 /\ m[k] = r
      BY <1>1, <1>2, <2>1 DEF EntryEnd
    <3>2. \A c \in (i + 1)..((i + 2) - 1) : c = i + 1
      OBVIOUS
    <3> QED BY <3>1, <3>2
  <2>2. CASE k # n + 1
    <3>1. k \in 1..n /\ k < Len(m) /\ m[k] = s[k]
      BY <1>1, <1>2, <2>2
    <3>2. EntryEnd(m, k, i + 1) = EntryEnd(s, k, i)
      <4>1. CASE k = n
        <5>1. EntryEnd(m, k, i + 1) = i + 1
          BY <1>2, <3>1, <4>1 DEF EntryEnd
        <5>2. EntryEnd(s, k, i) = i + 1
          BY <1>1, <4>1 DEF EntryEnd
        <5> QED BY <5>1, <5>2
      <4>2. CASE k # n
        <5>1. k + 1 \in 1..n /\ k < n
          BY <1>1, <3>1, <4>2
        <5> QED BY <1>2, <3>1, <5>1 DEF EntryEnd
      <4> QED BY <4>1, <4>2
    <3>3. /\ 0 < s[k].first /\ s[k].first < EntryEnd(s, k, i) /\ EntryEnd(s, k, i) <= i + 1
          /\ \A c \in s[k].first..(EntryEnd(s, k, i) - 1) :
                t.chunks[c].num = s[k].num /\ t.chunks[c].sdi = s[k].sdi
      BY <3>1 DEF Covers
    <3> QED BY <1>1, <3>1, <3>2, <3>3
  <2> QED BY <2>1, <2>2
<1>5. i + 1 + 1 = i + 2
  OBVIOUS
<1> QED BY <1>1, <1>2, <1>3, <1>4, <1>5 DEF Covers, m

(* The function that Stsc is the last value of.                             *)
IsChunkRuns(t, h) ==
    h = [i \in 0..Len(t.chunks) |->
            IF i = 0 THEN << >>
            ELSE IF Differs(t, i)
            THEN Append(h[i - 1], [first |-> i, num |-> t.chunks[i].num,
                                   sdi |-> t.chunks[i].sdi])
            ELSE h[i - 1]]

LEMMA ChunkRunsExist ==
    ASSUME NEW t, Len(t.chunks) \in Nat,
           \A c \in 1..Len(t.chunks) : t.chunks[c].num \in Nat /\ t.chunks[c].sdi \in Nat
    PROVE  \E h : IsChunkRuns(t, h)
<1> DEFINE n == Len(t.chunks)
           S == Seq(StscEntry)
           r(i) == [first |-> i, num |-> t.chunks[i].num, sdi |-> t.chunks[i].sdi]
           step(i, x) == IF Differs(t, i) THEN Append(x, r(i)) ELSE x
           g == [i \in 1..n |-> [x \in S |-> step(i, x)]]
<1>1. n \in Nat /\ \A i \in 1..n : t.chunks[i].num \in Nat /\ t.chunks[i].sdi \in Nat
  OBVIOUS
<1>2. n \in Nat
  BY <1>1
<1>3. ASSUME NEW i \in 1..n, NEW x \in S PROVE step(i, x) \in S
  <2>1. r(i) \in StscEntry
    BY <1>1 DEF StscEntry
  <2> HIDE DEF r
  <2>2. Append(x, r(i)) \in S
    BY <2>1
  <2> HIDE DEF S
  <2> QED BY <2>2
<1>4. << >> \in S
  OBVIOUS
<1> HIDE DEF step
<1>5. g \in [1..n -> [S -> S]]
  <2> HIDE DEF S
  <2> QED BY <1>3
<1> HIDE DEF S, g, n, r
<1>7. PICK f \in [0..n -> S] : IsIterated(n, << >>, g, f)
  BY <1>2, <1>4, <1>5, Iterates
<1>8. ASSUME NEW k \in 0..n, k # 0 PROVE g[k][f[k - 1]] = step(k, f[k - 1])
  <2>1. k \in 1..n /\ k - 1 \in 0..n
    BY <1>2, <1>8
  <2>2. f[k - 1] \in S
    BY <2>1
  <2> QED BY <2>1, <2>2 DEF g
<1>9. f = [k \in 0..n |-> IF k = 0 THEN << >> ELSE step(k, f[k - 1])]
  BY <1>7, <1>8 DEF IsIterated
<1> QED BY <1>9 DEF IsChunkRuns, n, step, r

LEMMA StscCovers ==
    ASSUME NEW t, IsIntaken(t)
    PROVE  Covers(t, Stsc(t), Len(t.chunks))
<1> DEFINE n == Len(t.chunks)
           h == CHOOSE f : IsChunkRuns(t, f)
           r(i) == [first |-> i, num |-> t.chunks[i].num, sdi |-> t.chunks[i].sdi]
           D == {k \in Nat : Covers(t, h[k], k)}
<1>1. n \in Nat /\ \A i \in 1..n : t.chunks[i].num \in Nat /\ t.chunks[i].sdi \in Nat
  BY ChunkFields
<1>2. IsChunkRuns(t, h)
  BY ChunkFields, ChunkRunsExist
<1>3. Stsc(t) = h[n]
  BY DEF Stsc, IsChunkRuns
<1> HIDE DEF h
<1>4. \A i \in 0..n : h[i] = IF i = 0 THEN << >>
                             ELSE IF Differs(t, i) THEN Append(h[i - 1], r(i)) ELSE h[i - 1]
  <2> DEFINE q == [i \in 0..n |-> IF i = 0 THEN << >>
                     ELSE IF Differs(t, i) THEN Append(h[i - 1], r(i)) ELSE h[i - 1]]
  <2>1. h = q
    BY <1>2 DEF IsChunkRuns
  <2>2. \A i \in 0..n : q[i] = IF i = 0 THEN << >>
                     ELSE IF Differs(t, i) THEN Append(h[i - 1], r(i)) ELSE h[i - 1]
    OBVIOUS
  <2> HIDE DEF q
  <2> QED BY <2>1, <2>2
<1> HIDE DEF n
<1>5. 0 \in D
  <2>1. h[0] = << >>
    <3>1. 0 \in 0..n
      BY <1>1
    <3> HIDE DEF r
    <3> QED BY <1>4, <3>1
  <2>2. Len(<< >>) = 0 /\ << >> \in Seq(StscEntry) /\ 1..0 = {}
    OBVIOUS
  <2>3. Covers(t, << >>, 0)
    BY <2>2 DEF Covers
  <2> QED BY <2>1, <2>3
<1>6. ASSUME NEW k \in 0..(n - 1), k \in D PROVE k + 1 \in D
  <2>1. /\ k \in Nat /\ k + 1 \in 0..n /\ k + 1 \in 1..n /\ (k + 1) - 1 = k /\ k + 1 # 0
    BY <1>1
  <2>2. Covers(t, h[k], k)
    BY <1>6
  <2>3. CASE Differs(t, k + 1)
    <3>1. h[k + 1] = Append(h[k], r(k + 1))
      BY <1>4, <2>1, <2>3
    <3>2. /\ r(k + 1) \in StscEntry /\ r(k + 1).first = k + 1
          /\ r(k + 1).num = t.chunks[k + 1].num /\ r(k + 1).sdi = t.chunks[k + 1].sdi
      BY <1>1, <2>1 DEF StscEntry
    <3> HIDE DEF r
    <3>3. Covers(t, Append(h[k], r(k + 1)), k + 1)
      BY <2>1, <2>2, <3>2, CoversMore
    <3>4. Covers(t, h[k + 1], k + 1)
      BY <3>1, <3>3
    <3> QED BY <2>1, <3>4
  <2>4. CASE ~Differs(t, k + 1)
    <3>1. h[k + 1] = h[k]
      BY <1>4, <2>1, <2>4
    <3>2. /\ k + 1 # 1 /\ t.chunks[k + 1].num = t.chunks[k].num
          /\ t.chunks[k + 1].sdi = t.chunks[k].sdi
      BY <2>1, <2>4 DEF Differs
    <3>3. k > 0
      BY <2>1, <3>2
    <3>4. Covers(t, h[k], k + 1)
      BY <2>1, <2>2, <3>2, <3>3, CoversSame
    <3> QED BY <2>1, <3>1, <3>4
  <2> QED BY <2>3, <2>4
<1>7. n \in D
  <2> HIDE DEF D
  <2>1. 0 \in Int /\ n \in Int /\ \A k \in 0..(n - 1) : k \in D => k + 1 \in D
    BY <1>1, <1>6
  <2>2. \A k \in 0..n : k \in D
    BY <1>5, <2>1, Upwards
  <2> QED BY <1>1, <2>2
<1> QED BY <1>3, <1>7 DEF n

(* Equal chunks one after the other.                                        *)
LEMMA ChunksEven ==
    ASSUME NEW t, IsIntaken(t), NEW a \in 1..Len(t.chunks), NEW b \in a..(Len(t.chunks) + 1),
           NEW w \in Nat, \A c \in a..(b - 1) : t.chunks[c].num = w
    PROVE  \A c \in a..b : ChunkStart(t, c) = ChunkStart(t, a) + (c - a) * w
<1> DEFINE n == Len(t.chunks)
           S == {c \in a..b : ChunkStart(t, c) = ChunkStart(t, a) + (c - a) * w}
<1>1. /\ n \in Nat /\ \A i \in 1..(n + 1) : ChunkStart(t, i) \in Nat
      /\ \A i \in 1..n : ChunkStart(t, i + 1) = ChunkStart(t, i) + t.chunks[i].num
  BY ChunkFields
<1>2. a \in S
  <2>1. a - a = 0 /\ 0 * w = 0 /\ ChunkStart(t, a) \in Nat /\ a \in a..b
    BY <1>1
  <2>2. ChunkStart(t, a) = ChunkStart(t, a) + (a - a) * w
    BY <2>1
  <2> QED BY <2>1, <2>2
<1>3. ASSUME NEW c \in a..(b - 1), c \in S PROVE c + 1 \in S
  <2>1. /\ c \in 1..n /\ c + 1 \in a..b /\ (c + 1) - a = (c - a) + 1 /\ c - a \in Nat
        /\ a \in 1..(n + 1)
    BY <1>1
  <2>2. ((c - a) + 1) * w = (c - a) * w + w /\ (c - a) * w \in Nat
    BY <2>1, TimesNext
  <2>3. /\ ChunkStart(t, c + 1) = ChunkStart(t, c) + w /\ ChunkStart(t, a) \in Nat
        /\ ChunkStart(t, c) = ChunkStart(t, a) + (c - a) * w
    BY <1>1, <1>3, <2>1
  <2>4. ChunkStart(t, c + 1) = ChunkStart(t, a) + ((c + 1) - a) * w
    <3> DEFINE x == (c - a) * w
    <3>1. ChunkStart(t, c + 1) = (ChunkStart(t, a) + x) + w /\ x \in Nat
      BY <2>2, <2>3
    <3>2. ((c + 1) - a) * w = x + w
      BY <2>1, <2>2
    <3> HIDE DEF x
    <3> QED BY <2>3, <3>1, <3>2
  <2> QED BY <2>1, <2>4
<1> HIDE DEF S
<1>4. a \in Int /\ b \in Int /\ \A c \in a..(b - 1) : c \in S => c + 1 \in S
  BY <1>3
<1>5. \A c \in a..b : c \in S
  BY <1>2, <1>4, Upwards
<1> QED BY <1>5 DEF S

LEMMA EntryStarts ==
    ASSUME NEW t, IsIntaken(t), NEW s, Covers(t, s, Len(t.chunks))
    PROVE  /\ \A k \in 1..(Len(s) - 1) : SamplesOf(s)[k] \in Nat
           /\ \A e \in 1..Len(s) :
                SumOver(SamplesOf(s), 1, e - 1) = ChunkStart(t, s[e].first) - 1
<1> DEFINE n == Len(t.chunks)
           L == Len(s)
           S == {e \in 1..L : SumOver(SamplesOf(s), 1, e - 1) = ChunkStart(t, s[e].first) - 1}
<1>1. /\ L \in Nat /\ n \in Nat
      /\ \A k \in 1..L : s[k].first \in Nat /\ s[k].num \in Nat
  BY ChunkFields, CoversFields
<1>2. L > 0 /\ s[1].first = 1 /\ ChunkStart(t, 1) = 1
  BY ChunkFields DEF Covers
<1>3. ASSUME NEW k \in 1..(L - 1)
      PROVE  /\ SamplesOf(s)[k] = (s[k + 1].first - s[k].first) * s[k].num
             /\ SamplesOf(s)[k] \in Nat
             /\ ChunkStart(t, s[k + 1].first) = ChunkStart(t, s[k].first) + SamplesOf(s)[k]
             /\ ChunkStart(t, s[k].first) \in Nat
  <2>1. k \in 1..L /\ k + 1 \in 1..L /\ k < L
    BY <1>1
  <2>2. EntryEnd(s, k, n) = s[k + 1].first
    BY <2>1 DEF EntryEnd
  <2> DEFINE a == s[k].first
             b == s[k + 1].first
             w == s[k].num
  <2>3. a \in Nat /\ b \in Nat /\ w \in Nat
    BY <1>1, <2>1
  <2>4. 0 < a /\ a < b /\ b <= n + 1 /\ \A c \in a..(b - 1) : t.chunks[c].num = w
    BY <2>1, <2>2 DEF Covers
  <2>5. SamplesOf(s)[k] = (b - a) * w
    BY DEF SamplesOf
  <2> HIDE DEF a, b, w
  <2>6. a \in 1..n /\ b \in a..(n + 1) /\ b - a \in Nat
    BY <1>1, <2>3, <2>4
  <2>7. ChunkStart(t, b) = ChunkStart(t, a) + (b - a) * w
    <3>1. b \in a..b
      BY <2>3, <2>6
    <3>2. \A c \in a..b : ChunkStart(t, c) = ChunkStart(t, a) + (c - a) * w
      BY <2>3, <2>4, <2>6, ChunksEven
    <3> QED BY <3>1, <3>2
  <2>8. (b - a) * w \in Nat
    BY <2>3, <2>6
  <2>9. ChunkStart(t, a) \in Nat
    BY <1>1, <2>6, ChunkFields
  <2> QED BY <2>5, <2>7, <2>8, <2>9 DEF a, b, w
<1>4. 1 \in S
  <2>1. SumOver(SamplesOf(s), 1, 0) = 0
    BY SumEmpty
  <2>2. 1 - 1 = 0 /\ 1 \in 1..L
    BY <1>1, <1>2
  <2> QED BY <1>2, <2>1, <2>2
<1>5. ASSUME NEW k \in 1..(L - 1), k \in S PROVE k + 1 \in S
  <2>1. (k + 1) - 1 = k /\ k \in Int /\ 1 <= k /\ k + 1 \in 1..L /\ 1 \in Int
    BY <1>1
  <2>2. SumOver(SamplesOf(s), 1, k) = SumOver(SamplesOf(s), 1, k - 1) + SamplesOf(s)[k]
    BY <2>1, SumNext
  <2>3. SumOver(SamplesOf(s), 1, k - 1) = ChunkStart(t, s[k].first) - 1
    BY <1>5
  <2>4. SumOver(SamplesOf(s), 1, k) = ChunkStart(t, s[k + 1].first) - 1
    <3> DEFINE x == ChunkStart(t, s[k].first)
               y == SamplesOf(s)[k]
               z == ChunkStart(t, s[k + 1].first)
    <3>1. x \in Nat /\ y \in Nat /\ z = x + y
      BY <1>3
    <3> HIDE DEF x, y, z
    <3>2. (x - 1) + y = z - 1
      BY <3>1
    <3> QED BY <2>2, <2>3, <3>2 DEF x, y, z
  <2> QED BY <2>1, <2>4
<1> HIDE DEF S
<1>6. 1 \in Int /\ L \in Int /\ \A k \in 1..(L - 1) : k \in S => k + 1 \in S
  BY <1>1, <1>5
<1>7. \A k \in 1..L : k \in S
  BY <1>4, <1>6, Upwards
<1> QED BY <1>3, <1>7 DEF S

(* A cursor of stsc is at its entry.                                        *)
StscSits(c) ==
    /\ c.entry \in 1..Len(tables.stsc)
    /\ c.idx0 = SumOver(SamplesOf(tables.stsc), 1, c.entry - 1)

LEMMA StscFacts ==
    ASSUME tables = Stbl(track), IsIntaken(track)
    PROVE  /\ Covers(track, tables.stsc, Len(track.chunks))
           /\ Len(tables.stsc) \in Nat /\ Len(tables.stsc) > 0
           /\ StscSits(Start)
<1>1. Covers(track, tables.stsc, Len(track.chunks))
  <2>1. tables.stsc = Stsc(track)
    BY DEF Stbl
  <2> QED BY <2>1, StscCovers
<1>2. Len(tables.stsc) \in Nat /\ Len(tables.stsc) > 0
  BY <1>1, ChunkFields, CoversFields DEF Covers
<1>3. StscSits(Start)
  <2>1. 1 \in 1..Len(tables.stsc) /\ 1 - 1 = 0 /\ SumOver(SamplesOf(tables.stsc), 1, 0) = 0
    BY <1>2, SumEmpty
  <2> QED BY <2>1 DEF StscSits, Start
<1> QED BY <1>1, <1>2, <1>3

LEMMA StscMoves ==
    ASSUME tables = Stbl(track), IsIntaken(track), NEW c, StscSits(c),
           NEW e \in c.entry..Len(tables.stsc)
    PROVE  /\ StscSits(StscSkip(c, e))
           /\ StscSkip(c, e) = [entry |-> e, idx0 |-> ChunkStart(track, tables.stsc[e].first) - 1]
<1> DEFINE L == Len(tables.stsc)
           v == SamplesOf(tables.stsc)
<1>1. /\ L \in Nat /\ L > 0 /\ \A k \in 1..(L - 1) : v[k] \in Nat
      /\ \A k \in 1..L : SumOver(v, 1, k - 1) = ChunkStart(track, tables.stsc[k].first) - 1
  BY StscFacts, EntryStarts
<1>2. c.entry \in 1..L /\ e \in 1..L /\ L - 1 \in Nat /\ (L - 1) + 1 = L
  BY <1>1 DEF StscSits
<1>3. SumOver(v, 1, c.entry - 1) + SumOver(v, c.entry, e - 1) = SumOver(v, 1, e - 1)
  <2> HIDE DEF v
  <2>1. c.entry \in 1..((L - 1) + 1) /\ e \in c.entry..((L - 1) + 1)
    BY <1>2
  <2> HIDE DEF L
  <2> QED BY <1>1, <1>2, <2>1, SumOn
<1>4. StscSkip(c, e) = [entry |-> e, idx0 |-> SumOver(v, 1, e - 1)]
  BY <1>3 DEF StscSkip, StscSits
<1> QED BY <1>1, <1>2, <1>4 DEF StscSits

(* The entry of a sample, and its chunk there.                              *)
LEMMA StscBySample ==
    ASSUME tables = Stbl(track), IsIntaken(track), StscSits(stsc), NEW i \in Nat,
           i < sampleNum(track)
    PROVE  LET c == StscAtSample(i)
               s == tables.stsc
           IN  /\ StscSits(c)
               /\ c = [entry |-> c.entry, idx0 |-> ChunkStart(track, s[c.entry].first) - 1]
               /\ c.idx0 <= i
               /\ i < ChunkStart(track, EntryEnd(s, c.entry, Len(track.chunks))) - 1
<1> DEFINE n == Len(tables.stsc)
           z == Len(track.chunks)
           s == tables.stsc
           c == IF i < stsc.idx0 THEN Start ELSE stsc
           F == {k \in c.entry..n : k = n \/ i < StscSkip(c, k + 1).idx0}
           e == FirstFrom(c, n, F)
           B == [k \in 1..(n + 1) |-> IF k = n + 1 THEN sampleNum(track)
                                      ELSE ChunkStart(track, s[k].first) - 1]
<1>1. /\ n \in Nat /\ n > 0 /\ z \in Nat
      /\ \A k \in 1..n : SumOver(SamplesOf(s), 1, k - 1) = ChunkStart(track, s[k].first) - 1
      /\ StscSits(Start) /\ Start.entry = 1 /\ s[1].first = 1 /\ ChunkStart(track, 1) = 1
  <2>1. Covers(track, s, z) /\ n \in Nat /\ n > 0 /\ StscSits(Start)
    BY StscFacts
  <2>2. z \in Nat /\ z > 0 /\ ChunkStart(track, 1) = 1
    BY ChunkFields
  <2>3. s[1].first = 1
    BY <2>1, <2>2 DEF Covers
  <2>4. \A k \in 1..n : SumOver(SamplesOf(s), 1, k - 1) = ChunkStart(track, s[k].first) - 1
    BY <2>1, EntryStarts
  <2>5. Start.entry = 1
    BY DEF Start
  <2> QED BY <2>1, <2>2, <2>3, <2>4, <2>5
<1>2. /\ B[n + 1] = sampleNum(track) /\ sampleNum(track) \in Nat
      /\ \A k \in 1..n : B[k] = ChunkStart(track, s[k].first) - 1 /\ B[k] \in Int
  <2>1. sampleNum(track) \in Nat
    BY EndsTimes
  <2>2. ASSUME NEW k \in 1..n PROVE ChunkStart(track, s[k].first) \in Nat
    <3>1. s[k].first \in Nat /\ 0 < s[k].first /\ s[k].first < EntryEnd(s, k, z)
          /\ EntryEnd(s, k, z) <= z + 1 /\ EntryEnd(s, k, z) \in Nat
      <4>1. Covers(track, s, z) /\ z \in Nat
        BY <1>1, StscFacts
      <4>2. s[k].first \in Nat /\ EntryEnd(s, k, z) \in Nat
        BY <4>1, CoversFields
      <4>3. /\ 0 < s[k].first /\ s[k].first < EntryEnd(s, k, z)
            /\ EntryEnd(s, k, z) <= z + 1
        BY <4>1 DEF Covers
      <4> QED BY <4>2, <4>3
    <3>2. s[k].first \in 1..(z + 1)
      BY <1>1, <3>1
    <3> QED BY <3>2, ChunkFields
  <2>3. B[n + 1] = sampleNum(track)
    BY <1>1
  <2>4. ASSUME NEW k \in 1..n
        PROVE  B[k] = ChunkStart(track, s[k].first) - 1 /\ B[k] \in Int
    <3>1. k # n + 1 /\ k \in 1..(n + 1)
      BY <1>1
    <3>2. B[k] = ChunkStart(track, s[k].first) - 1
      BY <3>1
    <3> HIDE DEF B
    <3> QED BY <2>2, <3>2
  <2> HIDE DEF B
  <2> QED BY <2>1, <2>3, <2>4
<1>3. StscSits(c) /\ c.entry \in 1..n
  BY <1>1 DEF StscSits
<1>4. B[c.entry] <= i
  <2>1. CASE i < stsc.idx0
    <3>1. c.entry = 1 /\ 1 \in 1..n
      BY <1>1, <2>1
    <3>2. B[1] = ChunkStart(track, s[1].first) - 1
      BY <1>2, <3>1
    <3>3. B[1] = 0
      BY <1>1, <3>2
    <3> QED BY <3>1, <3>3
  <2>2. CASE ~(i < stsc.idx0)
    <3>1. c = stsc /\ stsc.entry \in 1..n
          /\ stsc.idx0 = SumOver(SamplesOf(s), 1, stsc.entry - 1)
      BY <1>1, <2>2 DEF StscSits
    <3>2. stsc.idx0 = B[stsc.entry] /\ B[stsc.entry] \in Int
      BY <1>1, <1>2, <3>1
    <3> HIDE DEF B
    <3> QED BY <2>2, <3>1, <3>2
  <2> QED BY <2>1, <2>2
<1> HIDE DEF c, B
<1>5. \A k \in c.entry..n : k \in F <=> i < B[k + 1]
  <2> SUFFICES ASSUME NEW k \in c.entry..n PROVE k \in F <=> i < B[k + 1]
    OBVIOUS
  <2>1. CASE k = n
    BY <1>2, <2>1
  <2>2. CASE k # n
    <3>1. k + 1 \in c.entry..n /\ k + 1 \in 1..n
      BY <1>1, <1>3, <2>2
    <3>2. StscSkip(c, k + 1).idx0 = ChunkStart(track, s[k + 1].first) - 1
      BY <1>3, <3>1, StscMoves
    <3> QED BY <1>2, <2>2, <3>1, <3>2
  <2> QED BY <2>1, <2>2
<1> HIDE DEF F
<1>6. e \in c.entry..(n + 1) /\ B[e] <= i /\ (e <= n => i < B[e + 1])
  <2>1. ASSUME NEW k \in 1..(n + 1) PROVE B[k] \in Int
    <3>1. k \in 1..n \/ k = n + 1
      BY <1>1
    <3> QED BY <1>2, <3>1
  <2>2. n \in Nat /\ i \in Int /\ c.entry \in 1..(n + 1)
    BY <1>1, <1>3
  <2> HIDE DEF n
  <2> QED BY <1>4, <1>5, <2>1, <2>2, Located
<1>7. StscAtSample(i) = StscSkip(c, e)
  BY DEF StscAtSample, c, F, e
<1> HIDE DEF e
<1>8. e \in c.entry..n /\ e \in 1..n
  <2>1. e # n + 1
    BY <1>2, <1>6
  <2> QED BY <1>1, <1>3, <1>6, <2>1
<1>9. /\ StscSits(StscSkip(c, e))
      /\ StscSkip(c, e) = [entry |-> e, idx0 |-> ChunkStart(track, s[e].first) - 1]
  BY <1>3, <1>8, StscMoves
<1>10. ChunkStart(track, s[e].first) - 1 <= i /\ i < ChunkStart(track, EntryEnd(s, e, z)) - 1
  <2>1. ChunkStart(track, s[e].first) - 1 <= i /\ i < B[e + 1]
    BY <1>1, <1>2, <1>6, <1>8
  <2>2. CASE e = n
    <3>1. EntryEnd(s, e, z) = z + 1
      BY <1>1, <2>2 DEF EntryEnd
    <3>2. ChunkStart(track, z + 1) = sampleNum(track) + 1
      BY ChunkFields
    <3> QED BY <1>2, <2>1, <2>2, <3>1, <3>2
  <2>3. CASE e # n
    <3>1. e + 1 \in 1..n /\ e < n
      BY <1>1, <1>8, <2>3
    <3>2. EntryEnd(s, e, z) = s[e + 1].first
      BY <3>1 DEF EntryEnd
    <3> QED BY <1>2, <2>1, <3>1, <3>2
  <2> QED BY <2>2, <2>3
<1> QED BY <1>7, <1>9, <1>10

LEMMA Remainder ==
    ASSUME NEW a \in Nat, NEW b \in Nat, b > 0
    PROVE  /\ a \div b \in Nat /\ (a % b) \in Nat /\ a = (a \div b) * b + (a % b)
           /\ (a \div b) * b \in Nat /\ (a % b) < b
<1>1. (a % b) = a - b * (a \div b)
  OBVIOUS
<1>2. (a % b) \in Nat
  OBVIOUS
<1>3. (a % b) < b
  OBVIOUS
<1>4. (a \div b) \in Nat
  OBVIOUS
<1> DEFINE q == a \div b
           r == a % b
<1>5. q \in Nat /\ r \in Nat /\ r < b /\ r = a - b * q
  BY <1>1, <1>2, <1>3, <1>4
<1> HIDE DEF q, r
<1>6. b * q = q * b /\ q * b \in Nat
  BY <1>5
<1>7. a = q * b + r
  BY <1>5, <1>6
<1> QED BY <1>5, <1>6, <1>7 DEF q, r

(* sample_offset: the chunk, and the samples before it there.               *)
LEMMA OffsetIs ==
    ASSUME tables = Stbl(track), IsIntaken(track), StscSits(stsc), NEW i \in Nat,
           i < sampleNum(track)
    PROVE  LET c     == StscAtSample(i)
               e     == tables.stsc[c.entry]
               chunk == e.first + (i - c.idx0) \div e.num
               first == i - ((i - c.idx0) % e.num)
           IN  [offset |-> tables.stco[chunk] + BytesOf(first, i), sdi |-> e.sdi] = TrueOffset(i)
<1> DEFINE s == tables.stsc
           z == Len(track.chunks)
           c == StscAtSample(i)
           k == c.entry
           w == s[k].num
           f == s[k].first
           end == EntryEnd(s, k, z)
           a == i - c.idx0
           q == a \div w
           r == a % w
           chunk == f + q
           first == i - r
           start == ChunkStart(track, f)
<1>1. /\ StscSits(c) /\ c.idx0 = start - 1 /\ c.idx0 <= i
      /\ i < ChunkStart(track, end) - 1
  BY StscBySample
<1>1a. i < ChunkStart(track, end) - 1
  BY <1>1
<1>2. Covers(track, s, z) /\ z \in Nat
  BY StscFacts, ChunkFields
<1>3. k \in 1..Len(s)
  BY <1>1 DEF StscSits
<1> HIDE DEF c, k
<1>4. f \in Nat /\ w \in Nat /\ end \in Nat
  BY <1>2, <1>3, CoversFields
<1>5. /\ 0 < f /\ f < end /\ end <= z + 1
      /\ \A d \in f..(end - 1) : track.chunks[d].num = w /\ track.chunks[d].sdi = s[k].sdi
  BY <1>2, <1>3 DEF Covers
<1> HIDE DEF end, w, f
<1>6. f \in 1..z /\ f \in 1..(z + 1) /\ end \in f..(z + 1) /\ f \in f..(end - 1)
  BY <1>2, <1>4, <1>5
<1>7. start \in Nat
  BY <1>6, ChunkFields
<1>8. w > 0
  BY <1>5, <1>6, ChunkFields
<1> HIDE DEF z
<1>9. \A d \in f..end : ChunkStart(track, d) = start + (d - f) * w
  <2>1. \A d \in f..(end - 1) : track.chunks[d].num = w
    BY <1>5
  <2> QED BY <1>4, <1>6, <2>1, ChunksEven DEF z
<1> HIDE DEF start
<1>10. a \in Nat /\ a = i - (start - 1) /\ i = (start - 1) + a
  BY <1>1, <1>7
<1> HIDE DEF a
<1>11. q \in Nat /\ r \in Nat /\ a = q * w + r /\ q * w \in Nat /\ r < w
  BY <1>4, <1>8, <1>10, Remainder
<1> HIDE DEF q, r
<1>12. q < end - f
  <2>1. end \in f..end /\ end - f \in Nat
    BY <1>4, <1>5
  <2>2. ChunkStart(track, end) = start + (end - f) * w
    BY <1>9, <2>1
  <2> DEFINE u == end - f
  <2>3. u \in Nat /\ i < start + u * w - 1
    <3> DEFINE x == u * w
               y == ChunkStart(track, end)
    <3>1. y = start + x
      BY <2>2
    <3>2. i < y - 1 /\ x \in Int
      BY <1>1a, <1>4, <2>1
    <3> HIDE DEF x, y
    <3>3. i < start + x - 1
      BY <1>7, <3>1, <3>2
    <3> QED BY <2>1, <3>3 DEF x
  <2> HIDE DEF u
  <2>4. u * w \in Nat
    BY <1>4, <2>3
  <2>5. q * w < u * w
    <3> DEFINE x == u * w
               y == q * w
    <3>1. x \in Nat /\ y \in Nat /\ a = y + r /\ i < start + x - 1
      BY <1>11, <2>3, <2>4
    <3> HIDE DEF x, y
    <3>2. y < x
      BY <1>7, <1>10, <1>11, <3>1
    <3> QED BY <3>2 DEF x, y
  <2>6. q < u
    BY <1>4, <1>11, <2>3, <2>5, ProductLess
  <2> QED BY <2>6 DEF u
<1>13. /\ chunk \in f..(end - 1) /\ chunk \in f..end /\ chunk + 1 \in f..end /\ chunk \in 1..z
       /\ chunk - f = q /\ (chunk + 1) - f = q + 1
  BY <1>2, <1>4, <1>5, <1>11, <1>12
<1>14. /\ ChunkStart(track, chunk) = start + q * w
       /\ ChunkStart(track, chunk + 1) = start + (q * w + w)
  <2>1. (q + 1) * w = q * w + w
    BY <1>4, <1>11, TimesNext
  <2> HIDE DEF chunk
  <2>2. ChunkStart(track, chunk) = start + q * w
    BY <1>9, <1>13
  <2>3. ChunkStart(track, chunk + 1) = start + (q + 1) * w
    BY <1>9, <1>13
  <2> QED BY <2>1, <2>2, <2>3
<1>15. track.chunks[chunk].sdi = s[k].sdi
  BY <1>5, <1>13
<1> HIDE DEF chunk
<1>16. /\ ChunkStart(track, chunk) <= i + 1 /\ i + 1 < ChunkStart(track, chunk + 1)
       /\ first = ChunkStart(track, chunk) - 1 /\ first \in Nat /\ first <= i
  <2> DEFINE y == q * w
  <2>1. /\ y \in Nat /\ a = y + r /\ ChunkStart(track, chunk) = start + y
        /\ ChunkStart(track, chunk + 1) = start + (y + w)
    BY <1>11, <1>14
  <2>2. start >= 1
    <3>1. 1 \in 1..(z + 1) /\ f \in 1..(z + 1) /\ ChunkStart(track, 1) = 1
      BY <1>2, <1>6, ChunkFields
    <3>2. ChunkStart(track, 1) <= ChunkStart(track, f)
      BY <3>1, ChunksGrow DEF z
    <3> QED BY <3>1, <3>2 DEF start
  <2> HIDE DEF y
  <2> QED BY <1>4, <1>7, <1>10, <1>11, <2>1, <2>2
<1>17. ChunkOfSample(i) = chunk
  BY <1>13, <1>16, ChunkIs DEF z
<1>18. track.chunks[chunk].idx - 1 = first
  BY <1>13, <1>16, ChunkFields DEF z
<1> HIDE DEF first
<1>19. tables.stco[chunk] = track.chunks[chunk].offset
  BY <1>13 DEF Stbl, Stco, z
<1> DEFINE sizes == [j \in 0..(sampleNum(track) - 1) |-> RunValue(track.sizes, j)]
           bytes == [j \in first..(i - 1) |-> SizeOf(j)]
<1>20. SumOver(bytes, first, i - 1) = SumOver(sizes, first, i - 1)
  <2>1. sampleNum(track) \in Nat
    BY EndsTimes
  <2>2. ASSUME NEW j \in first..(i - 1) PROVE bytes[j] = sizes[j]
    <3>1. j \in Nat /\ j \in 0..(sampleNum(track) - 1) /\ ~(j >= sampleNum(track))
      BY <1>16, <2>1
    <3>2. Clamp(j) = j
      BY <3>1 DEF Clamp
    <3>3. SizeOf(j) = RunValue(track.sizes, j)
      BY <3>1, <3>2, SizeIs
    <3> QED BY <3>1, <3>3
  <2>3. first \in Int /\ i - 1 \in Int
    BY <1>16
  <2> HIDE DEF bytes, sizes
  <2> QED BY <2>2, <2>3, SumSame
<1>21. BytesOf(first, i) = SumOver(sizes, first, i - 1)
  BY <1>20 DEF BytesOf
<1>22. TrueOffset(i) = [offset |-> track.chunks[chunk].offset + SumOver(sizes, first, i - 1),
                        sdi |-> track.chunks[chunk].sdi]
  BY <1>17, <1>18 DEF TrueOffset
<1>23. [offset |-> tables.stco[chunk] + BytesOf(first, i), sdi |-> s[k].sdi] = TrueOffset(i)
  BY <1>15, <1>19, <1>21, <1>22
<1> QED BY <1>23 DEF chunk, first, f, w, q, r, a, k, c

-----------------------------------------------------------------------------
(* Sync samples.                                                            *)
LEMMA SyncFields ==
    ASSUME NEW t, IsIntaken(t)
    PROVE  /\ Len(t.sync) \in Nat
           /\ \A k \in 1..Len(t.sync) : /\ t.sync[k] \in Nat /\ t.sync[k] < sampleNum(t)
                                        /\ k - 1 <= t.sync[k]
           /\ \A k \in 1..Len(t.sync) : \A l \in k..Len(t.sync) :
                t.sync[l] >= t.sync[k] + (l - k)
<1> DEFINE n == Len(t.sync)
           z == sampleNum(t)
<1>1. z \in Nat
  BY EndsTimes
<1>2. n \in Nat /\ \A k \in 1..n : t.sync[k] \in Nat /\ t.sync[k] < z
  <2>1. t.sync \in Seq(0..(z - 1))
    BY DEF IsIntaken
  <2> DEFINE R == 0..(z - 1)
  <2>2. t.sync \in Seq(R)
    BY <2>1
  <2> HIDE DEF R
  <2>3. n \in Nat /\ \A k \in 1..n : t.sync[k] \in R
    BY <2>2
  <2> HIDE DEF n, z
  <2> QED BY <1>1, <2>3 DEF R
<1>3. \A k \in 1..(n - 1) : t.sync[k] < t.sync[k + 1]
  BY DEF IsIntaken
<1> HIDE DEF n, z
<1>4. ASSUME NEW k \in 1..n, NEW l \in k..n PROVE t.sync[l] >= t.sync[k] + (l - k)
  <2> DEFINE S == {m \in k..n : t.sync[m] >= t.sync[k] + (m - k)}
  <2>1. k \in S
    <3>1. t.sync[k] \in Nat /\ k \in k..n /\ k - k = 0
      BY <1>2
    <3>2. t.sync[k] >= t.sync[k] + (k - k)
      BY <3>1
    <3> QED BY <3>1, <3>2
  <2>2. ASSUME NEW m \in k..(n - 1), m \in S PROVE m + 1 \in S
    <3>1. m \in 1..(n - 1) /\ m \in 1..n /\ m + 1 \in 1..n /\ m + 1 \in k..n /\ m \in Nat
      BY <1>2
    <3>2. /\ t.sync[m] < t.sync[m + 1] /\ t.sync[m] \in Nat /\ t.sync[m + 1] \in Nat
          /\ t.sync[k] \in Nat /\ t.sync[m] >= t.sync[k] + (m - k)
      BY <1>2, <1>3, <2>2, <3>1
    <3>3. t.sync[m + 1] >= t.sync[k] + ((m + 1) - k)
      BY <3>1, <3>2
    <3> QED BY <3>1, <3>3
  <2> HIDE DEF S
  <2>3. k \in Int /\ n \in Int /\ \A m \in k..(n - 1) : m \in S => m + 1 \in S
    BY <1>2, <2>2
  <2>4. l \in S
    BY <2>1, <2>3, Upwards
  <2> QED BY <2>4 DEF S
<1>5. ASSUME NEW k \in 1..n PROVE k - 1 <= t.sync[k]
  <2>1. 1 \in 1..n /\ k \in 1..n
    BY <1>2
  <2>2. t.sync[k] >= t.sync[1] + (k - 1)
    BY <1>4, <2>1
  <2> QED BY <1>2, <2>1, <2>2
<1> QED BY <1>2, <1>4, <1>5 DEF n, z

LEMMA AllSync ==
    ASSUME NEW t, IsIntaken(t), AllRapSamples(t)
    PROVE  \A k \in 1..Len(t.sync) : t.sync[k] = k - 1
<1> DEFINE n == Len(t.sync)
<1>1. n \in Nat /\ n = sampleNum(t)
  BY SyncFields DEF AllRapSamples
<1>2. ASSUME NEW k \in 1..n PROVE t.sync[k] = k - 1
  <2>1. n \in 1..n /\ n \in k..n
    BY <1>1
  <2>2. /\ t.sync[n] >= t.sync[k] + (n - k) /\ k - 1 <= t.sync[k] /\ t.sync[k] \in Nat
        /\ t.sync[n] \in Nat /\ t.sync[n] < n
    BY <1>1, <2>1, SyncFields
  <2> HIDE DEF n
  <2> QED BY <1>1, <2>2
<1> QED BY <1>2

LEMMA StssFacts ==
    ASSUME tables = Stbl(track), IsIntaken(track)
    PROVE  /\ tables.stss = << >> =>
                \A i \in 0..(sampleNum(track) - 1) : TrueSync(i) = i
           /\ tables.stss # << >> =>
                /\ track.writeStss /\ track.sync # << >>
                /\ Len(tables.stss) = Len(track.sync) /\ Len(track.sync) > 0
                /\ \A k \in 1..Len(track.sync) : tables.stss[k] - 1 = track.sync[k]
<1> DEFINE none == track.sync = << >> \/ ~track.writeStss \/ AllRapSamples(track)
           full == [k \in 1..Len(track.sync) |-> track.sync[k] + 1]
           n == Len(track.sync)
<1>1. tables.stss = IF none THEN << >> ELSE full
  BY DEF Stbl, Stss
<1>2. n \in Nat /\ \A k \in 1..n : track.sync[k] \in Nat
  BY SyncFields
<1>3. ~none => full # << >> /\ Len(full) = n /\ n > 0
  <2> SUFFICES ASSUME ~none PROVE full # << >> /\ Len(full) = n /\ n > 0
    OBVIOUS
  <2>1. track.sync # << >> /\ track.sync \in Seq(0..(sampleNum(track) - 1))
    BY DEF IsIntaken
  <2>2. n > 0
    BY <2>1, <1>2
  <2>3. full \in Seq(Int) /\ Len(full) = n
    BY <1>2
  <2> QED BY <2>2, <2>3
<1>4. CASE none
  <2>1. tables.stss = << >>
    BY <1>1, <1>4
  <2>2. ASSUME NEW i \in 0..(sampleNum(track) - 1) PROVE TrueSync(i) = i
    <3>1. CASE track.sync = << >> \/ ~track.writeStss
      BY <3>1 DEF TrueSync
    <3>2. CASE ~(track.sync = << >> \/ ~track.writeStss)
      <4> DEFINE S == {j \in {track.sync[k] : k \in 1..n} : j <= i}
      <4>1. AllRapSamples(track)
        BY <1>4, <3>2
      <4>2. \A k \in 1..n : track.sync[k] = k - 1
        BY <4>1, AllSync
      <4>3. n = sampleNum(track)
        BY <4>1 DEF AllRapSamples
      <4>4. i + 1 \in 1..n /\ i \in Nat
        BY <1>2, <4>3
      <4>5. track.sync[i + 1] = i
        BY <4>2, <4>4
      <4>6. i \in S /\ S \subseteq Int /\ \A r \in S : r <= i
        BY <1>2, <4>4, <4>5
      <4>7. TrueSync(i) = Latest(S, -1)
        BY <3>2 DEF TrueSync
      <4> HIDE DEF S
      <4> QED BY <4>6, <4>7, LatestIs
    <3> QED BY <3>1, <3>2
  <2> QED BY <2>1, <2>2
<1>5. CASE ~none
  <2>1. tables.stss = full
    BY <1>1, <1>5
  <2>2. \A k \in 1..n : full[k] - 1 = track.sync[k]
    BY <1>2
  <2> HIDE DEF full
  <2> QED BY <1>3, <1>5, <2>1, <2>2
<1> QED BY <1>4, <1>5

(* A cursor of stss is at a sync sample, if the file tells which these are. *)
StssSits(c) ==
    /\ tables.stss = << >> => c.entry = 1 /\ c.idx0 = 0
    /\ tables.stss # << >> =>
         c.entry \in 1..Len(tables.stss) /\ c.idx0 = tables.stss[c.entry] - 1

LEMMA SyncIs ==
    ASSUME tables = Stbl(track), IsIntaken(track), tables.stss # << >>, StssSits(stss),
           NEW i \in Nat
    PROVE  LET c == StssAtSample(i)
           IN  /\ StssSits(c)
               /\ (IF i < c.idx0 THEN -1 ELSE c.idx0) = TrueSync(i)
<1> DEFINE n == Len(tables.stss)
           c == IF i < stss.idx0 THEN StssStart ELSE stss
           F == {k \in c.entry..(n - 1) : i < tables.stss[k + 1] - 1}
           e == FirstFrom(c, n - 1, F)
           S == {j \in {track.sync[k] : k \in 1..Len(track.sync)} : j <= i}
<1>1. /\ n = Len(track.sync) /\ n \in Nat /\ n > 0
      /\ track.writeStss /\ track.sync # << >>
      /\ \A k \in 1..n : tables.stss[k] - 1 = track.sync[k] /\ track.sync[k] \in Nat
      /\ \A k \in 1..n : \A l \in k..n : track.sync[l] >= track.sync[k]
  <2>1. /\ n = Len(track.sync) /\ n > 0 /\ track.writeStss /\ track.sync # << >>
        /\ \A k \in 1..n : tables.stss[k] - 1 = track.sync[k]
    BY StssFacts
  <2>2. n \in Nat /\ \A k \in 1..n : track.sync[k] \in Nat
    BY <2>1, SyncFields
  <2>3. ASSUME NEW k \in 1..n, NEW l \in k..n PROVE track.sync[l] >= track.sync[k]
    <3>1. track.sync[l] >= track.sync[k] + (l - k)
      BY <2>1, SyncFields
    <3>2. l \in 1..n
      BY <2>2
    <3>3. track.sync[l] \in Nat /\ track.sync[k] \in Nat
      BY <2>2, <3>2
    <3> HIDE DEF n
    <3> QED BY <2>2, <3>1, <3>3
  <2> QED BY <2>1, <2>2, <2>3
<1>2. /\ c.entry \in 1..n
      /\ c.entry = 1 \/ track.sync[c.entry] <= i
  <2>1. CASE i < stss.idx0
    <3>1. c.entry = 1
      BY <2>1 DEF StssStart
    <3> QED BY <1>1, <3>1
  <2>2. CASE ~(i < stss.idx0)
    <3>1. c = stss /\ stss.entry \in 1..n /\ stss.idx0 = tables.stss[stss.entry] - 1
      BY <2>2 DEF StssSits
    <3>2. stss.idx0 = track.sync[stss.entry] /\ track.sync[stss.entry] \in Nat
      BY <1>1, <3>1
    <3>3. track.sync[stss.entry] <= i
      BY <2>2, <3>2
    <3> QED BY <3>1, <3>3
  <2> QED BY <2>1, <2>2
<1> HIDE DEF c, n
<1>3. /\ e \in c.entry..n /\ (e <= n - 1 => e \in F)
      /\ \A k \in c.entry..(e - 1) : k \notin F
  <2>1. n - 1 \in Int /\ c.entry \in Nat /\ c.entry <= (n - 1) + 1 /\ (n - 1) + 1 = n
    BY <1>1, <1>2
  <2> HIDE DEF F
  <2> QED BY <2>1, FirstFound
<1>4. StssAtSample(i) = [entry |-> e, idx0 |-> tables.stss[e] - 1]
  BY DEF StssAtSample, c, F, e, n
<1> HIDE DEF e
<1>5. e \in 1..n /\ tables.stss[e] - 1 = track.sync[e] /\ track.sync[e] \in Nat
  BY <1>1, <1>2, <1>3
<1>6. e < n => i < track.sync[e + 1]
  <2> SUFFICES ASSUME e < n PROVE i < track.sync[e + 1]
    OBVIOUS
  <2>1. e + 1 \in 1..n /\ e \in F
    BY <1>1, <1>3, <1>5
  <2> QED BY <1>1, <2>1
<1>7. e = 1 \/ track.sync[e] <= i
  <2>1. CASE e = c.entry
    BY <1>2, <2>1
  <2>2. CASE e # c.entry
    <3>1. e - 1 \in c.entry..(e - 1) /\ e - 1 \in c.entry..(n - 1) /\ (e - 1) + 1 = e
      BY <1>1, <1>2, <1>3, <2>2
    <3>2. ~(i < tables.stss[e] - 1)
      BY <1>3, <3>1
    <3> QED BY <1>5, <3>2
  <2> QED BY <2>1, <2>2
<1>8. TrueSync(i) = Latest(S, -1)
  BY <1>1 DEF TrueSync
<1>9. S \subseteq Int
  BY <1>1
<1>10. (IF i < track.sync[e] THEN -1 ELSE track.sync[e]) = TrueSync(i)
  <2>1. CASE i < track.sync[e]
    <3>1. e = 1
      BY <1>5, <1>7, <2>1
    <3>2. ASSUME NEW k \in 1..n PROVE ~(track.sync[k] <= i)
      <4>1. k \in 1..n /\ 1 \in 1..n /\ k \in 1..n
        BY <1>1
      <4>2. track.sync[k] >= track.sync[1] /\ track.sync[k] \in Nat /\ track.sync[1] \in Nat
        BY <1>1, <4>1
      <4> QED BY <2>1, <3>1, <4>2
    <3>3. S = {}
      BY <1>1, <3>2
    <3> HIDE DEF S
    <3> QED BY <1>8, <2>1, <3>3 DEF Latest
  <2>2. CASE ~(i < track.sync[e])
    <3>1. track.sync[e] \in S
      BY <1>1, <1>5, <2>2
    <3>2. ASSUME NEW k \in 1..n, track.sync[k] <= i PROVE track.sync[k] <= track.sync[e]
      <4>1. ~(e < k)
        <5> SUFFICES ASSUME e < k PROVE FALSE
          OBVIOUS
        <5>1. e < n /\ e + 1 \in 1..n /\ k \in (e + 1)..n
          BY <1>1, <1>5
        <5>2. track.sync[k] >= track.sync[e + 1] /\ i < track.sync[e + 1]
          BY <1>1, <1>6, <5>1
        <5>3. track.sync[k] \in Nat /\ track.sync[e + 1] \in Nat
          BY <1>1, <5>1
        <5> QED BY <3>2, <5>2, <5>3
      <4>2. e \in k..n
        BY <1>1, <1>5, <4>1
      <4>3. track.sync[e] >= track.sync[k] /\ track.sync[k] \in Nat
        BY <1>1, <4>2
      <4> QED BY <1>5, <4>3
    <3>3. \A r \in S : r <= track.sync[e]
      BY <1>1, <3>2
    <3> HIDE DEF S
    <3>4. Latest(S, -1) = track.sync[e]
      BY <1>9, <3>1, <3>3, LatestIs
    <3> QED BY <1>8, <2>2, <3>4
  <2> QED BY <2>1, <2>2
<1>11. StssSits([entry |-> e, idx0 |-> tables.stss[e] - 1])
  BY <1>5 DEF StssSits, n
<1> QED BY <1>4, <1>5, <1>10, <1>11

-----------------------------------------------------------------------------
LEMMA IdxFirst ==
    ASSUME IsIntaken(track), dtsOffset \in Int, NEW time \in Int, time <= dtsOffset
    PROVE  TrueIdx(time) = 0
<1> DEFINE n == sampleNum(track)
           S == {i \in 0..(n - 1) : track.dts[i + 1] - track.dts[1] + dtsOffset <= time}
<1>1. /\ n \in Nat /\ n > 0 /\ \A k \in 1..n : track.dts[k] \in Nat
      /\ \A i \in 1..n : \A k \in i..n : track.dts[i] <= track.dts[k]
      /\ \A i \in 1..n : \A k \in (i + 1)..n : track.dts[i] < track.dts[k]
  BY EndsTimes
<1>2. TrueIdx(time) = Latest(S, 0)
  BY DEF TrueIdx
<1>3. CASE time = dtsOffset
  <2>1. 1 \in 1..n /\ track.dts[1] \in Nat
    BY <1>1
  <2>2. track.dts[0 + 1] - track.dts[1] + dtsOffset <= time
    BY <1>3, <2>1
  <2>3. 0 + 1 < n => time < track.dts[0 + 2] - track.dts[1] + dtsOffset
    <3> SUFFICES ASSUME 1 < n PROVE time < track.dts[2] - track.dts[1] + dtsOffset
      OBVIOUS
    <3>1. 1 \in 1..n /\ 2 \in (1 + 1)..n /\ 2 \in 1..n
      BY <1>1
    <3>2. track.dts[1] < track.dts[2] /\ track.dts[1] \in Nat /\ track.dts[2] \in Nat
      BY <1>1, <3>1
    <3> QED BY <1>3, <3>2
  <2>4. 0 \in Nat /\ 0 < n
    BY <1>1
  <2> QED BY <2>2, <2>3, <2>4, IdxIs DEF n
<1>4. CASE time < dtsOffset
  <2>1. ASSUME NEW i \in 0..(n - 1)
        PROVE  ~(track.dts[i + 1] - track.dts[1] + dtsOffset <= time)
    <3>1. 1 \in 1..n /\ i + 1 \in 1..n
      BY <1>1
    <3>2. track.dts[1] <= track.dts[i + 1] /\ track.dts[1] \in Nat /\ track.dts[i + 1] \in Nat
      BY <1>1, <3>1
    <3> QED BY <1>4, <3>2
  <2>2. S = {}
    BY <2>1
  <2> HIDE DEF S
  <2> QED BY <1>2, <2>2 DEF Latest
<1> QED BY <1>3, <1>4

(***************************************************************************)
(* Each cursor is at its entry.                                            *)
(***************************************************************************)
IInv ==
    /\ track \in Tracks /\ dtsOffset \in DtsOffsets
    /\ tables = Stbl(track)
    /\ stts \in [entry : Nat, idx0 : Nat, acc : Nat] /\ SttsSits(stts)
    /\ ctts \in [entry : Nat, idx0 : Nat] /\ CttsSits(ctts)
    /\ stsc \in [entry : Nat, idx0 : Nat] /\ StscSits(stsc)
    /\ stss \in [entry : Nat, idx0 : Nat] /\ StssSits(stss)

(* What a query leaves alone keeps what is true of the track.               *)
LEMMA FileKept ==
    ASSUME UNCHANGED file
    PROVE  /\ \A i : Clamp(i)' = Clamp(i)
           /\ \A x : TrueIdx(x)' = TrueIdx(x)
           /\ \A i : TrueTiming(i)' = TrueTiming(i)
           /\ \A i : TrueDuration(i)' = TrueDuration(i)
           /\ \A i : TrueOffset(i)' = TrueOffset(i)
           /\ \A i : TrueSync(i)' = TrueSync(i)
<1>1. track' = track /\ tables' = tables /\ dtsOffset' = dtsOffset
  BY DEF file
<1>2. \A i : Clamp(i)' = Clamp(i)
  BY <1>1 DEF Clamp
<1>3. \A x : TrueIdx(x)' = TrueIdx(x)
  BY <1>1 DEF TrueIdx
<1>4. \A i : TrueTiming(i)' = TrueTiming(i)
  BY <1>1 DEF TrueTiming
<1>5. \A i : TrueDuration(i)' = TrueDuration(i)
  BY <1>1 DEF TrueDuration
<1>6. \A i : ChunkOfSample(i)' = ChunkOfSample(i)
  BY <1>1 DEF ChunkOfSample
<1>7. \A i : TrueOffset(i)' = TrueOffset(i)
  BY <1>1, <1>6 DEF TrueOffset
<1>8. \A i : TrueSync(i)' = TrueSync(i)
  BY <1>1 DEF TrueSync
<1> QED BY <1>2, <1>3, <1>4, <1>5, <1>7, <1>8

LEMMA SitsKept ==
    ASSUME UNCHANGED file
    PROVE  /\ SttsSits(stts') => SttsSits(stts)'
           /\ CttsSits(ctts') => CttsSits(ctts)'
           /\ StscSits(stsc') => StscSits(stsc)'
           /\ StssSits(stss') => StssSits(stss)'
<1>1. track' = track /\ tables' = tables
  BY DEF file
<1> QED BY <1>1 DEF SttsSits, CttsSits, StscSits, StssSits

LEMMA FirstCursors ==
    ASSUME \A t \in Tracks : IsIntaken(t), Init
    PROVE  IInv
<1>1. /\ track \in Tracks /\ tables = Stbl(track) /\ dtsOffset \in DtsOffsets
      /\ stts = SttsStart /\ ctts = Start /\ stsc = Start /\ stss = StssStart
      /\ IsIntaken(track)
  BY DEF Init
<1>2. SttsSits(stts) /\ stts \in [entry : Nat, idx0 : Nat, acc : Nat]
  BY <1>1, SttsFacts, SttsTable DEF SttsStart
<1>3. CttsSits(ctts) /\ ctts \in [entry : Nat, idx0 : Nat]
  BY <1>1, CttsFacts DEF Start
<1>4. StscSits(stsc) /\ stsc \in [entry : Nat, idx0 : Nat]
  BY <1>1, StscFacts DEF Start
<1>5. StssSits(stss) /\ stss \in [entry : Nat, idx0 : Nat]
  <2>1. CASE tables.stss = << >>
    <3>1. stss = [entry |-> 1, idx0 |-> 0]
      BY <1>1, <2>1 DEF StssStart
    <3> QED BY <2>1, <3>1 DEF StssSits
  <2>2. CASE tables.stss # << >>
    <3>1. stss = [entry |-> 1, idx0 |-> tables.stss[1] - 1]
      BY <1>1, <2>2 DEF StssStart
    <3>2. 1 \in 1..Len(track.sync) /\ Len(tables.stss) = Len(track.sync)
          /\ tables.stss[1] - 1 = track.sync[1] /\ track.sync[1] \in Nat
      BY <1>1, <2>2, StssFacts, SyncFields
    <3> QED BY <2>2, <3>1, <3>2 DEF StssSits
  <2> QED BY <2>1, <2>2
<1> QED BY <1>1, <1>2, <1>3, <1>4, <1>5 DEF IInv

(* Where the queries leave the cursors.                                     *)
LEMMA SttsCursor ==
    ASSUME tables = Stbl(track), IsIntaken(track), NEW c, SttsSits(c),
           c = [entry |-> c.entry, idx0 |-> Before(tables.stts, c.entry),
                acc |-> TimeBefore(tables.stts, c.entry)]
    PROVE  c \in [entry : Nat, idx0 : Nat, acc : Nat]
<1>1. /\ c.entry \in 1..(Len(tables.stts) + 1) /\ Len(tables.stts) \in Nat
      /\ \A k \in 1..(Len(tables.stts) + 1) : /\ Before(tables.stts, k) \in Nat
                                              /\ TimeBefore(tables.stts, k) \in Nat
  BY SttsFacts, SttsTable DEF SttsSits
<1>2. c.entry \in Nat /\ Before(tables.stts, c.entry) \in Nat
      /\ TimeBefore(tables.stts, c.entry) \in Nat
  BY <1>1
<1> QED BY <1>2

LEMMA SttsLeft ==
    ASSUME tables = Stbl(track), IsIntaken(track), SttsSits(stts)
    PROVE  /\ \A idx \in Nat : /\ SttsAtSample(Clamp(idx)) \in [entry : Nat, idx0 : Nat, acc : Nat]
                               /\ SttsSits(SttsAtSample(Clamp(idx)))
           /\ \A x \in Nat : /\ SttsAtTime(x) \in [entry : Nat, idx0 : Nat, acc : Nat]
                             /\ SttsSits(SttsAtTime(x))
<1>1. tables.stts \in Seq(SttsEntry) /\ Before(tables.stts, Len(tables.stts) + 1) = sampleNum(track)
  BY SttsFacts
<1>2. ASSUME NEW idx \in Nat
      PROVE  /\ SttsAtSample(Clamp(idx)) \in [entry : Nat, idx0 : Nat, acc : Nat]
             /\ SttsSits(SttsAtSample(Clamp(idx)))
  <2> DEFINE i == Clamp(idx)
             c == SttsAtSample(i)
  <2>1. i \in Nat /\ i < Before(tables.stts, Len(tables.stts) + 1)
    BY <1>1, Clamped
  <2> HIDE DEF i
  <2>2. /\ SttsSits(c)
        /\ c = [entry |-> c.entry, idx0 |-> Before(tables.stts, c.entry),
                acc |-> TimeBefore(tables.stts, c.entry)]
    BY <1>1, <2>1, SttsBySample
  <2> HIDE DEF c
  <2>3. c \in [entry : Nat, idx0 : Nat, acc : Nat]
    BY <2>2, SttsCursor
  <2> QED BY <2>2, <2>3 DEF c, i
<1>3. ASSUME NEW x \in Nat
      PROVE  /\ SttsAtTime(x) \in [entry : Nat, idx0 : Nat, acc : Nat]
             /\ SttsSits(SttsAtTime(x))
  <2> DEFINE c == SttsAtTime(x)
  <2>2. /\ SttsSits(c)
        /\ c = [entry |-> c.entry, idx0 |-> Before(tables.stts, c.entry),
                acc |-> TimeBefore(tables.stts, c.entry)]
    BY <1>1, SttsByTime
  <2> HIDE DEF c
  <2>3. c \in [entry : Nat, idx0 : Nat, acc : Nat]
    BY <2>2, SttsCursor
  <2> QED BY <2>2, <2>3 DEF c
<1> QED BY <1>2, <1>3

LEMMA OthersLeft ==
    ASSUME tables = Stbl(track), IsIntaken(track), NEW i \in Nat, i < sampleNum(track)
    PROVE  /\ CttsSits(ctts) => /\ CttsSits(CttsAtSample(i))
                                /\ CttsAtSample(i) \in [entry : Nat, idx0 : Nat]
           /\ StscSits(stsc) => /\ StscSits(StscAtSample(i))
                                /\ StscAtSample(i) \in [entry : Nat, idx0 : Nat]
           /\ tables.stss # << >> /\ StssSits(stss) =>
                /\ StssSits(StssAtSample(i))
                /\ StssAtSample(i) \in [entry : Nat, idx0 : Nat]
<1>1. ASSUME CttsSits(ctts)
      PROVE  CttsSits(CttsAtSample(i)) /\ CttsAtSample(i) \in [entry : Nat, idx0 : Nat]
  <2> DEFINE c == CttsAtSample(i)
  <2>1. CttsSits(c) /\ c = [entry |-> c.entry, idx0 |-> c.idx0]
    BY <1>1, CttsAnswers
  <2>2. Len(tables.ctts) \in Nat /\ \A k \in 1..Len(tables.ctts) : tables.ctts[k].count \in Nat
    BY CttsFacts
  <2> HIDE DEF c
  <2>3. c.entry \in Nat /\ c.idx0 \in Nat
    BY <2>1, <2>2, BeforeNext DEF CttsSits
  <2>4. c \in [entry : Nat, idx0 : Nat]
    BY <2>1, <2>3
  <2> QED BY <2>1, <2>4 DEF c
<1>2. ASSUME StscSits(stsc)
      PROVE  StscSits(StscAtSample(i)) /\ StscAtSample(i) \in [entry : Nat, idx0 : Nat]
  <2> DEFINE c == StscAtSample(i)
             s == tables.stsc
             v == SamplesOf(s)
  <2>1. StscSits(c) /\ c = [entry |-> c.entry, idx0 |-> ChunkStart(track, s[c.entry].first) - 1]
    BY <1>2, StscBySample
  <2>2. Len(s) \in Nat /\ \A k \in 1..(Len(s) - 1) : v[k] \in Nat
    BY StscFacts, EntryStarts
  <2> HIDE DEF c, v
  <2>3. c.entry \in 1..Len(s) /\ c.idx0 = SumOver(v, 1, c.entry - 1)
    BY <2>1 DEF StscSits, v
  <2>4. 1 \in Int /\ c.entry - 1 \in Int /\ \A k \in 1..(c.entry - 1) : v[k] \in Nat
    BY <2>2, <2>3
  <2>5. c.entry \in Nat /\ c.idx0 \in Nat
    BY <2>2, <2>3, <2>4, SumNat
  <2>6. c = [entry |-> c.entry, idx0 |-> c.idx0]
    BY <2>1
  <2>7. c \in [entry : Nat, idx0 : Nat]
    BY <2>5, <2>6
  <2> QED BY <2>1, <2>7 DEF c
<1>3. ASSUME tables.stss # << >>, StssSits(stss)
      PROVE  StssSits(StssAtSample(i)) /\ StssAtSample(i) \in [entry : Nat, idx0 : Nat]
  <2> DEFINE c == StssAtSample(i)
  <2>1. StssSits(c)
    BY <1>3, SyncIs
  <2>2. c = [entry |-> c.entry, idx0 |-> c.idx0]
    BY DEF StssAtSample
  <2> HIDE DEF c
  <2>3. /\ c.entry \in 1..Len(track.sync) /\ c.idx0 = tables.stss[c.entry] - 1
        /\ Len(track.sync) \in Nat
        /\ \A k \in 1..Len(track.sync) : tables.stss[k] - 1 = track.sync[k] /\ track.sync[k] \in Nat
    BY <1>3, <2>1, StssFacts, SyncFields DEF StssSits
  <2>4. c.entry \in Nat /\ c.idx0 \in Nat
    BY <2>3
  <2>5. c \in [entry : Nat, idx0 : Nat]
    BY <2>2, <2>4
  <2> QED BY <2>1, <2>5 DEF c
<1> QED BY <1>1, <1>2, <1>3

LEMMA FileOfIInv ==
    ASSUME \A t \in Tracks : IsIntaken(t), DtsOffsets \subseteq Int, IInv
    PROVE  tables = Stbl(track) /\ IsIntaken(track) /\ dtsOffset \in Int
BY DEF IInv

(* Every query leaves each cursor at an entry.                              *)
LEMMA CursorsStay ==
    ASSUME \A t \in Tracks : IsIntaken(t), DtsOffsets \subseteq Int, IInv, [Next]_vars
    PROVE  IInv'
<1> DEFINE R == [entry : Nat, idx0 : Nat]
           Q == [entry : Nat, idx0 : Nat, acc : Nat]
           Cs == stts \in Q /\ SttsSits(stts)
           Co == ctts \in R /\ CttsSits(ctts)
           Cc == stsc \in R /\ StscSits(stsc)
           Cy == stss \in R /\ StssSits(stss)
<1>1. tables = Stbl(track) /\ IsIntaken(track) /\ dtsOffset \in Int
  BY FileOfIInv
<1>2. Cs /\ Co /\ Cc /\ Cy /\ track \in Tracks /\ dtsOffset \in DtsOffsets
  BY DEF IInv
<1>3. ASSUME UNCHANGED file
      PROVE  /\ (track \in Tracks /\ dtsOffset \in DtsOffsets /\ tables = Stbl(track))'
             /\ stts' = stts => Cs'
             /\ ctts' = ctts => Co'
             /\ stsc' = stsc => Cc'
             /\ stss' = stss => Cy'
  BY <1>1, <1>2, <1>3, SitsKept DEF file
<1>4. ASSUME UNCHANGED file, Cs', Co', Cc', Cy' PROVE IInv'
  BY <1>3, <1>4 DEF IInv
<1>5. ASSUME NEW time \in Times, GetSampleIdx(time) PROVE IInv'
  <2>1. UNCHANGED file /\ ctts' = ctts /\ stsc' = stsc /\ stss' = stss
    BY <1>5 DEF GetSampleIdx
  <2>2. time \in Int
    BY DEF Times
  <2>3. Cs'
    <3>1. CASE time <= dtsOffset
      <4>1. stts' = stts
        BY <1>5, <3>1 DEF GetSampleIdx
      <4> QED BY <1>3, <2>1, <4>1
    <3>2. CASE ~(time <= dtsOffset)
      <4>1. stts' = SttsAtTime(time - dtsOffset)
        BY <1>5, <3>2 DEF GetSampleIdx
      <4>2. time - dtsOffset \in Nat
        BY <1>1, <2>2, <3>2
      <4>3. stts' \in Q /\ SttsSits(stts')
        BY <1>1, <1>2, <4>1, <4>2, SttsLeft
      <4> QED BY <2>1, <4>3, SitsKept
    <3> QED BY <3>1, <3>2
  <2> HIDE DEF Cs, Co, Cc, Cy
  <2> QED BY <1>3, <1>4, <2>1, <2>3
<1>6. ASSUME NEW idx \in 0..sampleNum(track), GetSampleTiming(idx) PROVE IInv'
  <2> DEFINE i == Clamp(idx)
  <2>1. /\ UNCHANGED file /\ stsc' = stsc /\ stss' = stss
        /\ stts' = SttsAtSample(i) /\ (ctts' = ctts \/ ctts' = CttsAtSample(i))
    BY <1>6 DEF GetSampleTiming
  <2>2. idx \in Nat /\ i \in Nat /\ i < sampleNum(track)
    BY <1>1, Clamped
  <2>3. Cs'
    <3>1. stts' \in Q /\ SttsSits(stts')
      BY <1>1, <1>2, <2>1, <2>2, SttsLeft
    <3> QED BY <2>1, <3>1, SitsKept
  <2>4. Co'
    <3>1. CASE ctts' = ctts
      BY <1>3, <2>1, <3>1
    <3>2. CASE ctts' = CttsAtSample(i)
      <4> HIDE DEF i
      <4>1. ctts' \in R /\ CttsSits(ctts')
        BY <1>1, <1>2, <2>2, <3>2, OthersLeft
      <4> QED BY <2>1, <4>1, SitsKept
    <3> QED BY <2>1, <3>1, <3>2
  <2> HIDE DEF Cs, Co, Cc, Cy
  <2> QED BY <1>3, <1>4, <2>1, <2>3, <2>4
<1>7. ASSUME NEW idx \in 0..sampleNum(track), GetSampleDuration(idx) PROVE IInv'
  <2>1. /\ UNCHANGED file /\ stsc' = stsc /\ stss' = stss /\ ctts' = ctts
        /\ stts' = SttsAtSample(Clamp(idx))
    BY <1>7 DEF GetSampleDuration
  <2>2. Cs'
    <3>1. stts' \in Q /\ SttsSits(stts')
      BY <1>1, <1>2, <2>1, SttsLeft
    <3> QED BY <2>1, <3>1, SitsKept
  <2> HIDE DEF Cs, Co, Cc, Cy
  <2> QED BY <1>3, <1>4, <2>1, <2>2
<1>8. ASSUME NEW idx \in 0..sampleNum(track), GetSampleSize(idx) PROVE IInv'
  <2>1. UNCHANGED file /\ stts' = stts /\ stsc' = stsc /\ stss' = stss /\ ctts' = ctts
    BY <1>8 DEF GetSampleSize
  <2> HIDE DEF Cs, Co, Cc, Cy
  <2> QED BY <1>3, <1>4, <2>1
<1>9. ASSUME NEW idx \in 0..sampleNum(track), GetSampleOffset(idx) PROVE IInv'
  <2> DEFINE i == Clamp(idx)
  <2>1. /\ UNCHANGED file /\ stts' = stts /\ ctts' = ctts /\ stss' = stss
        /\ stsc' = StscAtSample(i)
    BY <1>9 DEF GetSampleOffset
  <2>2. i \in Nat /\ i < sampleNum(track)
    BY <1>1, Clamped
  <2>3. Cc'
    <3> HIDE DEF i
    <3>1. stsc' \in R /\ StscSits(stsc')
      BY <1>1, <1>2, <2>1, <2>2, OthersLeft
    <3> QED BY <2>1, <3>1, SitsKept
  <2> HIDE DEF Cs, Co, Cc, Cy
  <2> QED BY <1>3, <1>4, <2>1, <2>3
<1>10. ASSUME NEW idx \in 0..sampleNum(track), GetPrevSync(idx) PROVE IInv'
  <2> DEFINE i == Clamp(idx)
  <2>1. /\ UNCHANGED file /\ stts' = stts /\ ctts' = ctts /\ stsc' = stsc
        /\ stss' = stss \/ (tables.stss # << >> /\ stss' = StssAtSample(i))
    BY <1>10 DEF GetPrevSync
  <2>2. i \in Nat /\ i < sampleNum(track)
    BY <1>1, Clamped
  <2>3. Cy'
    <3> HIDE DEF i
    <3>1. CASE stss' = stss
      BY <1>3, <2>1, <3>1
    <3>2. CASE tables.stss # << >> /\ stss' = StssAtSample(i)
      <4>1. stss' \in R /\ StssSits(stss')
        BY <1>1, <1>2, <2>2, <3>2, OthersLeft
      <4> QED BY <2>1, <4>1, SitsKept
    <3> QED BY <2>1, <3>1, <3>2
  <2> HIDE DEF Cs, Co, Cc, Cy
  <2> QED BY <1>3, <1>4, <2>1, <2>3
<1>11. CASE UNCHANGED vars
  <2>1. UNCHANGED file /\ stts' = stts /\ stsc' = stsc /\ stss' = stss /\ ctts' = ctts
    BY <1>11 DEF vars
  <2> HIDE DEF Cs, Co, Cc, Cy
  <2> QED BY <1>3, <1>4, <2>1
<1> QED BY <1>5, <1>6, <1>7, <1>8, <1>9, <1>10, <1>11 DEF Next

(* What the invariant says of a cursor.                                     *)
LEMMA CursorsThere ==
    ASSUME \A t \in Tracks : IsIntaken(t), DtsOffsets \subseteq Int, IInv
    PROVE  CursorsAtEntries
<1> DEFINE z == sampleNum(track)
           n == Len(tables.stts)
           s == tables.stsc
           L == Len(s)
           y == Len(track.chunks)
           f == s[stsc.entry].first
<1>1. tables = Stbl(track) /\ IsIntaken(track)
  BY FileOfIInv
<1>2. z \in Nat
  BY <1>1, EndsTimes
<1>3. /\ stts \in [entry : 1..(n + 1), idx0 : 0..z, acc : Nat]
      /\ stts.idx0 = Before(tables.stts, stts.entry)
      /\ stts.acc = TimeBefore(tables.stts, stts.entry)
  <2>1. /\ stts \in [entry : Nat, idx0 : Nat, acc : Nat] /\ stts.entry \in 1..(n + 1)
        /\ stts.idx0 = Before(tables.stts, stts.entry)
        /\ stts.acc = TimeBefore(tables.stts, stts.entry)
    BY DEF IInv, SttsSits
  <2>2. /\ n \in Nat /\ \A k \in 1..n : tables.stts[k].count \in Nat
    BY <1>1, SttsFacts, SttsTable
  <2>3. n + 1 \in stts.entry..(n + 1) /\ Before(tables.stts, n + 1) = z
    BY <1>1, <2>1, <2>2, SttsFacts
  <2>4. Before(tables.stts, stts.entry) <= z
    BY <2>1, <2>2, <2>3, BeforeGrows
  <2>5. stts.idx0 \in 0..z
    <3> HIDE DEF z
    <3> QED BY <1>2, <2>1, <2>4
  <2> HIDE DEF n, z
  <2> QED BY <2>1, <2>5
<1>4. /\ ctts \in Entries(Len(tables.ctts))
      /\ ctts.idx0 = Before(tables.ctts, ctts.entry)
  <2> DEFINE m == Len(tables.ctts)
  <2>1. /\ ctts \in [entry : Nat, idx0 : Nat] /\ ctts.entry \in 1..(m + 1)
        /\ ctts.idx0 = Before(tables.ctts, ctts.entry)
    BY DEF IInv, CttsSits
  <2>2. /\ m \in Nat /\ \A k \in 1..m : tables.ctts[k].count \in Nat
        /\ Before(tables.ctts, 1) = 0
    BY <1>1, CttsFacts, BeforeNext
  <2>3. ctts.idx0 <= z
    <3>1. CASE tables.ctts = << >>
      <4>1. m = 0
        BY <3>1
      <4>2. ctts.entry = 1
        BY <2>1, <4>1
      <4> QED BY <1>2, <2>1, <2>2, <4>2
    <3>2. CASE tables.ctts # << >>
      <4>1. m + 1 \in ctts.entry..(m + 1) /\ Before(tables.ctts, m + 1) = z
        BY <1>1, <2>1, <2>2, <3>2, CttsFacts
      <4>2. Before(tables.ctts, ctts.entry) <= z
        BY <2>1, <2>2, <4>1, BeforeGrows
      <4> QED BY <2>1, <4>2
    <3> QED BY <3>1, <3>2
  <2>4. ctts.idx0 \in 0..z
    <3> HIDE DEF z
    <3> QED BY <1>2, <2>1, <2>3
  <2> HIDE DEF m
  <2> QED BY <2>1, <2>4 DEF Entries, m
<1>5. /\ stsc \in Entries(L) /\ stsc.entry <= L
      /\ \E c \in 1..y : f = c /\ stsc.idx0 = track.chunks[c].idx - 1
  <2>1. /\ stsc \in [entry : Nat, idx0 : Nat] /\ stsc.entry \in 1..L
        /\ stsc.idx0 = SumOver(SamplesOf(s), 1, stsc.entry - 1)
    BY DEF IInv, StscSits
  <2>2. Covers(track, s, y) /\ L \in Nat /\ y \in Nat
    BY <1>1, StscFacts, ChunkFields
  <2>3. stsc.idx0 = ChunkStart(track, f) - 1
    BY <1>1, <2>1, <2>2, EntryStarts
  <2>4. f \in Nat /\ EntryEnd(s, stsc.entry, y) \in Nat
    BY <2>1, <2>2, CoversFields
  <2>5. 0 < f /\ f < EntryEnd(s, stsc.entry, y) /\ EntryEnd(s, stsc.entry, y) <= y + 1
    BY <2>1, <2>2 DEF Covers
  <2> HIDE DEF f
  <2>6. f \in 1..y /\ f \in 1..(y + 1) /\ y + 1 \in f..(y + 1)
    BY <2>2, <2>4, <2>5
  <2>7. /\ ChunkStart(track, f) = track.chunks[f].idx /\ ChunkStart(track, f) \in Nat
        /\ ChunkStart(track, f) <= z + 1
    BY <1>1, <2>6, ChunkFields, ChunksGrow
  <2>8. stsc.idx0 \in 0..z
    <3> HIDE DEF z
    <3>1. stsc.idx0 \in Nat
      BY <2>1
    <3> QED BY <1>2, <2>3, <2>7, <3>1
  <2>9. stsc \in Entries(L)
    <3>1. stsc.entry \in 1..(L + 1)
      BY <2>1, <2>2
    <3> HIDE DEF L
    <3> QED BY <2>1, <2>8, <3>1 DEF Entries
  <2>10. stsc.entry <= L
    BY <2>1
  <2> QED BY <2>3, <2>6, <2>7, <2>9, <2>10
<1>6. /\ stss \in Entries(Len(tables.stss))
      /\ tables.stss # << >> => stss.idx0 = tables.stss[stss.entry] - 1
  <2>1. stss \in [entry : Nat, idx0 : Nat] /\ StssSits(stss)
    BY DEF IInv
  <2>2. CASE tables.stss = << >>
    <3>1. stss.entry = 1 /\ stss.idx0 = 0 /\ Len(tables.stss) = 0
      BY <2>1, <2>2 DEF StssSits
    <3> HIDE DEF z
    <3>2. stss.entry \in 1..(Len(tables.stss) + 1) /\ stss.idx0 \in 0..z
      BY <1>2, <3>1
    <3> QED BY <2>1, <2>2, <3>2 DEF Entries, z
  <2>3. CASE tables.stss # << >>
    <3> DEFINE m == Len(tables.stss)
    <3>1. stss.entry \in 1..m /\ stss.idx0 = tables.stss[stss.entry] - 1
      BY <2>1, <2>3 DEF StssSits
    <3>2. m = Len(track.sync) /\ m \in Nat /\ tables.stss[stss.entry] - 1 = track.sync[stss.entry]
      BY <1>1, <2>3, <3>1, StssFacts, SyncFields
    <3>3. track.sync[stss.entry] \in Nat /\ track.sync[stss.entry] < z
      BY <1>1, <3>1, <3>2, SyncFields
    <3>4. stss.entry \in 1..(m + 1) /\ stss.idx0 \in 0..z
      <4> HIDE DEF m, z
      <4> QED BY <1>2, <3>1, <3>2, <3>3
    <3> HIDE DEF m
    <3> QED BY <2>1, <3>1, <3>4 DEF Entries, m
  <2> QED BY <2>2, <2>3
<1>7. TypeOK
  BY <1>3, <1>4, <1>5, <1>6 DEF TypeOK, IInv
<1>8. CursorsAtEntries
  BY <1>3, <1>4, <1>5, <1>6, <1>7 DEF CursorsAtEntries, Before, TimeBefore
<1> QED BY <1>8

(* The cursors of mp4_stream.c never drift: for any track as intake leaves  *)
(* it and any sequence of queries, each cursor stays within its table and   *)
(* counts the samples, and the time, of exactly the entries before it.      *)
THEOREM CursorsNeverDrift ==
    ASSUME \A t \in Tracks : IsIntaken(t), DtsOffsets \subseteq Int
    PROVE  Spec => []CursorsAtEntries
<1>1. Init => IInv
  BY FirstCursors
<1>2. IInv /\ [Next]_vars => IInv'
  BY CursorsStay
<1>3. IInv => CursorsAtEntries
  BY CursorsThere
<1> QED BY <1>1, <1>2, <1>3, PTL DEF Spec

-----------------------------------------------------------------------------
(* An answer that is what the track says of the sample.                     *)
LEMMA RightAnswer ==
    ASSUME UNCHANGED file, NEW a, NEW v
    PROVE  /\ (answer' = [query |-> "idx", arg |-> a, val |-> v] /\ v = TrueIdx(a))
                => LookupsFindSamples'
           /\ (answer' = [query |-> "timing", arg |-> a, val |-> v] /\ v = TrueTiming(Clamp(a)))
                => LookupsFindSamples'
           /\ (/\ answer' = [query |-> "duration", arg |-> a, val |-> v]
               /\ \/ v = TrueDuration(Clamp(a))
                  \/ /\ Clamp(a) + 1 = sampleNum(track)
                     /\ Clamp(a) = 0 \/ TrueDuration(Clamp(a)) < 0)
                => LookupsFindSamples'
           /\ (/\ answer' = [query |-> "size", arg |-> a, val |-> v]
               /\ v = RunValue(track.sizes, Clamp(a)))
                => LookupsFindSamples'
           /\ (answer' = [query |-> "offset", arg |-> a, val |-> v] /\ v = TrueOffset(Clamp(a)))
                => LookupsFindSamples'
           /\ (answer' = [query |-> "sync", arg |-> a, val |-> v] /\ v = TrueSync(Clamp(a)))
                => LookupsFindSamples'
<1>1. track' = track
  BY DEF file
<1>2. ASSUME answer' = [query |-> "idx", arg |-> a, val |-> v], v = TrueIdx(a)
      PROVE  LookupsFindSamples'
  BY <1>2, FileKept DEF LookupsFindSamples
<1>3. ASSUME answer' = [query |-> "timing", arg |-> a, val |-> v], v = TrueTiming(Clamp(a))
      PROVE  LookupsFindSamples'
  BY <1>3, FileKept DEF LookupsFindSamples
<1>4. ASSUME answer' = [query |-> "duration", arg |-> a, val |-> v],
             \/ v = TrueDuration(Clamp(a))
             \/ /\ Clamp(a) + 1 = sampleNum(track)
                /\ Clamp(a) = 0 \/ TrueDuration(Clamp(a)) < 0
      PROVE  LookupsFindSamples'
  BY <1>1, <1>4, FileKept DEF LookupsFindSamples
<1>5. ASSUME answer' = [query |-> "size", arg |-> a, val |-> v],
             v = RunValue(track.sizes, Clamp(a))
      PROVE  LookupsFindSamples'
  BY <1>1, <1>5, FileKept DEF LookupsFindSamples
<1>6. ASSUME answer' = [query |-> "offset", arg |-> a, val |-> v], v = TrueOffset(Clamp(a))
      PROVE  LookupsFindSamples'
  BY <1>6, FileKept DEF LookupsFindSamples
<1>7. ASSUME answer' = [query |-> "sync", arg |-> a, val |-> v], v = TrueSync(Clamp(a))
      PROVE  LookupsFindSamples'
  BY <1>7, FileKept DEF LookupsFindSamples
<1> QED BY <1>2, <1>3, <1>4, <1>5, <1>6, <1>7

(* The queries there are.                                                   *)
Asked == answer.query \in {"none", "idx", "timing", "duration", "size", "offset", "sync"}

LEMMA AskedStays ==
    ASSUME Asked, [Next]_vars
    PROVE  Asked'
<1>1. CASE Next
  <2>1. ASSUME NEW time \in Times, GetSampleIdx(time)
        PROVE  Asked'
    <3>1. \E v : answer' = [query |-> "idx", arg |-> time, val |-> v]
      BY <2>1 DEF GetSampleIdx, Answer
    <3> QED BY <3>1 DEF Asked
  <2>2. ASSUME NEW idx \in 0..sampleNum(track), GetSampleTiming(idx)
        PROVE  Asked'
    <3>1. \E v : answer' = [query |-> "timing", arg |-> idx, val |-> v]
      BY <2>2 DEF GetSampleTiming, Answer
    <3> QED BY <3>1 DEF Asked
  <2>3. ASSUME NEW idx \in 0..sampleNum(track), GetSampleDuration(idx)
        PROVE  Asked'
    <3>1. \E v : answer' = [query |-> "duration", arg |-> idx, val |-> v]
      BY <2>3 DEF GetSampleDuration, Answer
    <3> QED BY <3>1 DEF Asked
  <2>4. ASSUME NEW idx \in 0..sampleNum(track), GetSampleSize(idx)
        PROVE  Asked'
    <3>1. \E v : answer' = [query |-> "size", arg |-> idx, val |-> v]
      BY <2>4 DEF GetSampleSize, Answer
    <3> QED BY <3>1 DEF Asked
  <2>5. ASSUME NEW idx \in 0..sampleNum(track), GetSampleOffset(idx)
        PROVE  Asked'
    <3>1. \E v : answer' = [query |-> "offset", arg |-> idx, val |-> v]
      BY <2>5 DEF GetSampleOffset, Answer
    <3> QED BY <3>1 DEF Asked
  <2>6. ASSUME NEW idx \in 0..sampleNum(track), GetPrevSync(idx)
        PROVE  Asked'
    <3>1. \E v : answer' = [query |-> "sync", arg |-> idx, val |-> v]
      BY <2>6 DEF GetPrevSync, Answer
    <3> QED BY <3>1 DEF Asked
  <2> QED BY <1>1, <2>1, <2>2, <2>3, <2>4, <2>5, <2>6 DEF Next
<1>2. CASE UNCHANGED vars
  BY <1>2 DEF vars, Asked
<1> QED BY <1>1, <1>2

LEMMA LookupsRight ==
    ASSUME \A t \in Tracks : IsIntaken(t), DtsOffsets \subseteq Int, IInv, Asked,
           LookupsFindSamples, [Next]_vars
    PROVE  LookupsFindSamples'
<1>1. tables = Stbl(track) /\ IsIntaken(track) /\ dtsOffset \in Int
  BY FileOfIInv
<1>2. SttsSits(stts) /\ CttsSits(ctts) /\ StscSits(stsc) /\ StssSits(stss)
  BY DEF IInv
<1>3. ASSUME NEW idx \in 0..sampleNum(track)
      PROVE  idx \in Nat /\ Clamp(idx) \in Nat /\ Clamp(idx) < sampleNum(track)
  BY <1>1, Clamped
<1>5. ASSUME NEW time \in Times, GetSampleIdx(time) PROVE LookupsFindSamples'
  <2>1. time \in Int
    BY DEF Times
  <2> DEFINE c == SttsAtTime(time - dtsOffset)
             v == IF time <= dtsOffset THEN 0
                  ELSE IF c.entry > Len(tables.stts) THEN sampleNum(track) - 1
                  ELSE c.idx0 + (time - dtsOffset - c.acc) \div tables.stts[c.entry].delta
  <2>2. UNCHANGED file /\ answer' = [query |-> "idx", arg |-> time, val |-> v]
    BY <1>5 DEF GetSampleIdx, Answer
  <2>3. CASE time <= dtsOffset
    <3>1. v = TrueIdx(time)
      BY <1>1, <2>1, <2>3, IdxFirst
    <3> HIDE DEF v
    <3> QED BY <2>2, <3>1, RightAnswer
  <2>4. CASE ~(time <= dtsOffset)
    <3>1. time > dtsOffset
      BY <1>1, <2>1, <2>4
    <3> DEFINE w == IF c.entry > Len(tables.stts) THEN sampleNum(track) - 1
                    ELSE c.idx0 + (time - dtsOffset - c.acc) \div tables.stts[c.entry].delta
    <3>2. w = TrueIdx(time)
      BY <1>1, <1>2, <2>1, <3>1, IdxFound
    <3>3. v = w
      <4> HIDE DEF c
      <4> QED BY <2>4
    <3> HIDE DEF v, w
    <3> QED BY <2>2, <3>2, <3>3, RightAnswer
  <2> QED BY <2>3, <2>4
<1>6. ASSUME NEW idx \in 0..sampleNum(track), GetSampleTiming(idx) PROVE LookupsFindSamples'
  <2> DEFINE i == Clamp(idx)
             c == SttsAtSample(i)
             o == CttsAtSample(i)
             v == [dts |-> c.acc + (i - c.idx0) * tables.stts[c.entry].delta + dtsOffset,
                   ctsOffset |-> IF o.entry > Len(tables.ctts) THEN 0
                                 ELSE tables.ctts[o.entry].value]
  <2>1. /\ SttsSits(c) /\ c.entry <= Len(tables.stts)
        /\ c.acc + (i - c.idx0) * tables.stts[c.entry].delta = track.dts[i + 1] - track.dts[1]
    BY <1>1, <1>2, <1>3, SttsAnswers
  <2>2. ~(c.entry > Len(tables.stts))
    <3>1. c.entry \in Int /\ Len(tables.stts) \in Int
      BY <1>1, <2>1, SttsFacts, SttsTable DEF SttsSits
    <3> HIDE DEF c
    <3> QED BY <2>1, <3>1
  <2>3. UNCHANGED file /\ answer' = [query |-> "timing", arg |-> idx, val |-> v]
    BY <1>6, <2>2 DEF GetSampleTiming, Answer
  <2>4. (IF o.entry > Len(tables.ctts) THEN 0 ELSE tables.ctts[o.entry].value)
            = RunValue(track.cts, i)
    <3>1. i \in Nat /\ i < sampleNum(track)
      BY <1>3
    <3> HIDE DEF i
    <3> QED BY <1>1, <1>2, <3>1, CttsAnswers
  <2>5. v = TrueTiming(i)
    <3> HIDE DEF i, c, o
    <3> QED BY <2>1, <2>4 DEF TrueTiming
  <2> HIDE DEF v
  <2> QED BY <2>3, <2>5, RightAnswer
<1>7. ASSUME NEW idx \in 0..sampleNum(track), GetSampleDuration(idx) PROVE LookupsFindSamples'
  <2> DEFINE i == Clamp(idx)
             c == SttsAtSample(i)
             v == tables.stts[c.entry].delta
  <2>1. /\ SttsSits(c) /\ c.entry <= Len(tables.stts)
        /\ v = Ends(track)[i + 2] - Ends(track)[i + 1]
    BY <1>1, <1>2, <1>3, SttsAnswers
  <2>2. ~(c.entry > Len(tables.stts))
    <3>1. c.entry \in Int /\ Len(tables.stts) \in Int
      BY <1>1, <2>1, SttsFacts, SttsTable DEF SttsSits
    <3> HIDE DEF c
    <3> QED BY <2>1, <3>1
  <2>3. UNCHANGED file /\ answer' = [query |-> "duration", arg |-> idx, val |-> v]
    BY <1>7, <2>2 DEF GetSampleDuration, Answer
  <2>4. \/ v = TrueDuration(i)
        \/ i + 1 = sampleNum(track) /\ (i = 0 \/ TrueDuration(i) < 0)
    <3>1. i \in Nat /\ i < sampleNum(track)
      BY <1>3
    <3> HIDE DEF i, v
    <3> QED BY <1>1, <2>1, <3>1, DurationIs
  <2> HIDE DEF v
  <2> QED BY <2>3, <2>4, RightAnswer
<1>8. ASSUME NEW idx \in 0..sampleNum(track), GetSampleSize(idx) PROVE LookupsFindSamples'
  <2>1. UNCHANGED file /\ answer' = [query |-> "size", arg |-> idx, val |-> SizeOf(idx)]
    BY <1>8 DEF GetSampleSize, Answer
  <2>2. SizeOf(idx) = RunValue(track.sizes, Clamp(idx))
    BY <1>1, <1>3, SizeIs
  <2> QED BY <2>1, <2>2, RightAnswer
<1>9. ASSUME NEW idx \in 0..sampleNum(track), GetSampleOffset(idx) PROVE LookupsFindSamples'
  <2> DEFINE i     == Clamp(idx)
             c     == StscAtSample(i)
             e     == tables.stsc[c.entry]
             chunk == e.first + (i - c.idx0) \div e.num
             first == i - ((i - c.idx0) % e.num)
             v     == [offset |-> tables.stco[chunk] + BytesOf(first, i), sdi |-> e.sdi]
  <2>1. UNCHANGED file /\ answer' = [query |-> "offset", arg |-> idx, val |-> v]
    BY <1>9 DEF GetSampleOffset, Answer
  <2>2. v = TrueOffset(i)
    <3>1. i \in Nat /\ i < sampleNum(track)
      BY <1>3
    <3> HIDE DEF i
    <3> QED BY <1>1, <1>2, <3>1, OffsetIs
  <2> HIDE DEF v
  <2> QED BY <2>1, <2>2, RightAnswer
<1>10. ASSUME NEW idx \in 0..sampleNum(track), GetPrevSync(idx) PROVE LookupsFindSamples'
  <2> DEFINE i == Clamp(idx)
             c == StssAtSample(i)
             v == IF i < c.idx0 THEN -1 ELSE c.idx0
  <2>0. i \in Nat /\ i < sampleNum(track) /\ sampleNum(track) \in Nat
    BY <1>1, <1>3, EndsTimes
  <2>1. CASE tables.stss = << >>
    <3>1. UNCHANGED file /\ answer' = [query |-> "sync", arg |-> idx, val |-> i]
      BY <1>10, <2>1 DEF GetPrevSync, Answer
    <3>2. i = TrueSync(i)
      <4> HIDE DEF i
      <4>1. i \in 0..(sampleNum(track) - 1)
        BY <2>0
      <4> QED BY <1>1, <2>1, <4>1, StssFacts
    <3> QED BY <3>1, <3>2, RightAnswer
  <2>2. CASE tables.stss # << >>
    <3>1. UNCHANGED file /\ answer' = [query |-> "sync", arg |-> idx, val |-> v]
      BY <1>10, <2>2 DEF GetPrevSync, Answer
    <3>2. v = TrueSync(i)
      <4> HIDE DEF i
      <4> QED BY <1>1, <1>2, <2>0, <2>2, SyncIs
    <3> HIDE DEF v
    <3> QED BY <3>1, <3>2, RightAnswer
  <2> QED BY <2>1, <2>2
<1>11. CASE UNCHANGED vars
  <2>1. UNCHANGED file /\ answer' = answer /\ track' = track
    BY <1>11 DEF vars, file
  <2>2. /\ Clamp(answer.arg)' = Clamp(answer.arg)
        /\ TrueIdx(answer.arg)' = TrueIdx(answer.arg)
        /\ TrueTiming(Clamp(answer.arg))' = TrueTiming(Clamp(answer.arg))
        /\ TrueDuration(Clamp(answer.arg))' = TrueDuration(Clamp(answer.arg))
        /\ TrueOffset(Clamp(answer.arg))' = TrueOffset(Clamp(answer.arg))
        /\ TrueSync(Clamp(answer.arg))' = TrueSync(Clamp(answer.arg))
    BY <2>1, FileKept
  <2> QED BY <2>1, <2>2 DEF LookupsFindSamples, Asked
<1> QED BY <1>5, <1>6, <1>7, <1>8, <1>9, <1>10, <1>11 DEF Next

(* The tables of a progressive file give back what went into it: for any    *)
(* track as intake leaves it and any sequence of queries, every answer is   *)
(* what the track's own lists say of the sample.                            *)
THEOREM LookupsAnswer ==
    ASSUME \A t \in Tracks : IsIntaken(t), DtsOffsets \subseteq Int
    PROVE  Spec => []LookupsFindSamples
<1>1. Init => IInv /\ Asked /\ LookupsFindSamples
  BY FirstCursors DEF Init, Asked, LookupsFindSamples
<1>2. IInv /\ Asked /\ LookupsFindSamples /\ [Next]_vars => (IInv /\ Asked /\ LookupsFindSamples)'
  BY CursorsStay, AskedStays, LookupsRight
<1> QED BY <1>1, <1>2, PTL DEF Spec
-----------------------------------------------------------------------------
(* The muxer's setup: types of what it computes.                            *)

LEMMA MinIs ==
    ASSUME NEW S, S \subseteq Nat, S # {}
    PROVE  Min(S) \in S /\ \A y \in S : Min(S) <= y
<1>1. PICK x \in S : \A y \in S : x <= y
  BY Least
<1> QED BY <1>1 DEF Min

LEMMA MaxOfTwo ==
    ASSUME NEW a \in Int, NEW b \in Int
    PROVE  /\ Max({a, b}) \in {a, b}
           /\ Max({a, b}) >= a /\ Max({a, b}) >= b
<1> DEFINE m == IF a >= b THEN a ELSE b
<1>1. m \in {a, b} /\ \A y \in {a, b} : m >= y
  OBVIOUS
<1> QED BY <1>1 DEF Max

LEMMA RescaleType ==
    ASSUME NEW u \in Nat, NEW new \in Nat, NEW old \in Nat \ {0}
    PROVE  Rescale(u, new, old) \in Nat
<1>1. u * new \in Nat
  OBVIOUS
<1>2. PICK p \in Nat : p = u * new
  BY <1>1
<1>3. old \div 2 \in Nat
  OBVIOUS
<1>4. \A a, b \in Nat : b > 0 => a \div b \in Nat
  OBVIOUS
<1>5. (p + old \div 2) \div old \in Nat
  BY <1>3, <1>4
<1> QED BY <1>2, <1>5 DEF Rescale

LEMMA UIntType == ASSUME NEW n \in Int PROVE UInt(n) \in Nat
<1>1. Max32 + 1 \in Nat /\ Max32 + 1 > 0
  BY MovieBoxesAssumption
<1>2. \A k \in Nat : k > 0 => n % k \in Nat
  OBVIOUS
<1> QED BY <1>1, <1>2 DEF UInt

(* Counting the runs of a list gives runs.                                  *)
ValueRun == [count : Nat, value : Int]

LEMMA AddValueType ==
    ASSUME NEW runs \in Seq(ValueRun), NEW v \in Int
    PROVE  AddValue(runs, v) \in Seq(ValueRun)
<1>1. CASE runs # << >> /\ Final(runs).value = v
  <2>1. Len(runs) \in 1..Len(runs) /\ runs[Len(runs)] \in ValueRun
    BY <1>1
  <2>2. [runs[Len(runs)] EXCEPT !.count = @ + 1] \in ValueRun
    BY <2>1 DEF ValueRun
  <2>3. [runs EXCEPT ![Len(runs)] = [runs[Len(runs)] EXCEPT !.count = @ + 1]] \in Seq(ValueRun)
    BY <2>1, <2>2
  <2> QED BY <1>1, <2>3 DEF AddValue
<1>2. CASE ~(runs # << >> /\ Final(runs).value = v)
  <2>1. [count |-> 1, value |-> v] \in ValueRun
    BY DEF ValueRun
  <2> QED BY <1>2, <2>1 DEF AddValue
<1> QED BY <1>1, <1>2

LEMMA RunsCounted ==
    ASSUME NEW values \in Seq(Int)
    PROVE  CountRuns(values) \in Seq(ValueRun)
<1> DEFINE S == Seq(ValueRun)
           n == Len(values)
           g == [k \in 1..n |-> [r \in S |-> AddValue(r, values[k])]]
<1>1. ASSUME NEW r \in S, NEW v \in Int PROVE AddValue(r, v) \in S
  BY AddValueType
<1>2. n \in Nat /\ \A k \in 1..n : values[k] \in Int
  OBVIOUS
<1>3. << >> \in S
  OBVIOUS
<1>4. g \in [1..n -> [S -> S]]
  BY <1>1, <1>2
<1> HIDE DEF g
<1>5. PICK f \in [0..n -> S] : IsIterated(n, << >>, g, f)
  BY <1>2, <1>3, <1>4, Iterates
<1>6. f = [i \in 0..n |-> IF i = 0 THEN << >> ELSE AddValue(f[i - 1], values[i])]
  <2>1. \A i \in 0..n : i # 0 => i \in 1..n /\ i - 1 \in 0..n
    BY <1>2
  <2>2. \A i \in 0..n : i # 0 => f[i - 1] \in S
    BY <2>1
  <2>3. \A i \in 0..n : i # 0 => g[i][f[i - 1]] = AddValue(f[i - 1], values[i])
    BY <2>1, <2>2 DEF g
  <2> HIDE DEF S
  <2> QED BY <1>5, <2>3 DEF IsIterated
<1>7. CountRuns(values) = f[n]
  <2> DEFINE h == CHOOSE h : h = [i \in 0..n |-> IF i = 0 THEN << >>
                                                ELSE AddValue(h[i - 1], values[i])]
  <2>1. h = [i \in 0..n |-> IF i = 0 THEN << >> ELSE AddValue(h[i - 1], values[i])]
    BY <1>6
  <2>2. CountRuns(values) = h[n]
    BY DEF CountRuns
  <2> HIDE DEF h
  <2> DEFINE Same == {k \in 0..n : h[k] = f[k]}
  <2>3. \A k \in 0..n : h[k] = IF k = 0 THEN << >> ELSE AddValue(h[k - 1], values[k])
    <3> DEFINE r == [i \in 0..n |-> IF i = 0 THEN << >> ELSE AddValue(h[i - 1], values[i])]
    <3>1. \A k \in 0..n : r[k] = IF k = 0 THEN << >> ELSE AddValue(h[k - 1], values[k])
      OBVIOUS
    <3>2. h = r
      BY <2>1
    <3> HIDE DEF r
    <3> QED BY <3>1, <3>2
  <2>4. \A k \in 0..n : f[k] = IF k = 0 THEN << >> ELSE AddValue(f[k - 1], values[k])
    <3> DEFINE r == [i \in 0..n |-> IF i = 0 THEN << >> ELSE AddValue(f[i - 1], values[i])]
    <3>1. \A k \in 0..n : r[k] = IF k = 0 THEN << >> ELSE AddValue(f[k - 1], values[k])
      OBVIOUS
    <3>2. f = r
      BY <1>6
    <3> HIDE DEF r
    <3> QED BY <3>1, <3>2
  <2>5. 0 \in Same
    BY <1>2, <2>3, <2>4
  <2>6. ASSUME NEW k \in 0..(n - 1), k \in Same PROVE k + 1 \in Same
    <3>1. k + 1 \in 0..n /\ k + 1 # 0 /\ (k + 1) - 1 = k
      BY <1>2
    <3>2. h[k + 1] = AddValue(h[k], values[k + 1])
      BY <2>3, <3>1
    <3>3. f[k + 1] = AddValue(f[k], values[k + 1])
      BY <2>4, <3>1
    <3> QED BY <2>6, <3>1, <3>2, <3>3
  <2> HIDE DEF Same, n
  <2>7. \A k \in 0..n : k \in Same
    <3>1. \A k \in 0..(n - 1) : k \in Same => k + 1 \in Same
      BY <2>6
    <3>2. n \in Int /\ 0 \in Int
      BY <1>2
    <3> QED BY <2>5, <3>1, <3>2, Upwards
  <2>8. n \in Same
    BY <1>2, <2>7
  <2> QED BY <2>2, <2>8 DEF Same
<1>8. f[n] \in S
  BY <1>2
<1> QED BY <1>7, <1>8

-----------------------------------------------------------------------------
(* What the steps of a track's setup leave as it is.                        *)
Kept(t, u) ==
    /\ u \in Track
    /\ u.id = t.id /\ u.type = t.type /\ u.el = t.el /\ u.rpu = t.rpu
    /\ u.dts = t.dts /\ u.sizes = t.sizes

KeptTimes(t, u) == u.timescale = t.timescale /\ u.duration = t.duration

LEMMA FromBaseIs ==
    ASSUME NEW t \in Track, NEW i, t.el => tracks[i - 1] \in Track,
           NEW u, u = FromBase(t, i)
    PROVE  /\ Kept(t, u) /\ u.edits = t.edits /\ u.sync = t.sync /\ u.cts = t.cts
           /\ t.rpu /\ t.el => KeptTimes(tracks[i - 1], u)
<1>1. CASE t.rpu /\ t.el
  <2> DEFINE ts == tracks[i - 1].timescale
             du == tracks[i - 1].duration
  <2>1. ts \in Nat \ {0} /\ du \in Nat
    BY <1>1 DEF Track
  <2>2. u = [t EXCEPT !.timescale = ts, !.duration = du]
    BY <1>1 DEF FromBase
  <2> HIDE DEF ts, du
  <2>3. u \in Track
    <3>1. [t EXCEPT !.timescale = ts, !.duration = du] \in Track
      BY <2>1, ZenonT(60) DEF Track
    <3> QED BY <2>2, <3>1
  <2>4. u.id = t.id /\ u.type = t.type
    BY <2>2 DEF Track
  <2>5. u.el = t.el /\ u.rpu = t.rpu
    BY <2>2 DEF Track
  <2>6. u.dts = t.dts /\ u.sizes = t.sizes /\ u.edits = t.edits
    BY <2>2 DEF Track
  <2>7. u.sync = t.sync /\ u.cts = t.cts
    BY <2>2 DEF Track
  <2>8. u.timescale = ts /\ u.duration = du
    BY <2>2 DEF Track
  <2> QED BY <2>3, <2>4, <2>5, <2>6, <2>7, <2>8 DEF Kept, KeptTimes, ts, du
<1>2. CASE ~(t.rpu /\ t.el)
  BY <1>2 DEF FromBase, Kept
<1> QED BY <1>1, <1>2

(* The offsets are those of the parser or the ones the samples came with.   *)
LEMMA FixCtsIs ==
    ASSUME NEW t \in Track, NEW u, u = FixCts(t)
    PROVE  Kept(t, u) /\ KeptTimes(t, u) /\ u.edits = t.edits /\ u.sync = t.sync
<1>1. CASE t.fixed = << >>
  BY <1>1 DEF FixCts, Kept, KeptTimes
<1>2. CASE t.fixed # << >>
  <2> DEFINE n == Len(t.fixed)
             w == [i \in 1..n |-> Rescale(t.fixed[i], t.warp[1], t.warp[2])]
             base == IF movie.cttsV1 THEN w[1] ELSE 0
             v == [i \in 1..n |-> UInt(w[i] - base)]
             c == CountRuns(v)
  <2>1. t.fixed \in Seq(Nat) /\ t.warp \in (Nat \ {0}) \X (Nat \ {0})
    BY DEF Track
  <2>2. n \in Nat /\ n > 0 /\ \A i \in 1..n : t.fixed[i] \in Nat
    BY <1>2, <2>1
  <2>3. t.warp[1] \in Nat \ {0} /\ t.warp[2] \in Nat \ {0}
    BY <2>1
  <2>4. \A i \in 1..n : w[i] \in Nat
    BY <2>2, <2>3, RescaleType
  <2> HIDE DEF n
  <2>5. w \in Seq(Nat) /\ Len(w) = n /\ base \in Nat
    BY <2>2, <2>4
  <2> HIDE DEF w, base
  <2>6. \A i \in 1..n : UInt(w[i] - base) \in Nat
    <3>1. \A i \in 1..n : w[i] - base \in Int
      BY <2>4, <2>5
    <3> QED BY <3>1, UIntType
  <2>7. v \in Seq(Int)
    BY <2>2, <2>6
  <2>8. c \in Seq(ValueRun)
    BY <2>7, RunsCounted
  <2>9. u = [t EXCEPT !.cts = c]
    BY <1>2, <2>5 DEF FixCts, w, base, n
  <2> HIDE DEF c
  <2>10. u \in Track
    <3>1. [t EXCEPT !.cts = c] \in Track
      BY <2>8, ZenonT(60) DEF Track, ValueRun
    <3> QED BY <2>9, <3>1
  <2>11. u.id = t.id /\ u.type = t.type
    BY <2>9 DEF Track
  <2>12. u.el = t.el /\ u.rpu = t.rpu
    BY <2>9 DEF Track
  <2>13. u.dts = t.dts /\ u.sizes = t.sizes /\ u.edits = t.edits
    BY <2>9 DEF Track
  <2>14. u.sync = t.sync
    BY <2>9 DEF Track
  <2>15. u.timescale = t.timescale /\ u.duration = t.duration
    BY <2>9 DEF Track
  <2> QED BY <2>10, <2>11, <2>12, <2>13, <2>14, <2>15 DEF Kept, KeptTimes
<1> QED BY <1>1, <1>2

LEMMA SyncOfBaseIs ==
    ASSUME NEW t \in Track, NEW i, t.el => tracks[i - 1] \in Track,
           NEW u, u = SyncOfBase(t, i)
    PROVE  /\ Kept(t, u) /\ KeptTimes(t, u) /\ u.edits = t.edits /\ u.cts = t.cts
           /\ u.sync = IF t.el THEN tracks[i - 1].sync ELSE t.sync
<1>1. CASE t.el
  <2> DEFINE s == tracks[i - 1].sync
  <2>1. s \in Seq(Nat)
    BY <1>1 DEF Track
  <2>2. u = [t EXCEPT !.sync = s]
    BY <1>1 DEF SyncOfBase
  <2> HIDE DEF s
  <2>3. u \in Track
    <3>1. [t EXCEPT !.sync = s] \in Track
      BY <2>1, ZenonT(60) DEF Track
    <3> QED BY <2>2, <3>1
  <2>4. u.id = t.id /\ u.type = t.type
    BY <2>2 DEF Track
  <2>5. u.el = t.el /\ u.rpu = t.rpu
    BY <2>2 DEF Track
  <2>6. u.dts = t.dts /\ u.sizes = t.sizes /\ u.edits = t.edits
    BY <2>2 DEF Track
  <2>7. u.sync = s /\ u.cts = t.cts
    BY <2>2 DEF Track
  <2>8. u.timescale = t.timescale /\ u.duration = t.duration
    BY <2>2 DEF Track
  <2> QED BY <1>1, <2>3, <2>4, <2>5, <2>6, <2>7, <2>8 DEF Kept, KeptTimes, s
<1>2. CASE ~t.el
  BY <1>2 DEF SyncOfBase, Kept, KeptTimes
<1> QED BY <1>1, <1>2

(* Whatever offset the first sample has, the edit starts there.             *)
LEMMA CompensateIs ==
    ASSUME movie \in Movie, NEW t \in Track, NEW u, u = Compensate(t)
    PROVE  /\ Kept(t, u) /\ KeptTimes(t, u) /\ u.sync = t.sync /\ u.cts = t.cts
           /\ t.edits = << >> => FirstOffset(u) = StartOfEdits(u)
<1>1. t.cts \in Seq([count : Nat, value : Int]) /\ t.timescale \in Nat \ {0}
      /\ t.duration \in Nat /\ t.edits \in Seq([duration : Nat, mediaTime : Int])
  BY DEF Track
<1>2. CASE ~NoCtsOffset(t) /\ t.edits = << >> /\ t.cts # << >> /\ t.cts[1].value # 0
  <2> DEFINE d == UInt(Rescale(t.duration, movie.timescale, t.timescale))
             x == t.cts[1].value
             e == [duration |-> d, mediaTime |-> x]
             l == t.elstLong \/ x > Max32 \div 2
  <2>1. 1 \in 1..Len(t.cts)
    <3>1. t.cts # << >>
      BY <1>2
    <3> QED BY <1>1, <3>1
  <2>2. x \in Int
    <3>1. t.cts \in Seq(ValueRun)
      BY <1>1 DEF ValueRun
    <3>2. t.cts[1] \in ValueRun
      BY <2>1, <3>1
    <3> QED BY <3>2 DEF ValueRun
  <2>3. movie.timescale \in Nat \ {0}
    BY DEF Movie
  <2>4. d \in Nat
    <3>1. Rescale(t.duration, movie.timescale, t.timescale) \in Nat
      BY <1>1, <2>3, RescaleType
    <3> QED BY <3>1, UIntType
  <2>5. u = [t EXCEPT !.edits = Append(t.edits, e), !.sumEdits = t.sumEdits + d, !.elstLong = l]
    BY <1>2 DEF Compensate, AddEdit
  <2>6. l \in BOOLEAN
    OBVIOUS
  <2> HIDE DEF d, x, l
  <2>7. e \in [duration : Nat, mediaTime : Int] /\ e.mediaTime = x
    BY <2>2, <2>4
  <2> HIDE DEF e
  <2>8. Append(t.edits, e) \in Seq([duration : Nat, mediaTime : Int])
        /\ Append(t.edits, e) # << >> /\ Append(t.edits, e)[1] = e
    BY <1>1, <1>2, <2>7
  <2> DEFINE es == Append(t.edits, e)
  <2>9. t.sumEdits + d \in Nat
    <3>1. t.sumEdits \in Nat
      BY DEF Track
    <3> QED BY <2>4, <3>1
  <2> HIDE DEF es
  <2>10. u = [t EXCEPT !.edits = es, !.sumEdits = t.sumEdits + d, !.elstLong = l]
    BY <2>5 DEF es
  <2>11. es \in Seq([duration : Nat, mediaTime : Int]) /\ es # << >> /\ es[1] = e
    BY <2>8 DEF es
  <2>12. u \in Track
    <3> DEFINE s == t.sumEdits + d
    <3>1. s \in Nat
      BY <2>9
    <3> HIDE DEF s
    <3>2. [t EXCEPT !.edits = es, !.sumEdits = s, !.elstLong = l] \in Track
      BY <2>6, <2>11, <3>1, ZenonT(60) DEF Track
    <3> QED BY <2>10, <3>2 DEF s
  <2>13. u.id = t.id /\ u.type = t.type
    BY <2>10 DEF Track
  <2>14. u.el = t.el /\ u.rpu = t.rpu
    BY <2>10 DEF Track
  <2>15. u.dts = t.dts /\ u.sizes = t.sizes /\ u.edits = es
    BY <2>10 DEF Track
  <2>16. u.sync = t.sync /\ u.cts = t.cts
    BY <2>10 DEF Track
  <2>17. u.timescale = t.timescale /\ u.duration = t.duration
    BY <2>10 DEF Track
  <2>18. StartOfEdits(u) = x
    BY <2>7, <2>11, <2>15 DEF StartOfEdits
  <2>19. FirstOffset(u) = x
    BY <1>2, <2>16 DEF FirstOffset, Ctts, NoCtsOffset, x
  <2> QED BY <2>12, <2>13, <2>14, <2>15, <2>16, <2>17, <2>18, <2>19 DEF Kept, KeptTimes
<1>3. CASE ~(~NoCtsOffset(t) /\ t.edits = << >> /\ t.cts # << >> /\ t.cts[1].value # 0)
  <2>1. u = t
    BY <1>3 DEF Compensate
  <2>2. t.edits = << >> => FirstOffset(t) = 0 /\ StartOfEdits(t) = 0
    BY <1>3 DEF FirstOffset, StartOfEdits, Ctts
  <2> QED BY <2>1, <2>2 DEF Kept, KeptTimes
<1> QED BY <1>2, <1>3

LEMMA SumEditsIs ==
    ASSUME movie \in Movie, NEW t \in Track, NEW u, u = SumEdits(t)
    PROVE  Kept(t, u) /\ KeptTimes(t, u) /\ u.sync = t.sync /\ u.cts = t.cts
           /\ u.edits = t.edits
<1>1. CASE t.edits # << >>
  BY <1>1 DEF SumEdits, Kept, KeptTimes
<1>2. CASE t.edits = << >>
  <2> DEFINE x == Rescale(t.duration, movie.timescale, t.timescale)
  <2>1. t.duration \in Nat /\ t.timescale \in Nat \ {0}
    BY DEF Track
  <2>2. movie.timescale \in Nat \ {0}
    BY DEF Movie
  <2>3. x \in Nat
    BY <2>1, <2>2, RescaleType
  <2>4. u = [t EXCEPT !.sumEdits = x]
    BY <1>2 DEF SumEdits
  <2> HIDE DEF x
  <2>5. u \in Track
    <3>1. [t EXCEPT !.sumEdits = x] \in Track
      BY <2>3, ZenonT(60) DEF Track
    <3> QED BY <2>4, <3>1
  <2>6. u.id = t.id /\ u.type = t.type
    BY <2>4 DEF Track
  <2>7. u.el = t.el /\ u.rpu = t.rpu
    BY <2>4 DEF Track
  <2>8. u.dts = t.dts /\ u.sizes = t.sizes /\ u.edits = t.edits
    BY <2>4 DEF Track
  <2>9. u.sync = t.sync /\ u.cts = t.cts
    BY <2>4 DEF Track
  <2>10. u.timescale = t.timescale /\ u.duration = t.duration
    BY <2>4 DEF Track
  <2> QED BY <2>5, <2>6, <2>7, <2>8, <2>9, <2>10 DEF Kept, KeptTimes
<1> QED BY <1>1, <1>2

(* A track that is set up.                                                  *)
LEMMA SetUpIs ==
    ASSUME movie \in Movie, NEW t \in Track, NEW i,
           t.el => tracks[i - 1] \in Track, NEW u, u = SetUp(t, i)
    PROVE  /\ Kept(t, u)
           /\ u.sync = IF t.el THEN tracks[i - 1].sync ELSE t.sync
           /\ t.rpu /\ t.el => KeptTimes(tracks[i - 1], u)
           /\ t.edits = << >> => FirstOffset(u) = StartOfEdits(u)
<1>1. PICK a : a = FromBase(t, i)
  OBVIOUS
<1>2. PICK b : b = FixCts(a)
  OBVIOUS
<1>3. PICK c : c = SyncOfBase(b, i)
  OBVIOUS
<1>4. PICK d : d = Compensate(c)
  OBVIOUS
<1>5. u = SumEdits(d)
  BY <1>1, <1>2, <1>3, <1>4 DEF SetUp
<1>6. /\ Kept(t, a) /\ a.edits = t.edits /\ a.sync = t.sync
      /\ t.rpu /\ t.el => KeptTimes(tracks[i - 1], a)
  BY <1>1, FromBaseIs
<1>7. a \in Track /\ a.el = t.el
  BY <1>6 DEF Kept
<1>8. Kept(a, b) /\ KeptTimes(a, b) /\ b.edits = a.edits /\ b.sync = a.sync
  BY <1>2, <1>7, FixCtsIs
<1>9. b \in Track /\ b.el = t.el
  BY <1>7, <1>8 DEF Kept
<1>10. /\ Kept(b, c) /\ KeptTimes(b, c) /\ c.edits = b.edits
       /\ c.sync = IF b.el THEN tracks[i - 1].sync ELSE b.sync
  BY <1>3, <1>9, SyncOfBaseIs
<1>11. c \in Track
  BY <1>10 DEF Kept
<1>12. /\ Kept(c, d) /\ KeptTimes(c, d) /\ d.sync = c.sync
       /\ c.edits = << >> => FirstOffset(d) = StartOfEdits(d)
  BY <1>4, <1>11, CompensateIs
<1>13. d \in Track
  BY <1>12 DEF Kept
<1>14. Kept(d, u) /\ KeptTimes(d, u) /\ u.sync = d.sync /\ u.cts = d.cts /\ u.edits = d.edits
  BY <1>5, <1>13, SumEditsIs
<1>15. Kept(t, u)
  BY <1>6, <1>8, <1>10, <1>12, <1>14 DEF Kept
<1>16. u.sync = IF t.el THEN tracks[i - 1].sync ELSE t.sync
  BY <1>6, <1>8, <1>9, <1>10, <1>12, <1>14
<1>17. t.rpu /\ t.el => KeptTimes(tracks[i - 1], u)
  BY <1>6, <1>8, <1>10, <1>12, <1>14 DEF KeptTimes
<1>18. FirstOffset(u) = FirstOffset(d) /\ StartOfEdits(u) = StartOfEdits(d)
  BY <1>14 DEF FirstOffset, StartOfEdits, Ctts, NoCtsOffset
<1>19. c.edits = t.edits
  BY <1>6, <1>8, <1>10
<1> QED BY <1>12, <1>15, <1>16, <1>17, <1>18, <1>19

-----------------------------------------------------------------------------
LEMMA RowEmpty ==
    /\ Row(<< >>).size = 0 /\ Row(<< >>).bytes = 0 /\ Row(<< >>).spans = {}
<1> DEFINE b == << >>
           v == [i \in 1..Len(b) |-> b[i].bytes]
<1>1. Len(b) = 0 /\ 1..0 = {}
  OBVIOUS
<1>2. Total(v) = 0
  <2>1. v = << >>
    BY <1>1
  <2>2. Len(v) = 0
    BY <2>1
  <2> QED BY <2>2, SumEmpty DEF Total
<1>3. UNION {b[i].spans : i \in 1..Len(b)} = {}
  BY <1>1
<1> QED BY <1>2, <1>3 DEF Row

LEMMA FilledType == ASSUME NEW ts, Len(ts) \in Nat PROVE Filled(ts) \in Nat
<1>1. IsFiniteSet(1..Len(ts))
  BY FS_Interval
<1>2. {i \in 1..Len(ts) : sampleNum(ts[i]) > 0} \in SUBSET (1..Len(ts))
  OBVIOUS
<1>3. IsFiniteSet({i \in 1..Len(ts) : sampleNum(ts[i]) > 0})
  BY <1>1, <1>2, FS_Subset
<1> QED BY <1>3, FS_CardinalityType DEF Filled

LEMMA LenType == ASSUME NEW S, NEW s \in Seq(S) PROVE Len(s) \in Nat
OBVIOUS

LEMMA TrakEstimateType ==
    ASSUME NEW t \in Track PROVE TrakEstimate(t) \in Nat /\ TrakEstimate(t) >= 43
<1>1. t.dsi \in Nat
  BY DEF Track
<1>2. EntryEstimate(t) \in Nat
  <2>1. CASE t.type = "vide"
    BY <1>1, <2>1 DEF EntryEstimate
  <2>2. CASE t.type = "soun"
    BY <1>1, <2>2 DEF EntryEstimate
  <2>3. CASE t.type = "data"
    BY <1>1, <2>3 DEF EntryEstimate
  <2>4. CASE ~(t.type \in {"vide", "soun", "data"})
    BY <2>4 DEF EntryEstimate
  <2> QED BY <2>1, <2>2, <2>3, <2>4
<1>3. sampleNum(t) \in Nat
  BY DEF Track, sampleNum
<1>4. Len(t.edits) \in Nat /\ Len(t.cts) \in Nat
  <2>1. t.edits \in Seq([duration : Nat, mediaTime : Int])
    BY DEF Track
  <2>2. t.cts \in Seq([count : Nat, value : Int])
    BY DEF Track
  <2> QED BY <2>1, <2>2, LenType
<1>5. Len(t.sync) \in Nat /\ Len(t.chunks) \in Nat
  <2>1. t.sync \in Seq(Nat)
    BY DEF Track
  <2>2. t.chunks \in Seq([num : Nat, sdi : Nat, offset : Nat, idx : Nat])
    BY DEF Track
  <2> QED BY <2>1, <2>2, LenType
<1>6. (IF Len(t.sizes) = 1 THEN 0 ELSE sampleNum(t)) \in Nat
  BY <1>3
<1> DEFINE e == Len(t.edits)
           n == sampleNum(t)
           c == Len(t.cts)
           s == Len(t.sync)
           k == Len(t.chunks)
           z == IF Len(t.sizes) = 1 THEN 0 ELSE sampleNum(t)
           x == EntryEstimate(t)
<1>7. TrakEstimate(t) =
        120 + 8 + 104 + (12 + 12 * (1 + e)) + 8 + 44 + 64 + 8 + 20 + 36 + 8 + (16 + 8 * n)
        + (16 + 8 * c) + (16 + 4 * s) + (16 + 12 * k) + (20 + 4 * z) + (16 + 8 * k) + 16 + x
  BY DEF TrakEstimate
<1> HIDE DEF e, n, c, s, k, z, x
<1>8. e \in Nat /\ n \in Nat /\ c \in Nat /\ s \in Nat /\ k \in Nat /\ z \in Nat /\ x \in Nat
  BY <1>2, <1>3, <1>4, <1>5, <1>6 DEF e, n, c, s, k, z, x
<1> QED BY <1>7, <1>8

LEMMA PdinSize ==
    ASSUME NEW c \in BOOLEAN, NEW m, NEW x
    PROVE  Optional(c, PdinBox(m, x)).size \in Nat
<1>1. CASE c
  <2> DEFINE n == IF PdinBaserate(m, x) >= 2 THEN 3 ELSE 2
  <2>1. n \in Nat
    OBVIOUS
  <2>2. Optional(c, PdinBox(m, x)).size = 12 + 8 * n
    BY <1>1 DEF Optional, PdinBox, Announced
  <2> QED BY <2>1, <2>2
<1>2. CASE ~c
  BY <1>2, RowEmpty DEF Optional
<1> QED BY <1>1, <1>2

LEMMA InMoovType ==
    ASSUME movie \in Movie, NEW ts, Len(ts) \in Nat, ts = tracks
    PROVE  EstimateInMoov \in Nat
<1>1. movie.est \in Nat /\ movie.ainf \in Nat
  BY DEF Movie
<1>2. MvhdBox(movie).size \in Nat
  BY DEF MvhdBox, Announced
<1>3. Filled(tracks) \in Nat
  BY FilledType
<1>4. IodsBox(tracks).size \in Nat
  BY <1>3 DEF IodsBox, Announced
<1> QED BY <1>1, <1>2, <1>4 DEF EstimateInMoov
-----------------------------------------------------------------------------
(* Types and bounds: setup goes through the tracks there are.               *)
SetupTyped ==
    /\ movie \in Movie /\ tracks \in Seq(Track)
    /\ Len(tracks) <= MaxStreams /\ Len(tracks) <= MaxTracks
    /\ next \in 1..(Len(tracks) + 1)
    /\ phase \in {"adding", "setup", "moov", "done", "failed", "init segment", "undefined"}
    /\ ret \in {"ok", "no track", "buggy", "empty", "read error"}
    /\ phase = "adding" => next = 1
    /\ phase \in {"moov", "done"} => next = Len(tracks) + 1
    /\ \A i \in 1..Len(tracks) : tracks[i].el => i > 1 /\ ~tracks[i - 1].el

(* A track that is added has an ID, and it is the stream otherwise.         *)
Added(s, want, entry) ==
    [s EXCEPT !.id = TrackId(want), !.coding = CodingOf(s, entry), !.modTime = movie.modTime]

LEMMA IdType ==
    ASSUME SetupTyped, NEW want \in WantedIds
    PROVE  TrackId(want) \in Nat \ {0}
<1> DEFINE id == IF want # 0 THEN want ELSE movie.nextId
           free == 1..MaxStreams \ Ids
<1>1. id \in Nat \ {0}
  BY SetupAssumption DEF SetupTyped, Movie
<1>2. ASSUME free # {} PROVE Min(free) \in Nat \ {0}
  <2>1. free \subseteq Nat /\ 0 \notin free
    OBVIOUS
  <2> HIDE DEF free
  <2> QED BY <1>2, <2>1, MinIs
<1> QED BY <1>1, <1>2 DEF TrackId

LEMMA AddedIs ==
    ASSUME SetupTyped, NEW s \in Streams, NEW want \in WantedIds, NEW entry,
           NEW u, u = Added(s, want, entry)
    PROVE  /\ u \in Track /\ u.id = TrackId(want) /\ u.type = s.type /\ u.el = s.el
           /\ u.rpu = s.rpu /\ u.dts = s.dts /\ u.sizes = s.sizes /\ u.sync = s.sync
           /\ u.edits = s.edits
<1> DEFINE id == TrackId(want)
           c == CodingOf(s, entry)
           m == movie.modTime
<1>1. s \in Track
  BY SetupAssumption DEF IsStream
<1>2. id \in Nat /\ m \in Nat
  BY IdType DEF SetupTyped, Movie
<1>3. c \in Codings
  <2>1. s.coding \in Codings
    BY <1>1 DEF Track
  <2> DEFINE name == IF s.coding # "hvc1" \/ entry = "hvc1" THEN s.coding ELSE "hev1"
             Named == movie.dvNonComp /\ s.type = "vide"
  <2>2. name \in Codings
    BY <2>1, SetupAssumption
  <2> HIDE DEF name
  <2>3. CASE Named /\ entry = "dvh1"
    BY <2>3, SetupAssumption DEF CodingOf
  <2>4. CASE Named /\ entry # "dvh1"
    BY <2>4, SetupAssumption DEF CodingOf
  <2>5. CASE ~Named
    <3>1. CodingOf(s, entry) = name
      BY <2>5 DEF CodingOf, name
    <3> QED BY <2>2, <3>1
  <2> QED BY <2>3, <2>4, <2>5
<1>4. u = [s EXCEPT !.id = id, !.coding = c, !.modTime = m]
  BY DEF Added
<1> HIDE DEF id, c, m
<1>5. [s EXCEPT !.id = id, !.coding = c, !.modTime = m] \in Track
  BY <1>1, <1>2, <1>3, ZenonT(60) DEF Track
<1>6. u.id = id /\ u.type = s.type
  BY <1>1, <1>4 DEF Track
<1>7. u.el = s.el /\ u.rpu = s.rpu
  BY <1>1, <1>4 DEF Track
<1>8. u.dts = s.dts /\ u.sizes = s.sizes
  BY <1>1, <1>4 DEF Track
<1>9. u.sync = s.sync /\ u.edits = s.edits
  BY <1>1, <1>4 DEF Track
<1> QED BY <1>4, <1>5, <1>6, <1>7, <1>8, <1>9 DEF id

LEMMA RoomLeft ==
    ASSUME SetupTyped, Len(tracks) < Min({MaxStreams, MaxTracks})
    PROVE  Len(tracks) < MaxStreams /\ Len(tracks) < MaxTracks /\ Len(tracks) \in Nat
<1>1. Len(tracks) \in Nat
  BY LenType DEF SetupTyped
<1>2. {MaxStreams, MaxTracks} \subseteq Nat
  BY SetupAssumption
<1>3. Min({MaxStreams, MaxTracks}) <= MaxStreams /\ Min({MaxStreams, MaxTracks}) <= MaxTracks
      /\ Min({MaxStreams, MaxTracks}) \in Nat
  BY <1>2, MinIs
<1> QED BY <1>1, <1>2, <1>3

-----------------------------------------------------------------------------
(* What each step does to the tracks and to the movie.                      *)
LEMMA TrackAdded ==
    ASSUME SetupTyped, NEW s \in Streams, NEW want \in WantedIds, NEW entry,
           AddTrack(s, want, entry), NEW u, u = Added(s, want, entry)
    PROVE  /\ Len(tracks) \in Nat /\ Len(tracks') = Len(tracks) + 1
           /\ tracks' \in Seq(Track) /\ tracks'[Len(tracks) + 1] = u
           /\ \A i \in 1..Len(tracks) : tracks'[i] = tracks[i]
<1>1. tracks' = Append(tracks, u)
  BY DEF AddTrack, Added
<1>2. u \in Track
  BY AddedIs
<1>3. tracks \in Seq(Track)
  BY DEF SetupTyped
<1> QED BY <1>1, <1>2, <1>3

LEMMA MovieAdded ==
    ASSUME SetupTyped, NEW s \in Streams, NEW want \in WantedIds, NEW entry,
           AddTrack(s, want, entry)
    PROVE  /\ movie' \in Movie /\ movie'.est = movie.est /\ movie'.duration = movie.duration
           /\ movie'.nextId > movie.nextId /\ movie'.nextId > TrackId(want)
           /\ movie'.ctrl = IF s.type = "vide" THEN TrackId(want) ELSE movie.ctrl
<1> DEFINE id == TrackId(want)
           n == NextId(id)
           c == IF s.type = "vide" THEN id ELSE movie.ctrl
<1>1. movie \in Movie /\ movie.nextId \in Nat /\ movie.ctrl \in Nat
  BY DEF SetupTyped, Movie
<1>2. id \in Nat
  BY IdType
<1>3. n \in Nat \ {0} /\ n > movie.nextId /\ n > id
  <2> HIDE DEF id
  <2>1. n >= movie.nextId + 1 /\ n >= id + 1 /\ n \in {movie.nextId + 1, id + 1}
    <3>1. movie.nextId + 1 \in Int /\ id + 1 \in Int
      BY <1>1, <1>2
    <3>2. n = Max({movie.nextId + 1, id + 1})
      BY DEF NextId
    <3> QED BY <3>1, <3>2, MaxOfTwo
  <2> QED BY <1>1, <1>2, <2>1
<1>4. c \in Nat
  BY <1>1, <1>2
<1>5. movie' = [movie EXCEPT !.nextId = n, !.ctrl = c]
  BY DEF AddTrack
<1> HIDE DEF n, c
<1>6. [movie EXCEPT !.nextId = n, !.ctrl = c] \in Movie
  BY <1>1, <1>3, <1>4, ZenonT(60) DEF Movie
<1>7. movie'.nextId = n /\ movie'.ctrl = c
  BY <1>1, <1>5 DEF Movie
<1>8. movie'.est = movie.est /\ movie'.duration = movie.duration
  BY <1>1, <1>5 DEF Movie
<1> QED BY <1>3, <1>5, <1>6, <1>7, <1>8 DEF c, id

LEMMA TrackSetUp ==
    ASSUME SetupTyped, SetupTrack, NEW u, u = SetUp(tracks[next], next)
    PROVE  /\ next \in 1..Len(tracks) /\ Len(tracks) \in Nat
           /\ tracks[next] \in Track /\ Kept(tracks[next], u)
           /\ tracks[next].el => next > 1 /\ tracks[next - 1] \in Track
           /\ tracks' \in Seq(Track) /\ Len(tracks') = Len(tracks) /\ tracks'[next] = u
           /\ \A i \in 1..Len(tracks) : i # next => tracks'[i] = tracks[i]
<1>1. tracks \in Seq(Track) /\ Len(tracks) \in Nat
  BY LenType DEF SetupTyped
<1>2. next \in 1..(Len(tracks) + 1) /\ next <= Len(tracks)
  BY DEF SetupTyped, SetupTrack
<1>3. next \in 1..Len(tracks)
  BY <1>1, <1>2
<1>4. tracks[next] \in Track
  BY <1>1, <1>3
<1>5. ASSUME tracks[next].el PROVE next > 1 /\ tracks[next - 1] \in Track
  <2>1. next > 1
    BY <1>3, <1>5 DEF SetupTyped
  <2>2. next - 1 \in 1..Len(tracks)
    BY <1>1, <1>3, <2>1
  <2> QED BY <1>1, <2>1, <2>2
<1>6. movie \in Movie
  BY DEF SetupTyped
<1>7. Kept(tracks[next], u)
  BY <1>4, <1>5, <1>6, SetUpIs
<1>8. tracks' = [tracks EXCEPT ![next] = u]
  BY DEF SetupTrack
<1>9. u \in Track
  BY <1>7 DEF Kept
<1> QED BY <1>1, <1>3, <1>4, <1>5, <1>7, <1>8, <1>9

LEMMA MovieSetUp ==
    ASSUME SetupTyped, SetupTrack, NEW u, u = SetUp(tracks[next], next)
    PROVE  /\ movie' \in Movie /\ movie'.nextId = movie.nextId
           /\ movie'.ctrl \in {0, movie.ctrl}
           /\ movie'.duration = Max({movie.duration, u.sumEdits})
           /\ movie'.est = IF movie.frag THEN movie.est ELSE movie.est + TrakEstimate(u)
<1> DEFINE d == Max({movie.duration, u.sumEdits})
           m == movie.mdat + u.mdat
           e == IF movie.frag THEN movie.est ELSE movie.est + TrakEstimate(u)
           c == IF movie.frag /\ u.id = movie.ctrl /\ AllRapSamples(u) THEN 0 ELSE movie.ctrl
<1>1. movie \in Movie
  BY DEF SetupTyped
<1>2. movie.duration \in Nat /\ movie.mdat \in Nat /\ movie.est \in Nat /\ movie.ctrl \in Nat
  BY <1>1 DEF Movie
<1>3. u \in Track
  BY TrackSetUp DEF Kept
<1>4. u.sumEdits \in Nat /\ u.mdat \in Nat
  BY <1>3 DEF Track
<1>5. d \in Nat
  <2>1. movie.duration \in Int /\ u.sumEdits \in Int
    BY <1>2, <1>4
  <2>2. d \in {movie.duration, u.sumEdits}
    BY <2>1, MaxOfTwo
  <2> HIDE DEF d
  <2> QED BY <1>2, <1>4, <2>2
<1>6. e \in Nat
  BY <1>2, <1>3, TrakEstimateType
<1>7. m \in Nat /\ c \in Nat
  BY <1>2, <1>4
<1>8. movie' = [movie EXCEPT !.mdat = m, !.duration = d, !.est = e, !.ctrl = c]
  BY DEF SetupTrack
<1>9. c \in {0, movie.ctrl}
  OBVIOUS
<1> HIDE DEF m, d, e, c
<1>10. [movie EXCEPT !.mdat = m, !.duration = d, !.est = e, !.ctrl = c] \in Movie
  BY <1>1, <1>5, <1>6, <1>7, ZenonT(60) DEF Movie
<1>11. movie'.nextId = movie.nextId /\ movie'.ctrl = c
  BY <1>1, <1>8 DEF Movie
<1>12. movie'.duration = d /\ movie'.est = e
  BY <1>1, <1>8 DEF Movie
<1> QED BY <1>8, <1>9, <1>10, <1>11, <1>12 DEF d, e

LEMMA OneReplaced ==
    ASSUME NEW S, NEW s \in Seq(S), NEW i \in 1..Len(s), NEW x \in S
    PROVE  /\ [s EXCEPT ![i] = x] \in Seq(S) /\ Len([s EXCEPT ![i] = x]) = Len(s)
           /\ [s EXCEPT ![i] = x][i] = x
OBVIOUS

(* A track with one sample, for an init segment.                            *)
LEMMA InitTrack ==
    ASSUME SetupTyped, InitSegment
    PROVE  /\ Len(tracks) = 1 /\ tracks' \in Seq(Track) /\ Len(tracks') = 1
           /\ tracks'[1].id = tracks[1].id /\ tracks'[1].type = tracks[1].type
           /\ tracks'[1].el = tracks[1].el
<1> DEFINE t == tracks[1]
           d == <<0>>
           c == << [num |-> 1, sdi |-> 1, offset |-> 0, idx |-> 1] >>
           u == [t EXCEPT !.dts = d, !.chunks = c]
<1>1. tracks \in Seq(Track) /\ Len(tracks) = 1
  BY DEF SetupTyped, InitSegment
<1>2. t \in Track
  BY <1>1
<1>3. tracks' = [tracks EXCEPT ![1] = u]
  BY <1>1 DEF InitSegment
<1>7. d \in Seq(Nat) /\ c \in Seq([num : Nat, sdi : Nat, offset : Nat, idx : Nat])
  OBVIOUS
<1> HIDE DEF t, d, c
<1>4. u \in Track
  BY <1>2, <1>7, ZenonT(60) DEF Track
<1>5. u.id = t.id /\ u.type = t.type /\ u.el = t.el
  BY <1>2 DEF Track
<1> HIDE DEF u
<1>6. tracks'[1] = u /\ tracks' \in Seq(Track) /\ Len(tracks') = 1
  <2>1. 1 \in 1..Len(tracks)
    BY <1>1
  <2> QED BY <1>1, <1>3, <1>4, <2>1, OneReplaced
<1> QED BY <1>1, <1>5, <1>6 DEF t

(* The other steps change the estimate only.                                *)
OnlyEstimate ==
    /\ movie' \in Movie /\ tracks' = tracks /\ movie'.nextId = movie.nextId
    /\ movie'.ctrl = movie.ctrl /\ movie'.duration = movie.duration

LEMMA EstimateKept ==
    ASSUME movie \in Movie, NEW e \in Nat, movie' = [movie EXCEPT !.est = e]
    PROVE  /\ movie' \in Movie /\ movie'.nextId = movie.nextId /\ movie'.ctrl = movie.ctrl
           /\ movie'.duration = movie.duration /\ movie'.est = e
<1>1. [movie EXCEPT !.est = e] \in Movie
  BY ZenonT(60) DEF Movie
<1>2. movie'.nextId = movie.nextId /\ movie'.ctrl = movie.ctrl
  BY DEF Movie
<1>3. movie'.duration = movie.duration /\ movie'.est = e
  BY DEF Movie
<1> QED BY <1>1, <1>2, <1>3

LEMMA HdrsMovie == ASSUME SetupTyped, OutputHdrs PROVE OnlyEstimate
<1>1. movie \in Movie /\ tracks' = tracks
  BY DEF SetupTyped, OutputHdrs
<1>2. FtypReturned(movie) \in Nat
  <2>1. movie.brands \in Nat /\ movie.commas \in Nat
    BY <1>1 DEF Movie
  <2> QED BY <2>1 DEF FtypReturned
<1>3. movie' = [movie EXCEPT !.est = FtypReturned(movie)]
  BY DEF OutputHdrs
<1> QED BY <1>1, <1>2, <1>3, EstimateKept DEF OnlyEstimate

PdinOf == Optional(movie.pdin, PdinBox(movie, Rescale(movie.duration, 1000, movie.timescale)))
BlocOf == Optional(movie.bloc > 0, Announced("bloc", movie.bloc, movie.bloc - 8))

LEMMA PdinMovie ==
    ASSUME SetupTyped, WritePdin
    PROVE  OnlyEstimate /\ movie'.est = movie.est + PdinOf.size + movie.bloc
<1>1. movie \in Movie /\ tracks' = tracks
  BY DEF SetupTyped, WritePdin
<1>2. movie.pdin \in BOOLEAN /\ movie.est \in Nat /\ movie.bloc \in Nat
  BY <1>1 DEF Movie
<1>3. PdinOf.size \in Nat
  BY <1>2, PdinSize DEF PdinOf
<1> DEFINE e == movie.est + PdinOf.size + movie.bloc
<1>4. e \in Nat
  BY <1>2, <1>3
<1>5. movie' = [movie EXCEPT !.est = e]
  BY DEF WritePdin, PdinOf
<1> QED BY <1>1, <1>4, <1>5, EstimateKept DEF OnlyEstimate

(* The movie that is written.                                               *)
Written ==
    [movie EXCEPT !.est = EstimateInMoov,
                  !.co64 = @ \/ (~movie.frag /\ EstimateInMoov + 16 + movie.mdat > Max32)]

LEMMA WrittenIs ==
    ASSUME SetupTyped, NEW m, m = Written
    PROVE  /\ m \in Movie /\ m.nextId = movie.nextId /\ m.ctrl = movie.ctrl
           /\ m.duration = movie.duration /\ m.est = EstimateInMoov
<1> DEFINE e == EstimateInMoov
           c == movie.co64 \/ (~movie.frag /\ e + 16 + movie.mdat > Max32)
<1>1. movie \in Movie /\ tracks \in Seq(Track)
  BY DEF SetupTyped
<1>2. e \in Nat
  BY <1>1, LenType, InMoovType
<1>3. c \in BOOLEAN
  OBVIOUS
<1>4. m = [movie EXCEPT !.est = e, !.co64 = c]
  BY DEF Written
<1> HIDE DEF c, e
<1>5. [movie EXCEPT !.est = e, !.co64 = c] \in Movie
  BY <1>1, <1>2, <1>3, ZenonT(60) DEF Movie
<1>6. m.nextId = movie.nextId /\ m.ctrl = movie.ctrl
  BY <1>1, <1>4 DEF Movie
<1>7. m.duration = movie.duration /\ m.est = e
  BY <1>1, <1>4 DEF Movie
<1> QED BY <1>4, <1>5, <1>6, <1>7 DEF e

LEMMA MoovMovie == ASSUME SetupTyped, WriteMoov PROVE OnlyEstimate /\ movie' = Written
<1>1. movie' = Written /\ tracks' = tracks
  BY DEF WriteMoov, Written
<1> QED BY <1>1, WrittenIs DEF OnlyEstimate

LEMMA InitMovie ==
    ASSUME SetupTyped, InitSegment
    PROVE  movie' \in Movie /\ movie'.nextId = movie.nextId /\ movie'.ctrl = movie.ctrl
<1>1. movie \in Movie /\ tracks \in Seq(Track)
  BY DEF SetupTyped
<1>2. FtypReturned(movie) \in Nat
  <2>1. movie.brands \in Nat /\ movie.commas \in Nat
    BY <1>1 DEF Movie
  <2> QED BY <2>1 DEF FtypReturned
<1>3. EstimateInMoov \in Nat
  BY <1>1, LenType, InMoovType
<1> DEFINE e == FtypReturned(movie) + EstimateInMoov
<1>4. e \in Nat
  BY <1>2, <1>3
<1>5. movie' = [movie EXCEPT !.est = e]
  BY DEF InitSegment
<1> QED BY <1>1, <1>4, <1>5, EstimateKept

-----------------------------------------------------------------------------
LEMMA TypedStart == SetupInit => SetupTyped
<1> SUFFICES ASSUME SetupInit PROVE SetupTyped
  OBVIOUS
<1>1. PICK m \in Movies : movie = [m EXCEPT !.duration = 0, !.mdat = 0, !.est = 0,
                                            !.nextId = 1, !.ctrl = 0]
  BY DEF SetupInit
<1>2. m \in Movie
  BY SetupAssumption
<1>3. movie \in Movie
  <2> DEFINE a == [m EXCEPT !.duration = 0, !.mdat = 0]
             b == [a EXCEPT !.est = 0, !.nextId = 1, !.ctrl = 0]
  <2>1. a \in Movie
    BY <1>2, ZenonT(60) DEF Movie
  <2>2. movie = b
    BY <1>1, <1>2 DEF Movie
  <2> HIDE DEF a
  <2>3. b \in Movie
    <3> DEFINE zero == 0
               one == 1
    <3>1. zero \in Nat /\ one \in Nat \ {0}
      OBVIOUS
    <3> HIDE DEF zero, one
    <3>2. [a EXCEPT !.est = zero, !.nextId = one, !.ctrl = zero] \in Movie
      BY <2>1, <3>1, ZenonT(60) DEF Movie
    <3> QED BY <3>2 DEF zero, one
  <2> QED BY <2>2, <2>3
<1>4. tracks = << >> /\ phase = "adding" /\ next = 1 /\ ret = "ok"
  BY DEF SetupInit
<1>5. tracks \in Seq(Track) /\ Len(tracks) = 0
  BY <1>4
<1> QED BY <1>3, <1>4, <1>5, SetupAssumption DEF SetupTyped

LEMMA TypedStays == SetupTyped /\ [SetupNext]_setupVars => SetupTyped'
<1> SUFFICES ASSUME SetupTyped, [SetupNext]_setupVars PROVE SetupTyped'
  OBVIOUS
<1>1. tracks \in Seq(Track) /\ Len(tracks) \in Nat
  BY LenType DEF SetupTyped
<1>2. ASSUME NEW s \in Streams, NEW want \in WantedIds, NEW entry \in SampleEntries,
             AddTrack(s, want, entry)
      PROVE  SetupTyped'
  <2>1. PICK u : u = Added(s, want, entry)
    OBVIOUS
  <2>2. /\ Len(tracks') = Len(tracks) + 1 /\ tracks' \in Seq(Track)
        /\ tracks'[Len(tracks) + 1] = u
        /\ \A i \in 1..Len(tracks) : tracks'[i] = tracks[i]
    BY <1>2, <2>1, TrackAdded
  <2>3. movie' \in Movie
    BY <1>2, MovieAdded
  <2>4. Len(tracks) < MaxStreams /\ Len(tracks) < MaxTracks
    BY <1>2, RoomLeft DEF AddTrack
  <2>5. phase = "adding" /\ phase' = phase /\ next' = next /\ ret' = ret
    BY <1>2 DEF AddTrack
  <2>6. next = 1
    BY <2>5 DEF SetupTyped
  <2>7. u.el = s.el
    BY <2>1, AddedIs
  <2>8. ASSUME NEW i \in 1..Len(tracks'), tracks'[i].el PROVE i > 1 /\ ~tracks'[i - 1].el
    <3>1. CASE i \in 1..Len(tracks)
      <4>1. i > 1 /\ ~tracks[i - 1].el
        BY <2>2, <2>8, <3>1 DEF SetupTyped
      <4>2. i - 1 \in 1..Len(tracks)
        BY <1>1, <3>1, <4>1
      <4> QED BY <2>2, <4>1, <4>2
    <3>2. CASE i = Len(tracks) + 1
      <4>1. s.el
        BY <2>2, <2>7, <2>8, <3>2
      <4>2. tracks # << >> /\ ~tracks[Len(tracks)].el
        BY <1>2, <4>1 DEF AddTrack, Final
      <4>3. Len(tracks) \in 1..Len(tracks) /\ i > 1 /\ i - 1 = Len(tracks)
        BY <1>1, <3>2, <4>2
      <4> QED BY <2>2, <4>2, <4>3
    <3> QED BY <1>1, <2>2, <3>1, <3>2
  <2>9. Len(tracks') <= MaxStreams /\ Len(tracks') <= MaxTracks
    BY <1>1, <2>2, <2>4, SetupAssumption
  <2>10. next' \in 1..(Len(tracks') + 1)
    BY <1>1, <2>2, <2>5, <2>6
  <2> QED BY <2>2, <2>3, <2>5, <2>6, <2>8, <2>9, <2>10 DEF SetupTyped
<1>3. CASE RefuseTrack
  BY <1>3 DEF RefuseTrack, SetupTyped
<1>4. CASE OutputHdrs
  <2>1. movie' \in Movie /\ tracks' = tracks
    BY <1>4, HdrsMovie DEF OnlyEstimate
  <2>2. phase' = "setup" /\ next' = next /\ ret' = ret
    BY <1>4 DEF OutputHdrs
  <2> QED BY <2>1, <2>2 DEF SetupTyped
<1>5. CASE SetupTrack
  <2>1. PICK u : u = SetUp(tracks[next], next)
    OBVIOUS
  <2>2. /\ next \in 1..Len(tracks) /\ Kept(tracks[next], u)
        /\ tracks' \in Seq(Track) /\ Len(tracks') = Len(tracks) /\ tracks'[next] = u
        /\ \A i \in 1..Len(tracks) : i # next => tracks'[i] = tracks[i]
    BY <1>5, <2>1, TrackSetUp
  <2>3. movie' \in Movie
    BY <1>5, <2>1, MovieSetUp
  <2>4. phase' \in {"setup", "undefined"} /\ next' = next + 1 /\ ret' = ret
    BY <1>5 DEF SetupTrack
  <2>8. \A i \in 1..Len(tracks) : tracks'[i].el = tracks[i].el
    BY <2>2 DEF Kept
  <2>9. \A i \in 1..Len(tracks) : i > 1 => i - 1 \in 1..Len(tracks)
    BY <1>1
  <2>5. \A i \in 1..Len(tracks') : tracks'[i].el => i > 1 /\ ~tracks'[i - 1].el
    BY <2>2, <2>8, <2>9 DEF SetupTyped
  <2>6. next' \in 1..(Len(tracks') + 1)
    BY <1>1, <2>2, <2>4
  <2>7. Len(tracks') <= MaxStreams /\ Len(tracks') <= MaxTracks
    BY <2>2 DEF SetupTyped
  <2> QED BY <2>2, <2>3, <2>4, <2>5, <2>6, <2>7 DEF SetupTyped
<1>6. CASE SetupFails
  <2>1. SetupError(tracks[next], next) \in {"buggy", "empty", "read error", "ok"}
    BY DEF SetupError
  <2>2. ret' \in {"ok", "no track", "buggy", "empty", "read error"} /\ phase' = "failed"
    BY <1>6, <2>1 DEF SetupFails
  <2>3. movie' = movie /\ tracks' = tracks /\ next' = next
    BY <1>6 DEF SetupFails
  <2> QED BY <2>2, <2>3 DEF SetupTyped
<1>7. CASE WritePdin
  <2>1. movie' \in Movie /\ tracks' = tracks
    BY <1>7, PdinMovie DEF OnlyEstimate
  <2>2. phase' = "moov" /\ next' = next /\ ret' = ret /\ next = Len(tracks) + 1
    BY <1>7 DEF WritePdin
  <2> QED BY <2>1, <2>2 DEF SetupTyped
<1>8. CASE WriteMoov
  <2>1. movie' \in Movie /\ tracks' = tracks
    BY <1>8, MoovMovie DEF OnlyEstimate
  <2>2. phase = "moov" /\ phase' = "done" /\ next' = next /\ ret' = ret
    BY <1>8 DEF WriteMoov
  <2> QED BY <2>1, <2>2 DEF SetupTyped
<1>9. CASE InitSegment
  <2>1. /\ Len(tracks) = 1 /\ tracks' \in Seq(Track) /\ Len(tracks') = 1
        /\ tracks'[1].el = tracks[1].el
    BY <1>9, InitTrack
  <2>2. movie' \in Movie
    BY <1>9, InitMovie
  <2>3. phase' = "init segment" /\ next' = next /\ ret' = ret
    BY <1>9 DEF InitSegment
  <2>4. \A i \in 1..Len(tracks') : tracks'[i].el => i > 1 /\ ~tracks'[i - 1].el
    <3>1. 1 \in 1..Len(tracks)
      BY <2>1
    <3>2. ~tracks[1].el
      <4>1. tracks[1].el => 1 > 1 /\ ~tracks[1 - 1].el
        BY <3>1 DEF SetupTyped
      <4> QED BY <4>1
    <3>3. \A i \in 1..Len(tracks') : i = 1
      BY <2>1
    <3> QED BY <2>1, <3>2, <3>3
  <2> QED BY <2>1, <2>2, <2>3, <2>4 DEF SetupTyped
<1>10. CASE Finished \/ UNCHANGED setupVars
  BY <1>10 DEF Finished, setupVars, SetupTyped
<1> QED BY <1>2, <1>3, <1>4, <1>5, <1>6, <1>7, <1>8, <1>9, <1>10 DEF SetupNext

(* The types of what setup computes: for any configuration, streams and IDs  *)
(* the user may give, every track keeps the form of one, setup goes through *)
(* the tracks that were added and no more than there is room for, and an    *)
(* enhancement layer follows its base layer (setup_muxer,                   *)
(* mp4_muxer_add_track).                                                    *)
THEOREM SetupTypes == SetupSpec => []SetupTyped
<1> QED BY TypedStart, TypedStays, PTL DEF SetupSpec

-----------------------------------------------------------------------------
(* IDs.  Fewer tracks than MAX_STREAMS leave one of the numbers up to it    *)
(* unused.                                                                  *)
LEMMA FreeId ==
    ASSUME SetupTyped, Len(tracks) < MaxStreams
    PROVE  1..MaxStreams \ Ids # {}
<1> SUFFICES ASSUME 1..MaxStreams \subseteq Ids PROVE FALSE
  OBVIOUS
<1> DEFINE S == 1..MaxStreams
           T == 1..Len(tracks)
           f == [x \in S |-> CHOOSE i \in T : tracks[i].id = x]
<1>1. Len(tracks) \in Nat /\ MaxStreams \in Nat
  BY LenType, SetupAssumption DEF SetupTyped
<1>2. ASSUME NEW x \in S PROVE f[x] \in T /\ tracks[f[x]].id = x
  <2>1. \E i \in T : tracks[i].id = x
    BY DEF Ids
  <2> QED BY <2>1
<1>3. f \in [S -> T]
  BY <1>2
<1>4. IsFiniteSet(S) /\ IsFiniteSet(T) /\ Cardinality(S) = MaxStreams
      /\ Cardinality(T) = Len(tracks)
  <2>1. MaxStreams \in Int /\ Len(tracks) \in Int /\ 1 \in Int /\ MaxStreams >= 1
    BY <1>1, SetupAssumption
  <2>2. IsFiniteSet(1..MaxStreams)
        /\ Cardinality(1..MaxStreams) = IF 1 > MaxStreams THEN 0 ELSE MaxStreams - 1 + 1
    BY <2>1, FS_Interval
  <2>3. IsFiniteSet(1..Len(tracks))
        /\ Cardinality(1..Len(tracks)) = IF 1 > Len(tracks) THEN 0 ELSE Len(tracks) - 1 + 1
    BY <2>1, FS_Interval
  <2> QED BY <1>1, <2>1, <2>2, <2>3
<1> HIDE DEF f, S, T
<1>5. PICK x, y \in S : x # y /\ f[x] = f[y]
  BY <1>3, <1>4, FS_PigeonHole
<1> QED BY <1>2, <1>5

(* The ID of a new track is not used yet.                                   *)
LEMMA NewId ==
    ASSUME SetupTyped, Len(tracks) < MaxStreams, NEW want \in WantedIds
    PROVE  TrackId(want) \notin Ids
<1> DEFINE id == IF want # 0 THEN want ELSE movie.nextId
           free == 1..MaxStreams \ Ids
<1>1. free # {} /\ free \subseteq Nat
  BY FreeId
<1>2. Min(free) \in free
  BY <1>1, MinIs
<1>3. TrackId(want) = IF id \in Ids /\ free # {} THEN Min(free) ELSE id
  BY DEF TrackId
<1>4. Min(free) \notin Ids
  BY <1>2
<1> QED BY <1>1, <1>3, <1>4

IdsApart ==
    /\ \A i, j \in 1..Len(tracks) : tracks[i].id = tracks[j].id => i = j
    /\ \A i \in 1..Len(tracks) : tracks[i].id \in 1..(movie.nextId - 1)
    /\ \/ movie.ctrl = 0
       \/ \E i \in 1..Len(tracks) : tracks[i].id = movie.ctrl /\ tracks[i].type = "vide"

LEMMA IdsStay == SetupTyped /\ IdsApart /\ [SetupNext]_setupVars => IdsApart'
<1> SUFFICES ASSUME SetupTyped, IdsApart, [SetupNext]_setupVars PROVE IdsApart'
  OBVIOUS
<1>1. tracks \in Seq(Track) /\ Len(tracks) \in Nat /\ movie.nextId \in Nat
  BY LenType DEF SetupTyped, Movie
<1>2. ASSUME NEW s \in Streams, NEW want \in WantedIds, NEW entry \in SampleEntries,
             AddTrack(s, want, entry)
      PROVE  IdsApart'
  <2>1. PICK u : u = Added(s, want, entry)
    OBVIOUS
  <2> DEFINE n == Len(tracks)
             id == TrackId(want)
  <2>2. /\ Len(tracks') = n + 1 /\ tracks'[n + 1] = u
        /\ \A i \in 1..n : tracks'[i] = tracks[i]
    BY <1>2, <2>1, TrackAdded
  <2>3. /\ movie' \in Movie /\ movie'.nextId > movie.nextId /\ movie'.nextId > id
        /\ movie'.ctrl = IF s.type = "vide" THEN id ELSE movie.ctrl
    BY <1>2, MovieAdded
  <2>4. u.id = id /\ u.type = s.type
    BY <2>1, AddedIs
  <2>5. id \notin Ids /\ id \in Nat \ {0}
    BY <1>2, RoomLeft, NewId, IdType DEF AddTrack
  <2>6. \A i \in 1..n : tracks[i].id # id
    BY <2>5 DEF Ids
  <2>7. movie'.nextId \in Nat
    BY <2>3 DEF Movie
  <2>8. 1..Len(tracks') = 1..n \cup {n + 1}
    BY <1>1, <2>2
  <2> HIDE DEF n, id
  <2>9. \A i, j \in 1..Len(tracks') : tracks'[i].id = tracks'[j].id => i = j
    BY <2>2, <2>4, <2>6, <2>8 DEF IdsApart, n
  <2>10. \A i \in 1..n : tracks[i].id \in 1..(movie.nextId - 1)
    BY DEF IdsApart, n
  <2>11. \A i \in 1..Len(tracks') : tracks'[i].id \in 1..(movie'.nextId - 1)
    BY <1>1, <2>2, <2>3, <2>4, <2>5, <2>7, <2>8, <2>10
  <2>12. \/ movie'.ctrl = 0
         \/ \E i \in 1..Len(tracks') : tracks'[i].id = movie'.ctrl /\ tracks'[i].type = "vide"
    <3>1. CASE s.type = "vide"
      BY <2>2, <2>3, <2>4, <2>8, <3>1
    <3>2. CASE s.type # "vide"
      BY <2>2, <2>3, <2>8, <3>2 DEF IdsApart, n
    <3> QED BY <3>1, <3>2
  <2> QED BY <2>9, <2>11, <2>12 DEF IdsApart
<1>3. CASE SetupTrack
  <2>1. PICK u : u = SetUp(tracks[next], next)
    OBVIOUS
  <2>2. /\ next \in 1..Len(tracks) /\ Kept(tracks[next], u)
        /\ Len(tracks') = Len(tracks) /\ tracks'[next] = u
        /\ \A i \in 1..Len(tracks) : i # next => tracks'[i] = tracks[i]
    BY <1>3, <2>1, TrackSetUp
  <2>3. movie'.nextId = movie.nextId /\ movie'.ctrl \in {0, movie.ctrl}
    BY <1>3, <2>1, MovieSetUp
  <2>4. \A i \in 1..Len(tracks) :
          tracks'[i].id = tracks[i].id /\ tracks'[i].type = tracks[i].type
    BY <2>2 DEF Kept
  <2> QED BY <2>2, <2>3, <2>4 DEF IdsApart
<1>4. CASE InitSegment
  <2>1. /\ Len(tracks) = 1 /\ Len(tracks') = 1
        /\ tracks'[1].id = tracks[1].id /\ tracks'[1].type = tracks[1].type
    BY <1>4, InitTrack
  <2>2. movie'.nextId = movie.nextId /\ movie'.ctrl = movie.ctrl
    BY <1>4, InitMovie
  <2>3. \A i \in 1..Len(tracks) :
          tracks'[i].id = tracks[i].id /\ tracks'[i].type = tracks[i].type
    <3>1. \A i \in 1..Len(tracks) : i = 1
      BY <2>1
    <3> QED BY <2>1, <3>1
  <2>4. Len(tracks') = Len(tracks)
    BY <2>1
  <2> QED BY <2>2, <2>3, <2>4 DEF IdsApart
<1>5. CASE OutputHdrs \/ WritePdin \/ WriteMoov
  <2>1. OnlyEstimate
    BY <1>5, HdrsMovie, PdinMovie, MoovMovie
  <2> QED BY <2>1 DEF OnlyEstimate, IdsApart
<1>6. CASE RefuseTrack \/ SetupFails \/ Finished \/ UNCHANGED setupVars
  BY <1>6 DEF RefuseTrack, SetupFails, Finished, setupVars, IdsApart
<1> QED BY <1>2, <1>3, <1>4, <1>5, <1>6 DEF SetupNext

(* The IDs in a file are usable: whichever IDs users ask for, no two tracks *)
(* share one, mvhd's next ID is above all, and the track that controls      *)
(* fragments is a video track (mp4_muxer_add_track).                        *)
THEOREM IDsAreUsable == SetupSpec => []TrackIDsUsable
<1>1. SetupInit => IdsApart
  <2> SUFFICES ASSUME SetupInit PROVE IdsApart
    OBVIOUS
  <2>1. tracks = << >> /\ Len(tracks) = 0
    BY DEF SetupInit
  <2>2. PICK m \in Movies : movie = [m EXCEPT !.duration = 0, !.mdat = 0, !.est = 0,
                                              !.nextId = 1, !.ctrl = 0]
    BY DEF SetupInit
  <2>3. movie.ctrl = 0
    BY <2>2, SetupAssumption DEF Movie
  <2> QED BY <2>1, <2>3 DEF IdsApart
<1>2. SetupTyped /\ IdsApart => TrackIDsUsable
  <2> SUFFICES ASSUME SetupTyped, IdsApart PROVE TrackIDsUsable
    OBVIOUS
  <2>1. movie.est \in Nat /\ movie.duration \in Nat
    BY DEF SetupTyped, Movie
  <2>2. next \in 1..(MaxTracks + 1)
    <3>1. Len(tracks) \in Nat
      BY LenType DEF SetupTyped
    <3>2. MaxTracks \in Nat /\ Len(tracks) <= MaxTracks /\ next \in 1..(Len(tracks) + 1)
      <4>1. MaxTracks \in Nat
        BY SetupAssumption
      <4> QED BY <4>1 DEF SetupTyped
    <3> QED BY <3>1, <3>2
  <2> QED BY <2>1, <2>2 DEF TrackIDsUsable, SetupTypeOK, SetupTyped, IdsApart
<1> QED BY <1>1, <1>2, SetupTypes, IdsStay, PTL DEF SetupSpec

-----------------------------------------------------------------------------
(* The presentation.                                                        *)
SyncFits(t) == t.sync # << >> => Final(t.sync) < sampleNum(t)

(* A track, set up, and its base layer.                                     *)
AsBase(t, b) == t.sync = b.sync /\ (t.rpu => KeptTimes(b, t))

Untouched ==
    \A i \in next..Len(tracks) : tracks[i].edits = << >> /\ SyncFits(tracks[i])

Presented ==
    \A i \in 1..(next - 1) :
        /\ FirstOffset(tracks[i]) = StartOfEdits(tracks[i])
        /\ tracks[i].sumEdits <= movie.duration
        /\ tracks[i].el => AsBase(tracks[i], tracks[i - 1])
        /\ (tracks[i].el => tracks[i].rpu) => SyncFits(tracks[i])

Longest ==
    IF next = 1 THEN movie.duration = 0
    ELSE \E i \in 1..(next - 1) : tracks[i].sumEdits = movie.duration

PresentInv ==
    /\ phase \in {"setup", "moov", "done"} => tracks # << >>
    /\ phase # "init segment" => Untouched /\ Presented /\ Longest

LEMMA FinalIn ==
    ASSUME NEW S, NEW s \in Seq(S), s # << >>
    PROVE  Len(s) \in 1..Len(s) /\ Final(s) \in S
<1>1. Len(s) \in 1..Len(s)
  OBVIOUS
<1> QED BY <1>1 DEF Final

LEMMA StreamSyncFits == ASSUME NEW s \in Streams PROVE s.edits = << >> /\ SyncFits(s)
<1>1. IsStream(s)
  BY SetupAssumption
<1>2. s.dts \in Seq(Nat) /\ s.sync \in Seq(Nat)
  BY <1>1 DEF IsStream, Track
<1>3. sampleNum(s) \in Nat
  BY <1>2 DEF sampleNum
<1>4. ASSUME s.sync # << >> PROVE Final(s.sync) < sampleNum(s)
  <2>2. IsIntaken(s)
    BY <1>1, <1>4 DEF IsStream
  <2>3. s.sync \in Seq(0..(sampleNum(s) - 1))
    BY <2>2 DEF IsIntaken
  <2>4. Final(s.sync) \in 0..(sampleNum(s) - 1)
    BY <1>4, <2>3, FinalIn
  <2> QED BY <1>3, <2>4
<1> QED BY <1>1, <1>4 DEF IsStream, SyncFits

(* An enhancement layer with RPU has as many samples as its base layer.     *)
LEMMA SameNumber ==
    ASSUME NEW t, NEW i, SetupError(t, i) = "ok", t.rpu, t.el
    PROVE  sampleNum(t) = sampleNum(tracks[i - 1])
<1> SUFFICES ASSUME sampleNum(t) # sampleNum(tracks[i - 1]) PROVE FALSE
  OBVIOUS
<1>1. CASE t.descs = 0
  BY <1>1 DEF SetupError
<1>2. CASE t.descs # 0
  <2>1. ~(t.descs # 0 /\ sampleNum(t) = 0
          /\ (t.rpu /\ t.el => i > 1 /\ sampleNum(tracks[i - 1]) = 0))
    OBVIOUS
  <2>2. ~(t.rpu => sampleNum(t) = sampleNum(tracks[i - 1]))
    OBVIOUS
  <2>3. SetupError(t, i) = "buggy"
    BY <1>2, <2>1, <2>2 DEF SetupError
  <2> QED BY <2>3
<1> QED BY <1>1, <1>2

LEMMA TrackPresented ==
    ASSUME SetupTyped, PresentInv, SetupTrack, NEW u, u = SetUp(tracks[next], next)
    PROVE  /\ FirstOffset(u) = StartOfEdits(u)
           /\ u.el => AsBase(u, tracks[next - 1])
           /\ (u.el => u.rpu) => SyncFits(u)
<1> DEFINE t == tracks[next]
           b == tracks[next - 1]
<1>1. /\ next \in 1..Len(tracks) /\ Len(tracks) \in Nat /\ t \in Track /\ Kept(t, u)
      /\ t.el => next > 1 /\ b \in Track
  BY TrackSetUp
<1>2. movie \in Movie
  BY DEF SetupTyped
<1>3. Untouched /\ Presented
  BY DEF PresentInv, SetupTrack
<1>4. t.edits = << >> /\ SyncFits(t)
  BY <1>1, <1>3 DEF Untouched
<1>5. /\ u.sync = IF t.el THEN b.sync ELSE t.sync
      /\ t.rpu /\ t.el => KeptTimes(b, u)
      /\ FirstOffset(u) = StartOfEdits(u)
  BY <1>1, <1>2, <1>4, SetUpIs
<1> HIDE DEF t, b
<1>6. u.el = t.el /\ u.rpu = t.rpu /\ sampleNum(u) = sampleNum(t)
  BY <1>1 DEF Kept, sampleNum
<1>7. u.el => AsBase(u, b)
  BY <1>5, <1>6 DEF AsBase
<1>8. ASSUME u.el, u.rpu PROVE SyncFits(u)
  <2>1. next - 1 \in 1..(next - 1) /\ ~b.el
    <3>1. next > 1
      BY <1>1, <1>6, <1>8
    <3>2. ~tracks[next - 1].el
      BY <1>1, <1>6, <1>8 DEF SetupTyped, t
    <3> QED BY <1>1, <3>1, <3>2 DEF b
  <2>2. SyncFits(b)
    BY <1>3, <2>1 DEF Presented, b
  <2>3. sampleNum(t) = sampleNum(b)
    BY <1>6, <1>8, SameNumber DEF SetupTrack, t, b
  <2>4. u.sync = b.sync
    BY <1>5, <1>6, <1>8
  <2> QED BY <1>6, <2>2, <2>3, <2>4 DEF SyncFits
<1>9. ASSUME ~u.el PROVE SyncFits(u)
  BY <1>4, <1>5, <1>6, <1>9 DEF SyncFits
<1> QED BY <1>5, <1>7, <1>8, <1>9 DEF b

LEMMA PresentStays ==
    SetupTyped /\ PresentInv /\ [SetupNext]_setupVars => PresentInv'
<1> SUFFICES ASSUME SetupTyped, PresentInv, [SetupNext]_setupVars PROVE PresentInv'
  OBVIOUS
<1>1. tracks \in Seq(Track) /\ Len(tracks) \in Nat /\ movie.duration \in Nat
  BY LenType DEF SetupTyped, Movie
<1>2. ASSUME NEW s \in Streams, NEW want \in WantedIds, NEW entry \in SampleEntries,
             AddTrack(s, want, entry)
      PROVE  PresentInv'
  <2>1. PICK u : u = Added(s, want, entry)
    OBVIOUS
  <2>2. /\ Len(tracks') = Len(tracks) + 1 /\ tracks'[Len(tracks) + 1] = u
        /\ \A i \in 1..Len(tracks) : tracks'[i] = tracks[i]
    BY <1>2, <2>1, TrackAdded
  <2>3. phase = "adding" /\ phase' = "adding" /\ next' = next
    BY <1>2 DEF AddTrack
  <2>4. next = 1 /\ movie'.duration = 0
    BY <1>2, <2>3, MovieAdded DEF SetupTyped, PresentInv, Longest
  <2>5. u.edits = << >> /\ SyncFits(u)
    BY <2>1, AddedIs, StreamSyncFits DEF SyncFits, sampleNum
  <2>6. Untouched'
    BY <1>1, <2>2, <2>3, <2>4, <2>5 DEF PresentInv, Untouched
  <2> QED BY <2>3, <2>4, <2>6 DEF PresentInv, Presented, Longest
<1>3. CASE SetupTrack
  <2>1. PICK u : u = SetUp(tracks[next], next)
    OBVIOUS
  <2> DEFINE D == movie'.duration
  <2>2. /\ next \in 1..Len(tracks) /\ Kept(tracks[next], u)
        /\ Len(tracks') = Len(tracks) /\ tracks'[next] = u
        /\ \A i \in 1..Len(tracks) : i # next => tracks'[i] = tracks[i]
    BY <1>3, <2>1, TrackSetUp
  <2>3. u.sumEdits \in Nat
    BY <2>2 DEF Kept, Track
  <2>4. D = Max({movie.duration, u.sumEdits})
    BY <1>3, <2>1, MovieSetUp
  <2>5. D \in {movie.duration, u.sumEdits} /\ D >= movie.duration /\ D >= u.sumEdits
    <3>1. movie.duration \in Int /\ u.sumEdits \in Int
      BY <1>1, <2>3
    <3> QED BY <2>4, <3>1, MaxOfTwo
  <2> HIDE DEF D
  <2>6. phase = "setup" /\ next' = next + 1 /\ tracks # << >>
    BY <1>3 DEF SetupTrack, PresentInv
  <2>7. Untouched /\ Presented /\ Longest
    BY <2>6 DEF PresentInv
  <2>8. Untouched'
    BY <1>1, <2>2, <2>6, <2>7 DEF Untouched
  <2>9. ASSUME NEW i \in 1..(next' - 1)
        PROVE  /\ FirstOffset(tracks'[i]) = StartOfEdits(tracks'[i])
               /\ tracks'[i].sumEdits <= D
               /\ tracks'[i].el => AsBase(tracks'[i], tracks'[i - 1])
               /\ (tracks'[i].el => tracks'[i].rpu) => SyncFits(tracks'[i])
    <3>1. CASE i = next
      <4>1. ASSUME u.el PROVE tracks'[next - 1] = tracks[next - 1]
        <5>1. next > 1
          BY <2>2, <4>1 DEF SetupTyped, Kept
        <5> QED BY <1>1, <2>2, <5>1
      <4>2. /\ FirstOffset(u) = StartOfEdits(u)
            /\ u.el => AsBase(u, tracks[next - 1])
            /\ (u.el => u.rpu) => SyncFits(u)
        BY <1>3, <2>1, TrackPresented
      <4> QED BY <2>2, <2>5, <3>1, <4>1, <4>2
    <3>2. CASE i # next
      <4>1. i \in 1..(next - 1) /\ i \in 1..Len(tracks) /\ tracks'[i] = tracks[i]
        BY <1>1, <2>2, <2>6, <3>2
      <4>2. tracks[i].el => i - 1 \in 1..Len(tracks) /\ i - 1 # next
        <5>1. tracks[i].el => i > 1
          BY <4>1 DEF SetupTyped
        <5> QED BY <1>1, <2>2, <4>1, <5>1
      <4>3. tracks[i].el => tracks'[i - 1] = tracks[i - 1]
        BY <2>2, <4>2
      <4>4. tracks[i] \in Track
        BY <1>1, <4>1
      <4>5. tracks[i].sumEdits \in Nat
        BY <4>4 DEF Track
      <4>6. /\ FirstOffset(tracks[i]) = StartOfEdits(tracks[i])
            /\ tracks[i].sumEdits <= movie.duration
            /\ tracks[i].el => AsBase(tracks[i], tracks[i - 1])
            /\ (tracks[i].el => tracks[i].rpu) => SyncFits(tracks[i])
        BY <2>7, <4>1 DEF Presented
      <4>7. tracks[i].sumEdits <= D
        BY <1>1, <2>3, <2>5, <4>5, <4>6
      <4> QED BY <4>1, <4>3, <4>6, <4>7
    <3> QED BY <3>1, <3>2
  <2>10. Presented'
    BY <2>9 DEF Presented, D
  <2>11. \E i \in 1..(next' - 1) : tracks'[i].sumEdits = D
    <3>1. next \in 1..(next' - 1)
      BY <1>1, <2>2, <2>6
    <3>2. CASE D = u.sumEdits
      BY <2>2, <3>1, <3>2
    <3>3. CASE D = movie.duration /\ next = 1
      <4>1. D = u.sumEdits
        BY <2>3, <2>5, <2>7, <3>3 DEF Longest
      <4> QED BY <2>2, <3>1, <4>1
    <3>4. CASE D = movie.duration /\ next # 1
      <4>1. PICK i \in 1..(next - 1) : tracks[i].sumEdits = movie.duration
        BY <2>7, <3>4 DEF Longest
      <4>2. i \in 1..(next' - 1) /\ i \in 1..Len(tracks) /\ i # next
        BY <1>1, <2>2, <2>6, <4>1
      <4> QED BY <2>2, <3>4, <4>1, <4>2
    <3> QED BY <2>5, <3>2, <3>3, <3>4
  <2>12. Longest'
    <3>1. next' # 1
      BY <1>1, <2>2, <2>6
    <3> QED BY <2>11, <3>1 DEF Longest, D
  <2>13. tracks' # << >>
    BY <1>1, <2>2
  <2> QED BY <2>8, <2>10, <2>12, <2>13 DEF PresentInv
<1>4. CASE InitSegment
  BY <1>4 DEF InitSegment, PresentInv
<1>5. CASE OutputHdrs \/ WritePdin \/ WriteMoov
  <2>1. OnlyEstimate
    BY <1>5, HdrsMovie, PdinMovie, MoovMovie
  <2>2. tracks' = tracks /\ movie'.duration = movie.duration
    BY <2>1 DEF OnlyEstimate
  <2>3. next' = next /\ phase # "init segment"
    BY <1>5 DEF OutputHdrs, WritePdin, WriteMoov
  <2>4. tracks # << >>
    BY <1>5 DEF OutputHdrs, WritePdin, WriteMoov, PresentInv
  <2>5. Untouched /\ Presented /\ Longest
    BY <2>3 DEF PresentInv
  <2>6. Untouched'
    BY <2>2, <2>3, <2>5 DEF Untouched
  <2>7. Presented'
    BY <2>2, <2>3, <2>5 DEF Presented
  <2>8. Longest'
    BY <2>2, <2>3, <2>5 DEF Longest
  <2> QED BY <2>2, <2>4, <2>6, <2>7, <2>8 DEF PresentInv
<1>6. CASE RefuseTrack \/ SetupFails \/ Finished \/ UNCHANGED setupVars
  <2>1. movie' = movie /\ tracks' = tracks /\ next' = next
    BY <1>6 DEF RefuseTrack, SetupFails, Finished, setupVars
  <2>2. phase' = phase \/ (phase = "setup" /\ phase' = "failed")
    BY <1>6 DEF RefuseTrack, SetupFails, Finished, setupVars
  <2> QED BY <2>1, <2>2 DEF PresentInv, Untouched, Presented, Longest
<1> QED BY <1>2, <1>3, <1>4, <1>5, <1>6 DEF SetupNext

(* The presentation fits together, for any tracks: each starts with its     *)
(* first sample, the movie lasts as long as the longest, and an enhancement *)
(* layer shares its base layer's sync samples and length (setup_muxer).     *)
THEOREM PresentationHolds == SetupSpec => []PresentationFits
<1>1. SetupInit => PresentInv
  <2> SUFFICES ASSUME SetupInit PROVE PresentInv
    OBVIOUS
  <2>1. tracks = << >> /\ Len(tracks) = 0 /\ next = 1 /\ phase = "adding"
    BY DEF SetupInit
  <2>2. PICK m \in Movies : movie = [m EXCEPT !.duration = 0, !.mdat = 0, !.est = 0,
                                              !.nextId = 1, !.ctrl = 0]
    BY DEF SetupInit
  <2>3. movie.duration = 0
    BY <2>2, SetupAssumption DEF Movie
  <2> QED BY <2>1, <2>3 DEF PresentInv, Untouched, Presented, Longest
<1>2. SetupTyped /\ PresentInv => PresentationFits
  <2> SUFFICES ASSUME SetupTyped, PresentInv, phase = "done" PROVE PresentationFits
    BY DEF PresentationFits
  <2>1. Presented /\ Longest /\ tracks # << >>
    BY DEF PresentInv
  <2>2. tracks \in Seq(Track) /\ Len(tracks) \in Nat /\ Len(tracks) > 0
    <3>1. tracks \in Seq(Track)
      BY DEF SetupTyped
    <3> QED BY <2>1, <3>1, LenType, FinalIn
  <2>3. next = Len(tracks) + 1
    BY DEF SetupTyped
  <2>4. next - 1 = Len(tracks) /\ next # 1
    BY <2>2, <2>3
  <2>5. ASSUME NEW i \in 1..Len(tracks), tracks[i].el
        PROVE  /\ tracks[i].sync = tracks[i - 1].sync
               /\ tracks[i].rpu => tracks[i].duration * tracks[i - 1].timescale
                                   = tracks[i - 1].duration * tracks[i].timescale
    <3>1. AsBase(tracks[i], tracks[i - 1])
      BY <2>1, <2>4, <2>5 DEF Presented
    <3> QED BY <3>1 DEF AsBase, KeptTimes
  <2>6. \A i \in 1..Len(tracks) : /\ FirstOffset(tracks[i]) = StartOfEdits(tracks[i])
                                  /\ tracks[i].sumEdits <= movie.duration
                                  /\ (tracks[i].el => tracks[i].rpu) => SyncFits(tracks[i])
    BY <2>1, <2>4 DEF Presented
  <2>7. \E i \in 1..Len(tracks) : tracks[i].sumEdits = movie.duration
    BY <2>1, <2>4 DEF Longest
  <2> QED BY <2>5, <2>6, <2>7 DEF PresentationFits, SyncFits
<1> QED BY <1>1, <1>2, SetupTypes, PresentStays, PTL DEF SetupSpec

-----------------------------------------------------------------------------
(* Boxes that are as long as their headers say.                             *)
LEMMA TiledRow ==
    ASSUME NEW boxes, \A i \in 1..Len(boxes) : Tiled(boxes[i])
    PROVE  Tiled(Row(boxes))
<1> SUFFICES ASSUME NEW span \in Row(boxes).spans PROVE span[1] = span[2]
  BY DEF Tiled
<1>1. Row(boxes).spans = UNION {boxes[i].spans : i \in 1..Len(boxes)}
  BY DEF Row
<1>2. PICK i \in 1..Len(boxes) : span \in boxes[i].spans
  BY <1>1
<1> QED BY <1>2 DEF Tiled

LEMMA TiledNone == Tiled(Row(<< >>))
BY RowEmpty DEF Tiled

LEMMA TiledRow1 == ASSUME NEW a, Tiled(a) PROVE Tiled(Row(<<a>>))
<1>1. Len(<<a>>) = 1 /\ <<a>>[1] = a
  OBVIOUS
<1> QED BY <1>1, TiledRow

LEMMA TiledRow2 == ASSUME NEW a, NEW b, Tiled(a), Tiled(b) PROVE Tiled(Row(<<a, b>>))
<1> DEFINE s == <<a, b>>
<1>1. Len(s) = 2 /\ s[1] = a /\ s[2] = b
  OBVIOUS
<1> HIDE DEF s
<1>2. \A i \in 1..Len(s) : i = 1 \/ i = 2
  BY <1>1
<1>3. Tiled(Row(s))
  BY <1>1, <1>2, TiledRow
<1> QED BY <1>3 DEF s

LEMMA TiledRow3 ==
    ASSUME NEW a, NEW b, NEW c, Tiled(a), Tiled(b), Tiled(c)
    PROVE  Tiled(Row(<<a, b, c>>))
<1> DEFINE s == <<a, b, c>>
<1>1. Len(s) = 3 /\ s[1] = a /\ s[2] = b /\ s[3] = c
  OBVIOUS
<1> HIDE DEF s
<1>2. \A i \in 1..Len(s) : i = 1 \/ i = 2 \/ i = 3
  BY <1>1
<1>3. Tiled(Row(s))
  BY <1>1, <1>2, TiledRow
<1> QED BY <1>3 DEF s

LEMMA TiledRow5 ==
    ASSUME NEW a, NEW b, NEW c, NEW d, NEW e,
           Tiled(a), Tiled(b), Tiled(c), Tiled(d), Tiled(e)
    PROVE  Tiled(Row(<<a, b, c, d, e>>))
<1> DEFINE s == <<a, b, c, d, e>>
<1>1. Len(s) = 5 /\ s[1] = a /\ s[2] = b /\ s[3] = c /\ s[4] = d /\ s[5] = e
  OBVIOUS
<1> HIDE DEF s
<1>2. \A i \in 1..Len(s) : i = 1 \/ i = 2 \/ i = 3 \/ i = 4 \/ i = 5
  BY <1>1
<1>3. Tiled(Row(s))
  BY <1>1, <1>2, TiledRow
<1> QED BY <1>3 DEF s

LEMMA TiledRow6 ==
    ASSUME NEW a, NEW b, NEW c, NEW d, NEW e, NEW f,
           Tiled(a), Tiled(b), Tiled(c), Tiled(d), Tiled(e), Tiled(f)
    PROVE  Tiled(Row(<<a, b, c, d, e, f>>))
<1> DEFINE s == <<a, b, c, d, e, f>>
<1>1. Len(s) = 6 /\ s[1] = a /\ s[2] = b /\ s[3] = c /\ s[4] = d /\ s[5] = e /\ s[6] = f
  OBVIOUS
<1> HIDE DEF s
<1>2. \A i \in 1..Len(s) : i = 1 \/ i = 2 \/ i = 3 \/ i = 4 \/ i = 5 \/ i = 6
  BY <1>1
<1>3. Tiled(Row(s))
  BY <1>1, <1>2, TiledRow
<1> QED BY <1>3 DEF s

LEMMA TiledRow8 ==
    ASSUME NEW a, NEW b, NEW c, NEW d, NEW e, NEW f, NEW g, NEW h,
           Tiled(a), Tiled(b), Tiled(c), Tiled(d), Tiled(e), Tiled(f), Tiled(g), Tiled(h)
    PROVE  Tiled(Row(<<a, b, c, d, e, f, g, h>>))
<1> DEFINE s == <<a, b, c, d, e, f, g, h>>
<1>1. Len(s) = 8 /\ s[1] = a /\ s[2] = b /\ s[3] = c /\ s[4] = d
      /\ s[5] = e /\ s[6] = f /\ s[7] = g /\ s[8] = h
  OBVIOUS
<1> HIDE DEF s
<1>2. \A i \in 1..Len(s) :
        i = 1 \/ i = 2 \/ i = 3 \/ i = 4 \/ i = 5 \/ i = 6 \/ i = 7 \/ i = 8
  BY <1>1
<1>3. Tiled(Row(s))
  BY <1>1, <1>2, TiledRow
<1> QED BY <1>3 DEF s

LEMMA TiledMeasured ==
    ASSUME NEW type, NEW body, NEW kids, Tiled(Row(kids))
    PROVE  Tiled(Measured(type, body, kids))
BY DEF Measured, Tiled

LEMMA TiledAnnounced ==
    ASSUME NEW type, NEW size, NEW body, size = 8 + body
    PROVE  Tiled(Announced(type, size, body))
BY DEF Announced, Tiled

LEMMA TiledOptional ==
    ASSUME NEW c, NEW box, c => Tiled(box)
    PROVE  Tiled(Optional(c, box))
BY TiledNone DEF Optional

LEMMA TiledDsi == ASSUME NEW t \in Track PROVE Tiled(Dsi(t))
<1>1. t.dsi \in Nat /\ t.dvDsi \in Nat /\ t.elDsi \in Nat
  BY DEF Track
<1>2. Tiled(Announced("dsi", t.dsi + 8, t.dsi))
  BY <1>1, TiledAnnounced
<1>3. Tiled(Announced("dvcC", t.dvDsi + 8, t.dvDsi))
  BY <1>1, TiledAnnounced
<1>4. Tiled(Announced("elcE", t.elDsi + 8, t.elDsi))
  BY <1>1, TiledAnnounced
<1> QED BY <1>2, <1>3, <1>4, TiledOptional, TiledRow3 DEF Dsi

LEMMA TiledExtension == ASSUME NEW t \in Track PROVE Tiled(Extension(t))
<1>1. Tiled(Esds(t))
  BY TiledNone, TiledMeasured DEF Esds
<1> QED BY <1>1, TiledDsi, TiledOptional DEF Extension

LEMMA TiledEntry == ASSUME NEW t \in Track PROVE Tiled(StsdEntry(t))
<1>1. Tiled(VideoEntry(t))
  <2>1. Tiled(Pasp(t))
    BY TiledNone, TiledMeasured DEF Pasp
  <2> QED BY <2>1, TiledExtension, TiledOptional, TiledRow2, TiledMeasured DEF VideoEntry
<1>2. Tiled(AudioEntry(t))
  BY TiledExtension, TiledRow1, TiledMeasured DEF AudioEntry
<1>3. Tiled(MetadataEntry(t)) /\ Tiled(SubtEntry(t))
  BY TiledNone, TiledMeasured DEF MetadataEntry, SubtEntry
<1>4. Tiled(TextEntry(t))
  <2>1. Tiled(Ftab(t))
    BY TiledNone, TiledMeasured DEF Ftab
  <2> QED BY <2>1, TiledRow1, TiledMeasured DEF TextEntry
<1>5. Tiled(DataEntry(t))
  BY TiledDsi, TiledOptional, TiledRow1, TiledMeasured DEF DataEntry
<1>6. Tiled(RtpEntry(t))
  <2>1. Tiled(Measured("tims", 4, << >>))
    BY TiledNone, TiledMeasured
  <2> QED BY <2>1, TiledRow1, TiledMeasured DEF RtpEntry
<1>7. t.type \in {"vide", "soun", "meta", "text", "data", "hint", "subt"}
  BY DEF Track
<1>8. CASE t.type \in {"vide", "soun", "meta"}
  BY <1>1, <1>2, <1>3, <1>8 DEF StsdEntry
<1>9. CASE t.type \in {"text", "data", "hint", "subt"}
  BY <1>3, <1>4, <1>5, <1>6, <1>9 DEF StsdEntry
<1> QED BY <1>7, <1>8, <1>9

LEMMA TiledStbl == ASSUME NEW m, NEW t \in Track PROVE Tiled(StblBox(m, t))
<1>1. Tiled(StsdBox(t))
  <2> DEFINE k == [i \in 1..t.descs |-> StsdEntry(t)]
  <2>1. t.descs \in Nat
    BY DEF Track
  <2>2. Len(k) = t.descs /\ \A i \in 1..Len(k) : k[i] = StsdEntry(t)
    BY <2>1
  <2> HIDE DEF k
  <2>3. Tiled(Row(k))
    BY <2>2, TiledEntry, TiledRow
  <2>4. StsdBox(t) = Measured("stsd", FullHeader + 4, k)
    BY DEF StsdBox, k
  <2> QED BY <2>3, <2>4, TiledMeasured
<1>2. Tiled(SttsBox(m, t)) /\ Tiled(StssBox(m, t)) /\ Tiled(StscBox(m, t))
  BY TiledNone, TiledMeasured DEF SttsBox, StssBox, StscBox
<1>3. Tiled(StszBox(m, t)) /\ Tiled(StcoBox(m, t))
  BY TiledNone, TiledMeasured DEF StszBox, StcoBox
<1>4. Tiled(CttsBox(t))
  <2> DEFINE n == Len(Ctts(t))
  <2>1. t.cts \in Seq([count : Nat, value : Int])
    BY DEF Track
  <2>2. Ctts(t) \in Seq([count : Nat, value : Int])
    BY <2>1 DEF Ctts
  <2>3. n \in Nat
    BY <2>2, LenType
  <2> HIDE DEF n
  <2>4. CttsBox(t) = Announced("ctts", 16 + 8 * n, 4 + 4 + 8 * n)
    BY DEF CttsBox, FullHeader, n
  <2>5. 16 + 8 * n = 8 + (4 + 4 + 8 * n)
    BY <2>3
  <2> QED BY <2>4, <2>5, TiledAnnounced
<1>5. Tiled(SbgpBox(t)) /\ Tiled(SgpdBox)
  BY TiledNone, TiledMeasured DEF SbgpBox, SgpdBox
<1>6. Tiled(Optional(t.preRoll, Row(<< SbgpBox(t), SgpdBox >>)))
  BY <1>5, TiledRow2, TiledOptional
<1>7. Tiled(Optional(HasCtts(m, t), CttsBox(t))) /\ Tiled(Optional(Stss(t) # << >>, StssBox(m, t)))
  BY <1>2, <1>4, TiledOptional
<1> DEFINE r == Row(<< StsdBox(t), SttsBox(m, t),
                       Optional(HasCtts(m, t), CttsBox(t)),
                       Optional(Stss(t) # << >>, StssBox(m, t)),
                       StscBox(m, t), StszBox(m, t), StcoBox(m, t),
                       Optional(t.preRoll, Row(<< SbgpBox(t), SgpdBox >>)) >>)
<1>8. Tiled(r)
  BY <1>1, <1>2, <1>3, <1>6, <1>7, TiledRow8
<1>9. StblBox(m, t) = Measured("stbl", 0, <<Optional(t.chunks # << >>, r)>>)
  BY DEF StblBox
<1> HIDE DEF r
<1> QED BY <1>8, <1>9, TiledOptional, TiledRow1, TiledMeasured

LEMMA TiledMdia == ASSUME NEW m, NEW t \in Track PROVE Tiled(MdiaBox(m, t))
<1>1. Tiled(MdhdBox(m, t))
  BY DEF MdhdBox, FullHeader, Announced, Tiled
<1>2. Tiled(HdlrBox(t))
  BY TiledNone, TiledMeasured DEF HdlrBox
<1>3. Tiled(MediaHeader(t))
  <2>1. Tiled(Measured("sthd", FullHeader, << >>))
    BY TiledNone, TiledMeasured
  <2>2. /\ Tiled(Announced("vmhd", 20, FullHeader + 2 + 6))
        /\ Tiled(Announced("smhd", 16, FullHeader + 2 + 2))
        /\ Tiled(Announced("hmhd", 28, FullHeader + 2 + 2 + 4 + 4 + 4))
        /\ Tiled(Announced("nmhd", 12, FullHeader))
    BY DEF FullHeader, Announced, Tiled
  <2>3. CASE t.type \in {"vide", "soun", "subt", "hint"}
    BY <2>1, <2>2, <2>3 DEF MediaHeader
  <2>4. CASE ~(t.type \in {"vide", "soun", "subt", "hint"})
    BY <2>2, <2>4 DEF MediaHeader
  <2> QED BY <2>3, <2>4
<1>4. Tiled(DinfBox)
  <2>1. Tiled(DrefBox)
    BY TiledAnnounced DEF DrefBox, FullHeader
  <2> QED BY <2>1, TiledRow1, TiledMeasured DEF DinfBox
<1>5. Tiled(MinfBox(m, t))
  BY <1>3, <1>4, TiledStbl, TiledRow3, TiledMeasured DEF MinfBox
<1> QED BY <1>1, <1>2, <1>5, TiledRow3, TiledMeasured DEF MdiaBox

LEMMA TiledPrivate ==
    ASSUME NEW m \in Movie, NEW parent, NEW id
    PROVE  Tiled(Private(m, parent, id))
<1> DEFINE k == [i \in 1..Len(m.atoms) |->
                   LET a == m.atoms[i]
                   IN  Optional(a.parent = parent /\ a.id = id, Announced("priv", a.size, a.size - 8))]
           Atom == [parent : {"moov", "trak"}, id : Nat, size : Nat]
<1>1. m.atoms \in Seq(Atom)
  BY DEF Movie
<1>2. Len(m.atoms) \in Nat /\ \A i \in 1..Len(m.atoms) : m.atoms[i].size \in Int
  <2>1. \A i \in 1..Len(m.atoms) : m.atoms[i] \in Atom
    <3> HIDE DEF Atom
    <3> QED BY <1>1
  <2>2. \A i \in 1..Len(m.atoms) : m.atoms[i].size \in Int
    BY <2>1
  <2> QED BY <1>1, <2>2, LenType
<1>3. ASSUME NEW i \in 1..Len(m.atoms) PROVE Tiled(k[i])
  <2> DEFINE n == m.atoms[i].size
             c == m.atoms[i].parent = parent /\ m.atoms[i].id = id
  <2>1. n \in Int
    BY <1>2
  <2>2. k[i] = Optional(c, Announced("priv", n, n - 8))
    OBVIOUS
  <2> HIDE DEF n, c, k
  <2>3. n = 8 + (n - 8)
    BY <2>1
  <2>4. Tiled(Announced("priv", n, n - 8))
    BY <2>3, TiledAnnounced
  <2> QED BY <2>2, <2>4, TiledOptional
<1>4. Len(k) = Len(m.atoms)
  BY <1>2
<1>5. Private(m, parent, id) = Row(k)
  BY DEF Private
<1> HIDE DEF k
<1> QED BY <1>3, <1>4, <1>5, TiledRow

LEMMA TiledTrak == ASSUME NEW m \in Movie, NEW t \in Track PROVE Tiled(TrakBox(m, t))
<1>1. Tiled(TkhdBox(m, t))
  BY TiledAnnounced DEF TkhdBox, FullHeader
<1>2. Tiled(TrefBox(t))
  <2>1. Tiled(Measured("hint", 4, << >>)) /\ Tiled(Measured("vdep", 4, << >>))
    BY TiledNone, TiledMeasured
  <2> QED BY <2>1, TiledOptional, TiledRow2, TiledMeasured DEF TrefBox
<1>3. Tiled(UdtaTrackBox(t))
  <2>1. Tiled(Measured("sdp ", t.sdp, << >>))
    BY TiledNone, TiledMeasured
  <2>2. Tiled(Measured("hnti", 0, << Measured("sdp ", t.sdp, << >>) >>))
    BY <2>1, TiledRow1, TiledMeasured
  <2> QED BY <2>2, TiledOptional, TiledRow1, TiledMeasured DEF UdtaTrackBox
<1>4. Tiled(EdtsBox(t))
  <2>1. Tiled(ElstBox(t))
    BY TiledNone, TiledMeasured DEF ElstBox
  <2> QED BY <2>1, TiledRow1, TiledMeasured DEF EdtsBox
<1>5. Tiled(Row(<< TrefBox(t), UdtaTrackBox(t) >>))
  BY <1>2, <1>3, TiledRow2
<1>6. /\ Tiled(Optional(t.type = "hint", Row(<< TrefBox(t), UdtaTrackBox(t) >>)))
      /\ Tiled(Optional(RefersToBase(t), TrefBox(t)))
      /\ Tiled(Optional(t.edits # << >>, EdtsBox(t)))
  BY <1>2, <1>4, <1>5, TiledOptional
<1> QED BY <1>1, <1>6, TiledMdia, TiledPrivate, TiledRow6, TiledMeasured DEF TrakBox

LEMMA TiledMeta == ASSUME NEW m \in Movie PROVE Tiled(MetaBox(m.meta))
<1> DEFINE x == m.meta
<1>1. x \in [xml : Nat, name : Nat, items : Seq(Nat)]
  BY DEF Movie
<1> HIDE DEF x
<1>2. x.xml \in Nat
  BY <1>1
<1>3. Tiled(Measured("hdlr", FullHeader + 20 + x.name + 1, << >>))
  BY TiledNone, TiledMeasured
<1>4. Tiled(Announced("xml ", 13 + x.xml, FullHeader + x.xml + 1))
  <2> DEFINE n == x.xml
  <2>1. n \in Nat
    BY <1>2
  <2> HIDE DEF n
  <2>2. 13 + n = 8 + (4 + n + 1)
    BY <2>1
  <2>3. Tiled(Announced("xml ", 13 + n, 4 + n + 1))
    BY <2>2, TiledAnnounced
  <2> QED BY <2>3 DEF FullHeader, n
<1>5. Tiled(IlocBox(x.items)) /\ Tiled(IdatBox(x.items))
  BY TiledNone, TiledMeasured DEF IlocBox, IdatBox
<1>6. Tiled(Optional(x.items # << >>, Row(<< IlocBox(x.items), IdatBox(x.items) >>)))
  BY <1>5, TiledRow2, TiledOptional
<1>7. Tiled(MetaBox(x))
  BY <1>3, <1>4, <1>6, TiledRow3, TiledMeasured DEF MetaBox
<1> QED BY <1>7 DEF x

LEMMA TiledMoov ==
    ASSUME NEW m \in Movie, NEW ts \in Seq(Track) PROVE Tiled(MoovBox(m, ts))
<1>1. /\ m.ainf \in Nat /\ m.free \in Nat
  BY DEF Movie
<1>2. Len(ts) \in Nat /\ Filled(ts) \in Nat
  BY LenType, FilledType
<1>3. Tiled(MvhdBox(m))
  BY DEF MvhdBox, FullHeader, Announced, Tiled
<1>4. Tiled(Announced("ainf", m.ainf, m.ainf - 8))
  BY <1>1, TiledAnnounced
<1>5. Tiled(IodsBox(ts))
  <2> DEFINE n == Filled(ts)
  <2>1. n \in Nat
    BY <1>2
  <2>2. IodsBox(ts) = Announced("iods", 21 + 6 * n, 4 + 2 + 2 + 5 + 6 * n)
    BY DEF IodsBox, FullHeader
  <2> HIDE DEF n
  <2>3. 21 + 6 * n = 8 + (4 + 2 + 2 + 5 + 6 * n)
    BY <2>1
  <2> QED BY <2>2, <2>3, TiledAnnounced
<1>6. Tiled(Traks(m, ts))
  <2> DEFINE k == [i \in 1..Len(ts) |-> Optional(sampleNum(ts[i]) > 0, TrakBox(m, ts[i]))]
  <2>1. ASSUME NEW i \in 1..Len(ts) PROVE Tiled(k[i])
    <3>1. ts[i] \in Track
      OBVIOUS
    <3>2. Tiled(Optional(sampleNum(ts[i]) > 0, TrakBox(m, ts[i])))
      BY <3>1, TiledTrak, TiledOptional
    <3> QED BY <3>2
  <2>2. Len(k) = Len(ts)
    BY <1>2
  <2>3. Traks(m, ts) = Row(k)
    BY DEF Traks
  <2> HIDE DEF k
  <2> QED BY <2>1, <2>2, <2>3, TiledRow
<1>7. Tiled(UdtaBox(m))
  <2> DEFINE k == [i \in 1..Len(m.udta) |-> Announced("user", m.udta[i], m.udta[i] - 8)]
  <2>1. m.udta \in Seq(Nat)
    BY DEF Movie
  <2>2. ASSUME NEW i \in 1..Len(m.udta) PROVE Tiled(k[i])
    <3>1. m.udta[i] \in Nat
      BY <2>1
    <3>2. m.udta[i] = 8 + (m.udta[i] - 8)
      BY <3>1
    <3> QED BY <3>2, TiledAnnounced
  <2>3. Len(k) = Len(m.udta)
    BY <2>1, LenType
  <2>4. UdtaBox(m) = Measured("udta", 0, k)
    BY DEF UdtaBox
  <2> HIDE DEF k
  <2> QED BY <2>2, <2>3, <2>4, TiledRow, TiledMeasured
<1>8. Tiled(MvexBox(m, ts))
  <2> DEFINE k == [i \in 1..Filled(ts) |-> TrexBox]
  <2>1. Tiled(MehdBox(m)) /\ Tiled(TrexBox)
    BY DEF MehdBox, TrexBox, FullHeader, Announced, Tiled
  <2>2. Len(k) = Filled(ts) /\ \A i \in 1..Len(k) : k[i] = TrexBox
    BY <1>2
  <2> HIDE DEF k
  <2>3. Tiled(Row(k))
    BY <2>1, <2>2, TiledRow
  <2>4. MvexBox(m, ts) = Measured("mvex", 0, <<MehdBox(m), Row(k)>>)
    BY DEF MvexBox, k
  <2> QED BY <2>1, <2>3, <2>4, TiledRow2, TiledMeasured
<1>9. Tiled(Announced("free", 8 + m.free, m.free))
  BY <1>1, TiledAnnounced
<1> DEFINE r == Row(<< MvhdBox(m),
                  Optional(m.ainf > 0, Announced("ainf", m.ainf, m.ainf - 8)),
                  Optional(m.iods /\ Filled(ts) > 0, IodsBox(ts)),
                  Optional(m.meta.xml > 0, MetaBox(m.meta)),
                  Traks(m, ts) >>)
<1>10. Tiled(r)
  BY <1>3, <1>4, <1>5, <1>6, TiledMeta, TiledOptional, TiledRow5
<1>11. MoovBox(m, ts) =
         Measured("moov", 0, << Optional(ts # << >>, r), Private(m, "moov", 0),
                                Optional(m.udta # << >>, UdtaBox(m)),
                                Optional(m.frag, MvexBox(m, ts)),
                                Optional(m.free > 0, Announced("free", 8 + m.free, m.free)) >>)
  BY DEF MoovBox
<1> HIDE DEF r
<1>12. /\ Tiled(Optional(ts # << >>, r)) /\ Tiled(Private(m, "moov", 0))
       /\ Tiled(Optional(m.udta # << >>, UdtaBox(m)))
       /\ Tiled(Optional(m.frag, MvexBox(m, ts)))
       /\ Tiled(Optional(m.free > 0, Announced("free", 8 + m.free, m.free)))
  BY <1>7, <1>8, <1>9, <1>10, TiledPrivate, TiledOptional
<1> QED BY <1>11, <1>12, TiledRow5, TiledMeasured

-----------------------------------------------------------------------------
(* What the muxer is configured with stays.                                 *)
SameSettings(m, n) ==
    /\ n.brands = m.brands /\ n.commas = m.commas /\ n.bloc = m.bloc /\ n.pdin = m.pdin
    /\ n.timescale = m.timescale /\ n.frag = m.frag /\ n.ainf = m.ainf /\ n.iods = m.iods
    /\ n.modTime = m.modTime

LEMMA SettingsOfSetUp ==
    ASSUME SetupTyped, SetupTrack PROVE SameSettings(movie, movie')
<1>1. PICK d, m, e, c :
        movie' = [movie EXCEPT !.mdat = m, !.duration = d, !.est = e, !.ctrl = c]
  BY DEF SetupTrack
<1>2. movie \in Movie
  BY DEF SetupTyped
<1>3. movie'.brands = movie.brands /\ movie'.commas = movie.commas /\ movie'.bloc = movie.bloc
  BY <1>1, <1>2 DEF Movie
<1>4. movie'.pdin = movie.pdin /\ movie'.timescale = movie.timescale
  BY <1>1, <1>2 DEF Movie
<1>5. movie'.frag = movie.frag /\ movie'.ainf = movie.ainf
  BY <1>1, <1>2 DEF Movie
<1>6. movie'.iods = movie.iods /\ movie'.modTime = movie.modTime
  BY <1>1, <1>2 DEF Movie
<1> QED BY <1>3, <1>4, <1>5, <1>6 DEF SameSettings

LEMMA SettingsOfEstimate ==
    ASSUME movie \in Movie, NEW e, NEW n, n = [movie EXCEPT !.est = e]
    PROVE  SameSettings(movie, n) /\ n.mdat = movie.mdat /\ n.duration = movie.duration
<1>3. n.brands = movie.brands /\ n.commas = movie.commas /\ n.bloc = movie.bloc
  BY DEF Movie
<1>4. n.pdin = movie.pdin /\ n.timescale = movie.timescale
  BY DEF Movie
<1>5. n.frag = movie.frag /\ n.ainf = movie.ainf
  BY DEF Movie
<1>6. n.iods = movie.iods /\ n.modTime = movie.modTime
  BY DEF Movie
<1>7. n.mdat = movie.mdat /\ n.duration = movie.duration
  BY DEF Movie
<1> QED BY <1>3, <1>4, <1>5, <1>6, <1>7 DEF SameSettings

LEMMA SettingsOfWritten ==
    ASSUME movie \in Movie, NEW n, n = Written
    PROVE  SameSettings(movie, n) /\ n.mdat = movie.mdat /\ n.duration = movie.duration
<1>1. PICK e, c : n = [movie EXCEPT !.est = e, !.co64 = c]
  BY DEF Written
<1>3. n.brands = movie.brands /\ n.commas = movie.commas /\ n.bloc = movie.bloc
  BY <1>1 DEF Movie
<1>4. n.pdin = movie.pdin /\ n.timescale = movie.timescale
  BY <1>1 DEF Movie
<1>5. n.frag = movie.frag /\ n.ainf = movie.ainf
  BY <1>1 DEF Movie
<1>6. n.iods = movie.iods /\ n.modTime = movie.modTime
  BY <1>1 DEF Movie
<1>7. n.mdat = movie.mdat /\ n.duration = movie.duration
  BY <1>1 DEF Movie
<1> QED BY <1>3, <1>4, <1>5, <1>6, <1>7 DEF SameSettings

(* The boxes there are in each phase.                                       *)
OutIs ==
    /\ phase = "adding" => out = << >>
    /\ phase \in {"setup", "failed", "undefined"} => out = << FtypBox(movie) >>
    /\ phase = "moov" => out = << FtypBox(movie), PdinOf, BlocOf >>
    /\ phase = "done" => out = << FtypBox(movie), PdinOf, BlocOf, MoovBox(movie, tracks) >>
    /\ phase = "init segment" => \E m \in Movie, f \in Movie : out = << FtypBox(f), MoovBox(m, tracks) >>

LEMMA SameOut ==
    ASSUME SameSettings(movie, movie'), movie'.mdat = movie.mdat,
           movie'.duration = movie.duration
    PROVE  FtypBox(movie') = FtypBox(movie) /\ PdinOf' = PdinOf /\ BlocOf' = BlocOf
BY DEF SameSettings, FtypBox, PdinOf, BlocOf, PdinBox, PdinBaserate

LEMMA AppendTo ==
    ASSUME NEW S, NEW t \in Seq(S), NEW x \in S, NEW u \in Seq(S),
           Len(u) = Len(t) + 1, u[Len(u)] = x, \A i \in 1..Len(t) : u[i] = t[i]
    PROVE  Append(t, x) = u
<1>1. Append(t, x) \in Seq(S) /\ Len(Append(t, x)) = Len(t) + 1
      /\ \A i \in 1..Len(t) : Append(t, x)[i] = t[i]
      /\ Append(t, x)[Len(t) + 1] = x
  BY AppendProperties
<1>2. Len(t) \in Nat
  BY LenProperties
<1>3. \A i \in 1..(Len(t) + 1) : Append(t, x)[i] = u[i]
  BY <1>1, <1>2
<1> QED BY <1>1, <1>2, <1>3, SeqEqual

LEMMA TwoMore == ASSUME NEW a, NEW b, NEW c PROVE Append(Append(<< a >>, b), c) = << a, b, c >>
<1> DEFINE S == {a, b, c}
           t == << a >>
           u == << a, b >>
           v == << a, b, c >>
<1>1. t \in Seq(S) /\ u \in Seq(S) /\ v \in Seq(S) /\ b \in S /\ c \in S
  OBVIOUS
<1>2. Len(t) = 1 /\ Len(u) = 2 /\ Len(v) = 3
  OBVIOUS
<1>3. t[1] = a /\ u[1] = a /\ u[2] = b /\ v[1] = a /\ v[2] = b /\ v[3] = c
  OBVIOUS
<1> HIDE DEF S, t, u, v
<1>4. Append(t, b) = u
  <2>1. Len(u) = Len(t) + 1 /\ u[Len(u)] = b
    BY <1>2, <1>3
  <2>2. \A i \in 1..Len(t) : u[i] = t[i]
    BY <1>2, <1>3
  <2> QED BY <1>1, <2>1, <2>2, AppendTo
<1>5. Append(u, c) = v
  <2>1. Len(v) = Len(u) + 1 /\ v[Len(v)] = c
    BY <1>2, <1>3
  <2>2. \A i \in 1..Len(u) : v[i] = u[i]
    BY <1>2, <1>3
  <2> QED BY <1>1, <2>1, <2>2, AppendTo
<1> QED BY <1>4, <1>5 DEF t, v

LEMMA OneMore == ASSUME NEW a, NEW b, NEW c, NEW d PROVE Append(<< a, b, c >>, d) = << a, b, c, d >>
<1> DEFINE S == {a, b, c, d}
           t == << a, b, c >>
           u == << a, b, c, d >>
<1>1. t \in Seq(S) /\ u \in Seq(S) /\ d \in S
  OBVIOUS
<1>2. Len(t) = 3 /\ Len(u) = 4
  OBVIOUS
<1>3. u[4] = d /\ u[1] = t[1] /\ u[2] = t[2] /\ u[3] = t[3]
  OBVIOUS
<1> HIDE DEF S, t, u
<1>4. Len(u) = Len(t) + 1 /\ u[Len(u)] = d
  BY <1>2, <1>3
<1>5. \A i \in 1..Len(t) : u[i] = t[i]
  BY <1>2, <1>3
<1>6. Append(t, d) = u
  BY <1>1, <1>4, <1>5, AppendTo
<1> QED BY <1>6 DEF t, u

LEMMA OutStays == SetupTyped /\ OutIs /\ [SetupNext]_setupVars => OutIs'
<1> SUFFICES ASSUME SetupTyped, OutIs, [SetupNext]_setupVars PROVE OutIs'
  OBVIOUS
<1>1. movie \in Movie
  BY DEF SetupTyped
<1>2. ASSUME NEW s \in Streams, NEW want \in WantedIds, NEW entry \in SampleEntries,
             AddTrack(s, want, entry)
      PROVE  OutIs'
  BY <1>2 DEF AddTrack, OutIs
<1>3. CASE OutputHdrs
  <2>1. movie' = [movie EXCEPT !.est = FtypReturned(movie)]
    BY <1>3 DEF OutputHdrs
  <2>2. SameSettings(movie, movie')
    BY <1>1, <2>1, SettingsOfEstimate
  <2>3. FtypBox(movie') = FtypBox(movie)
    BY <2>2 DEF SameSettings, FtypBox
  <2> QED BY <1>3, <2>3 DEF OutputHdrs, OutIs
<1>4. CASE SetupTrack
  <2>1. SameSettings(movie, movie')
    BY <1>4, SettingsOfSetUp
  <2>2. FtypBox(movie') = FtypBox(movie)
    BY <2>1 DEF SameSettings, FtypBox
  <2>3. phase = "setup" /\ phase' \in {"setup", "undefined"} /\ out' = out
    BY <1>4 DEF SetupTrack
  <2> QED BY <2>2, <2>3 DEF OutIs
<1>5. CASE WritePdin
  <2>1. PICK e : movie' = [movie EXCEPT !.est = e]
    BY <1>5 DEF WritePdin
  <2>2. FtypBox(movie') = FtypBox(movie) /\ PdinOf' = PdinOf /\ BlocOf' = BlocOf
    BY <1>1, <2>1, SettingsOfEstimate, SameOut
  <2>3. out = << FtypBox(movie) >> /\ phase' = "moov"
    BY <1>5 DEF WritePdin, OutIs
  <2>4. out' = Append(Append(out, PdinOf), BlocOf)
    BY <1>5 DEF WritePdin, PdinOf, BlocOf
  <2>5. Append(Append(<< FtypBox(movie) >>, PdinOf), BlocOf) = << FtypBox(movie), PdinOf, BlocOf >>
    BY TwoMore
  <2>6. out' = << FtypBox(movie), PdinOf, BlocOf >>
    BY ONLY <2>3, <2>4, <2>5, Zenon
  <2> QED BY <2>2, <2>3, <2>6 DEF OutIs
<1>6. CASE WriteMoov
  <2>1. movie' = Written /\ tracks' = tracks /\ phase = "moov" /\ phase' = "done"
        /\ out' = Append(out, MoovBox(movie', tracks))
    BY <1>6 DEF WriteMoov, Written
  <2>2. FtypBox(movie') = FtypBox(movie) /\ PdinOf' = PdinOf /\ BlocOf' = BlocOf
    BY <1>1, <2>1, SettingsOfWritten, SameOut
  <2>3. out = << FtypBox(movie), PdinOf, BlocOf >>
    BY <2>1 DEF OutIs
  <2>4. Append(<< FtypBox(movie), PdinOf, BlocOf >>, MoovBox(movie', tracks))
        = << FtypBox(movie), PdinOf, BlocOf, MoovBox(movie', tracks) >>
    BY OneMore
  <2>5. out' = << FtypBox(movie), PdinOf, BlocOf, MoovBox(movie', tracks) >>
    BY ONLY <2>1, <2>3, <2>4, Zenon
  <2> QED BY <2>1, <2>2, <2>5 DEF OutIs
<1>7. CASE InitSegment
  BY <1>1, <1>7 DEF InitSegment, OutIs
<1>8. CASE RefuseTrack \/ Finished \/ UNCHANGED setupVars
  <2>1. movie' = movie /\ tracks' = tracks /\ phase' = phase /\ out' = out
    BY <1>8 DEF RefuseTrack, Finished, setupVars
  <2>2. PdinOf' = PdinOf /\ BlocOf' = BlocOf
    BY <2>1 DEF PdinOf, BlocOf
  <2> QED BY <2>1, <2>2 DEF OutIs
<1>9. CASE SetupFails
  BY <1>9 DEF SetupFails, OutIs
<1> QED BY <1>2, <1>3, <1>4, <1>5, <1>6, <1>7, <1>8, <1>9 DEF SetupNext

LEMMA OutHolds == SetupSpec => []OutIs
<1>1. SetupInit => OutIs
  BY DEF SetupInit, OutIs
<1> QED BY <1>1, SetupTypes, OutStays, PTL DEF SetupSpec

(* For any configuration and any tracks, whichever boxes are written, each  *)
(* size field holds what its box takes up: the file can be read from box to *)
(* box (the write_*_box functions).                                         *)
THEOREM BoxesAreReadable == SetupSpec => []FileIsReadable
<1>1. SetupTyped /\ OutIs => FileIsReadable
  <2> SUFFICES ASSUME SetupTyped, OutIs PROVE FileIsReadable
    OBVIOUS
  <2>1. movie \in Movie /\ tracks \in Seq(Track)
    BY DEF SetupTyped
  <2>2. ASSUME NEW m \in Movie PROVE Tiled(FtypBox(m)) /\ Tiled(MoovBox(m, tracks))
    <3>1. m.brands \in Nat
      BY DEF Movie
    <3>2. Tiled(FtypBox(m))
      BY <3>1 DEF FtypBox, Announced, Tiled
    <3> QED BY <2>1, <3>2, TiledMoov
  <2>3. Tiled(BlocOf)
    <3>1. movie.bloc \in Nat
      BY <2>1 DEF Movie
    <3>2. Tiled(Announced("bloc", movie.bloc, movie.bloc - 8))
      BY <3>1, TiledAnnounced
    <3> QED BY <3>2, TiledOptional DEF BlocOf
  <2>4. Tiled(PdinOf)
    <3>1. ASSUME NEW x PROVE Tiled(PdinBox(movie, x))
      <4> DEFINE n == IF PdinBaserate(movie, x) >= 2 THEN 3 ELSE 2
      <4>1. PdinBox(movie, x) = Announced("pdin", 12 + 8 * n, 4 + 8 * n)
        BY DEF PdinBox, FullHeader
      <4>2. n \in Nat
        OBVIOUS
      <4> HIDE DEF n
      <4>3. 12 + 8 * n = 8 + (4 + 8 * n)
        BY <4>2
      <4> QED BY <4>1, <4>3, TiledAnnounced
    <3> QED BY <3>1, TiledOptional DEF PdinOf
  <2>5. CASE phase = "adding"
    BY <2>5 DEF OutIs, FileIsReadable
  <2>6. CASE phase \in {"setup", "failed", "undefined"}
    <3> DEFINE a == FtypBox(movie)
    <3>1. Tiled(a) /\ out = <<a>>
      BY <2>1, <2>2, <2>6 DEF OutIs
    <3> HIDE DEF a
    <3>2. \A i \in 1..Len(out) : out[i] = a
      BY <3>1
    <3> QED BY <3>1, <3>2 DEF FileIsReadable
  <2>7. CASE phase = "moov"
    <3> DEFINE a == FtypBox(movie)
               b == PdinOf
               c == BlocOf
    <3>1. Tiled(a) /\ Tiled(b) /\ Tiled(c) /\ out = <<a, b, c>>
      BY <2>1, <2>2, <2>3, <2>4, <2>7 DEF OutIs
    <3> HIDE DEF a, b, c
    <3>2. \A i \in 1..Len(out) : out[i] \in {a, b, c}
      BY <3>1
    <3> QED BY <3>1, <3>2 DEF FileIsReadable
  <2>8. CASE phase = "done"
    <3> DEFINE a == FtypBox(movie)
               b == PdinOf
               c == BlocOf
               d == MoovBox(movie, tracks)
    <3>1. Tiled(a) /\ Tiled(b) /\ Tiled(c) /\ Tiled(d) /\ out = <<a, b, c, d>>
      BY <2>1, <2>2, <2>3, <2>4, <2>8 DEF OutIs
    <3> HIDE DEF a, b, c, d
    <3>2. \A i \in 1..Len(out) : out[i] \in {a, b, c, d}
      BY <3>1
    <3> QED BY <3>1, <3>2 DEF FileIsReadable
  <2>9. CASE phase = "init segment"
    <3>1. PICK m \in Movie, f \in Movie : out = << FtypBox(f), MoovBox(m, tracks) >>
      BY <2>9 DEF OutIs
    <3> DEFINE a == FtypBox(f)
               b == MoovBox(m, tracks)
    <3>2. Tiled(a) /\ Tiled(b) /\ out = <<a, b>>
      BY <2>2, <3>1
    <3> HIDE DEF a, b
    <3>3. \A i \in 1..Len(out) : out[i] \in {a, b}
      BY <3>2
    <3> QED BY <3>2, <3>3 DEF FileIsReadable
  <2> QED BY <2>5, <2>6, <2>7, <2>8, <2>9 DEF SetupTyped
<1> QED BY <1>1, SetupTypes, OutHolds, PTL

-----------------------------------------------------------------------------
(* The estimate of the size of 'moov'.  First, the bytes of boxes one after *)
(* the other.                                                               *)
LEMMA SumAtMost ==
    ASSUME NEW v, NEW w, NEW j \in Nat, \A k \in 1..j : v[k] \in Nat /\ w[k] \in Nat /\ v[k] <= w[k]
    PROVE  SumOver(v, 1, j) <= SumOver(w, 1, j)
<1> DEFINE S == {k \in Int : SumOver(v, 1, k) <= SumOver(w, 1, k)}
<1>1. 0 \in S
  BY SumEmpty
<1>2. ASSUME NEW k \in 0..(j - 1), k \in S PROVE k + 1 \in S
  <2>1. SumOver(v, 1, k + 1) = SumOver(v, 1, k) + v[k + 1]
    BY SumNext
  <2>2. SumOver(w, 1, k + 1) = SumOver(w, 1, k) + w[k + 1]
    BY SumNext
  <2>3. SumOver(v, 1, k) \in Nat /\ SumOver(w, 1, k) \in Nat
    <3>1. \A l \in 1..k : v[l] \in Nat /\ w[l] \in Nat
      OBVIOUS
    <3> QED BY <3>1, SumNat
  <2>4. v[k + 1] \in Nat /\ w[k + 1] \in Nat /\ v[k + 1] <= w[k + 1]
    OBVIOUS
  <2> DEFINE a == SumOver(v, 1, k)
             b == SumOver(w, 1, k)
  <2>5. a <= b
    BY <1>2
  <2> HIDE DEF a, b
  <2>6. a + v[k + 1] <= b + w[k + 1]
    BY <2>3, <2>4, <2>5 DEF a, b
  <2> QED BY <2>1, <2>2, <2>6 DEF a, b
<1> HIDE DEF S
<1>3. \A k \in 0..j : k \in S
  BY <1>1, <1>2, Upwards
<1> QED BY <1>3 DEF S

LEMMA RowIs ==
    ASSUME NEW boxes, NEW n \in Nat, Len(boxes) = n,
           NEW v, \A i \in 1..n : v[i] = boxes[i].bytes
    PROVE  Row(boxes).bytes = SumOver(v, 1, n)
<1> DEFINE w == [i \in 1..Len(boxes) |-> boxes[i].bytes]
<1>1. Row(boxes).bytes = Total(w)
  BY DEF Row
<1>2. Len(w) = n /\ \A i \in 1..n : w[i] = v[i]
  OBVIOUS
<1> HIDE DEF w
<1>3. Total(w) = SumOver(w, 1, n)
  BY <1>2 DEF Total
<1>4. SumOver(w, 1, n) = SumOver(v, 1, n)
  BY <1>2, SumSame
<1> QED BY <1>1, <1>3, <1>4

LEMMA FirstSums ==
    ASSUME NEW v
    PROVE  /\ SumOver(v, 1, 0) = 0
           /\ SumOver(v, 1, 1) = SumOver(v, 1, 0) + v[1]
           /\ SumOver(v, 1, 2) = SumOver(v, 1, 1) + v[2]
           /\ SumOver(v, 1, 3) = SumOver(v, 1, 2) + v[3]
           /\ SumOver(v, 1, 4) = SumOver(v, 1, 3) + v[4]
           /\ SumOver(v, 1, 5) = SumOver(v, 1, 4) + v[5]
           /\ SumOver(v, 1, 6) = SumOver(v, 1, 5) + v[6]
           /\ SumOver(v, 1, 7) = SumOver(v, 1, 6) + v[7]
           /\ SumOver(v, 1, 8) = SumOver(v, 1, 7) + v[8]
<1>1. SumOver(v, 1, 0) = 0
  BY SumEmpty
<1>2. ASSUME NEW j \in 1..8 PROVE SumOver(v, 1, j) = SumOver(v, 1, j - 1) + v[j]
  BY SumNext
<1>3. /\ SumOver(v, 1, 1) = SumOver(v, 1, 0) + v[1]
      /\ SumOver(v, 1, 2) = SumOver(v, 1, 1) + v[2]
      /\ SumOver(v, 1, 3) = SumOver(v, 1, 2) + v[3]
      /\ SumOver(v, 1, 4) = SumOver(v, 1, 3) + v[4]
  <2>1. 1 \in 1..8 /\ 2 \in 1..8 /\ 3 \in 1..8 /\ 4 \in 1..8
        /\ 1 - 1 = 0 /\ 2 - 1 = 1 /\ 3 - 1 = 2 /\ 4 - 1 = 3
    OBVIOUS
  <2> QED BY <1>2, <2>1
<1>4. /\ SumOver(v, 1, 5) = SumOver(v, 1, 4) + v[5]
      /\ SumOver(v, 1, 6) = SumOver(v, 1, 5) + v[6]
      /\ SumOver(v, 1, 7) = SumOver(v, 1, 6) + v[7]
      /\ SumOver(v, 1, 8) = SumOver(v, 1, 7) + v[8]
  <2>1. 5 \in 1..8 /\ 6 \in 1..8 /\ 7 \in 1..8 /\ 8 \in 1..8
        /\ 5 - 1 = 4 /\ 6 - 1 = 5 /\ 7 - 1 = 6 /\ 8 - 1 = 7
    OBVIOUS
  <2> QED BY <1>2, <2>1
<1> QED BY <1>1, <1>3, <1>4

(* A box takes up at most n bytes.                                          *)
AtMost(box, n) == box.bytes \in Nat /\ n \in Nat /\ box.bytes <= n

LEMMA MostNone == AtMost(Row(<< >>), 0)
BY RowEmpty DEF AtMost

LEMMA MostRow1 ==
    ASSUME NEW a, NEW p, AtMost(a, p) PROVE AtMost(Row(<< a >>), p)
<1> DEFINE v == << a.bytes >>
           r == << a >>
<1>1. Len(r) = 1 /\ \A i \in 1..1 : v[i] = r[i].bytes
  OBVIOUS
<1>2. v[1] = a.bytes
  OBVIOUS
<1> HIDE DEF r, v
<1>3. Row(r).bytes = SumOver(v, 1, 1)
  BY <1>1, RowIs
<1>4. Row(r).bytes = 0 + a.bytes
  BY <1>2, <1>3, FirstSums
<1> QED BY <1>4 DEF AtMost, r

LEMMA MostRow2 ==
    ASSUME NEW a, NEW b, NEW p, NEW q, AtMost(a, p), AtMost(b, q)
    PROVE  AtMost(Row(<< a, b >>), p + q)
<1> DEFINE v == << a.bytes, b.bytes >>
           r == << a, b >>
<1>1. Len(r) = 2 /\ v[1] = r[1].bytes /\ v[2] = r[2].bytes
  OBVIOUS
<1>2. v[1] = a.bytes /\ v[2] = b.bytes
  OBVIOUS
<1> HIDE DEF r, v
<1>3. Row(r).bytes = SumOver(v, 1, 2)
  <2> DEFINE n == 2
  <2>1. n \in Nat /\ Len(r) = n /\ \A i \in 1..n : v[i] = r[i].bytes
    BY <1>1
  <2> HIDE DEF n
  <2>2. Row(r).bytes = SumOver(v, 1, n)
    BY <2>1, RowIs
  <2> QED BY <2>2 DEF n
<1>4. Row(r).bytes = 0 + a.bytes + b.bytes
  BY <1>2, <1>3, FirstSums
<1> QED BY <1>4 DEF AtMost, r

LEMMA MostRow3 ==
    ASSUME NEW a, NEW b, NEW c,
           NEW p, NEW q, NEW s,
           AtMost(a, p), AtMost(b, q), AtMost(c, s)
    PROVE  AtMost(Row(<< a, b, c >>), p + q + s)
<1> DEFINE v == << a.bytes, b.bytes, c.bytes >>
           r == << a, b, c >>
           n == 3
<1>1. Len(r) = n /\ \A i \in 1..n : v[i] = r[i].bytes
  <2>1. v[1] = r[1].bytes /\ v[2] = r[2].bytes /\ v[3] = r[3].bytes
    OBVIOUS
  <2>2. Len(r) = n
    OBVIOUS
  <2>3. \A i \in 1..n : i = 1 \/ i = 2 \/ i = 3
    OBVIOUS
  <2> HIDE DEF r, v
  <2> QED BY <2>1, <2>2, <2>3
<1>2. v[1] = a.bytes /\ v[2] = b.bytes /\ v[3] = c.bytes
  OBVIOUS
<1>3. n \in Nat
  OBVIOUS
<1> HIDE DEF r, v, n
<1>4. Row(r).bytes = SumOver(v, 1, n)
  BY <1>1, <1>3, RowIs
<1>5. Row(r).bytes = 0 + a.bytes + b.bytes + c.bytes
  BY <1>2, <1>4, FirstSums DEF n
<1> QED BY <1>5 DEF AtMost, r

LEMMA MostRow4 ==
    ASSUME NEW a, NEW b, NEW c, NEW d,
           NEW p, NEW q, NEW s, NEW t,
           AtMost(a, p), AtMost(b, q), AtMost(c, s), AtMost(d, t)
    PROVE  AtMost(Row(<< a, b, c, d >>), p + q + s + t)
<1> DEFINE v == << a.bytes, b.bytes, c.bytes, d.bytes >>
           r == << a, b, c, d >>
           n == 4
<1>1. Len(r) = n /\ \A i \in 1..n : v[i] = r[i].bytes
  <2>1. v[1] = r[1].bytes /\ v[2] = r[2].bytes /\ v[3] = r[3].bytes /\ v[4] = r[4].bytes
    OBVIOUS
  <2>2. Len(r) = n
    OBVIOUS
  <2>3. \A i \in 1..n : i = 1 \/ i = 2 \/ i = 3 \/ i = 4
    OBVIOUS
  <2> HIDE DEF r, v
  <2> QED BY <2>1, <2>2, <2>3
<1>2. v[1] = a.bytes /\ v[2] = b.bytes /\ v[3] = c.bytes /\ v[4] = d.bytes
  OBVIOUS
<1>3. n \in Nat
  OBVIOUS
<1> HIDE DEF r, v, n
<1>4. Row(r).bytes = SumOver(v, 1, n)
  BY <1>1, <1>3, RowIs
<1>5. Row(r).bytes = 0 + a.bytes + b.bytes + c.bytes + d.bytes
  BY <1>2, <1>4, FirstSums DEF n
<1> QED BY <1>5 DEF AtMost, r

LEMMA MostRow5 ==
    ASSUME NEW a, NEW b, NEW c, NEW d, NEW e,
           NEW p, NEW q, NEW s, NEW t, NEW u,
           AtMost(a, p), AtMost(b, q), AtMost(c, s), AtMost(d, t),
           AtMost(e, u)
    PROVE  AtMost(Row(<< a, b, c, d, e >>), p + q + s + t + u)
<1> DEFINE v == << a.bytes, b.bytes, c.bytes, d.bytes, e.bytes >>
           r == << a, b, c, d, e >>
           n == 5
<1>1. Len(r) = n /\ \A i \in 1..n : v[i] = r[i].bytes
  <2>1. v[1] = r[1].bytes /\ v[2] = r[2].bytes /\ v[3] = r[3].bytes /\ v[4] = r[4].bytes /\ v[5] = r[5].bytes
    OBVIOUS
  <2>2. Len(r) = n
    OBVIOUS
  <2>3. \A i \in 1..n : i = 1 \/ i = 2 \/ i = 3 \/ i = 4 \/ i = 5
    OBVIOUS
  <2> HIDE DEF r, v
  <2> QED BY <2>1, <2>2, <2>3
<1>2. v[1] = a.bytes /\ v[2] = b.bytes /\ v[3] = c.bytes /\ v[4] = d.bytes /\ v[5] = e.bytes
  OBVIOUS
<1>3. n \in Nat
  OBVIOUS
<1> HIDE DEF r, v, n
<1>4. Row(r).bytes = SumOver(v, 1, n)
  BY <1>1, <1>3, RowIs
<1>5. Row(r).bytes = 0 + a.bytes + b.bytes + c.bytes + d.bytes + e.bytes
  BY <1>2, <1>4, FirstSums DEF n
<1> QED BY <1>5 DEF AtMost, r

LEMMA MostRow6 ==
    ASSUME NEW a, NEW b, NEW c, NEW d, NEW e, NEW f,
           NEW p, NEW q, NEW s, NEW t, NEW u, NEW w,
           AtMost(a, p), AtMost(b, q), AtMost(c, s), AtMost(d, t),
           AtMost(e, u), AtMost(f, w)
    PROVE  AtMost(Row(<< a, b, c, d, e, f >>), p + q + s + t + u + w)
<1> DEFINE v == << a.bytes, b.bytes, c.bytes, d.bytes, e.bytes, f.bytes >>
           r == << a, b, c, d, e, f >>
           n == 6
<1>1. Len(r) = n /\ \A i \in 1..n : v[i] = r[i].bytes
  <2>1. v[1] = r[1].bytes /\ v[2] = r[2].bytes /\ v[3] = r[3].bytes /\ v[4] = r[4].bytes /\ v[5] = r[5].bytes /\ v[6] = r[6].bytes
    OBVIOUS
  <2>2. Len(r) = n
    OBVIOUS
  <2>3. \A i \in 1..n : i = 1 \/ i = 2 \/ i = 3 \/ i = 4 \/ i = 5 \/ i = 6
    OBVIOUS
  <2> HIDE DEF r, v
  <2> QED BY <2>1, <2>2, <2>3
<1>2. v[1] = a.bytes /\ v[2] = b.bytes /\ v[3] = c.bytes /\ v[4] = d.bytes /\ v[5] = e.bytes /\ v[6] = f.bytes
  OBVIOUS
<1>3. n \in Nat
  OBVIOUS
<1> HIDE DEF r, v, n
<1>4. Row(r).bytes = SumOver(v, 1, n)
  BY <1>1, <1>3, RowIs
<1>5. Row(r).bytes = 0 + a.bytes + b.bytes + c.bytes + d.bytes + e.bytes + f.bytes
  BY <1>2, <1>4, FirstSums DEF n
<1> QED BY <1>5 DEF AtMost, r

LEMMA MostRow8 ==
    ASSUME NEW a, NEW b, NEW c, NEW d, NEW e, NEW f, NEW g, NEW h,
           NEW p, NEW q, NEW s, NEW t, NEW u, NEW w, NEW x, NEW y,
           AtMost(a, p), AtMost(b, q), AtMost(c, s), AtMost(d, t),
           AtMost(e, u), AtMost(f, w), AtMost(g, x), AtMost(h, y)
    PROVE  AtMost(Row(<< a, b, c, d, e, f, g, h >>), p + q + s + t + u + w + x + y)
<1> DEFINE v == << a.bytes, b.bytes, c.bytes, d.bytes, e.bytes, f.bytes, g.bytes, h.bytes >>
           r == << a, b, c, d, e, f, g, h >>
           n == 8
<1>1. Len(r) = n /\ \A i \in 1..n : v[i] = r[i].bytes
  <2>1. v[1] = r[1].bytes /\ v[2] = r[2].bytes /\ v[3] = r[3].bytes /\ v[4] = r[4].bytes /\ v[5] = r[5].bytes /\ v[6] = r[6].bytes /\ v[7] = r[7].bytes /\ v[8] = r[8].bytes
    OBVIOUS
  <2>2. Len(r) = n
    OBVIOUS
  <2>3. \A i \in 1..n : i = 1 \/ i = 2 \/ i = 3 \/ i = 4 \/ i = 5 \/ i = 6 \/ i = 7 \/ i = 8
    OBVIOUS
  <2> HIDE DEF r, v
  <2> QED BY <2>1, <2>2, <2>3
<1>2. v[1] = a.bytes /\ v[2] = b.bytes /\ v[3] = c.bytes /\ v[4] = d.bytes /\ v[5] = e.bytes /\ v[6] = f.bytes /\ v[7] = g.bytes /\ v[8] = h.bytes
  OBVIOUS
<1>3. n \in Nat
  OBVIOUS
<1> HIDE DEF r, v, n
<1>4. Row(r).bytes = SumOver(v, 1, n)
  BY <1>1, <1>3, RowIs
<1>5. Row(r).bytes = 0 + a.bytes + b.bytes + c.bytes + d.bytes + e.bytes + f.bytes + g.bytes + h.bytes
  BY <1>2, <1>4, FirstSums DEF n
<1> QED BY <1>5 DEF AtMost, r

LEMMA MostMeasured ==
    ASSUME NEW type, NEW body \in Nat, NEW kids, NEW n, AtMost(Row(kids), n)
    PROVE  AtMost(Measured(type, body, kids), 8 + body + n)
<1>1. Measured(type, body, kids).bytes = 8 + body + Row(kids).bytes
  BY DEF Measured
<1> DEFINE k == Row(kids).bytes
<1>2. k \in Nat /\ n \in Nat /\ k <= n
  BY DEF AtMost
<1> HIDE DEF k
<1> QED BY <1>1, <1>2 DEF AtMost, k

LEMMA MostAnnounced ==
    ASSUME NEW type, NEW size, NEW body \in Int, 8 + body >= 0
    PROVE  AtMost(Announced(type, size, body), 8 + body)
BY DEF Announced, AtMost

LEMMA MostOptional ==
    ASSUME NEW c, NEW box, NEW n \in Nat, c => AtMost(box, n)
    PROVE  AtMost(Optional(c, box), n)
<1>1. CASE c
  BY <1>1 DEF Optional
<1>2. CASE ~c
  BY <1>2, RowEmpty DEF Optional, AtMost
<1> QED BY <1>1, <1>2

LEMMA MostMore ==
    ASSUME NEW box, NEW m, NEW n \in Nat, AtMost(box, m), m <= n
    PROVE  AtMost(box, n)
BY DEF AtMost

(* What the estimate counts on of a track.                                  *)
CountedTrack(t) ==
    /\ t.type \in {"vide", "soun", "data"} /\ t.descs = 1
    /\ t.dvDsi + t.elDsi = 0 /\ ~t.preRoll /\ t.hdlrName < 32 /\ ~t.elstLong

LEMMA HdrType ==
    ASSUME NEW n \in Nat
    PROVE  /\ DescriptorHdr(n) \in Nat /\ DescriptorHdr(n) <= 5
           /\ DescriptorSize(n) \in Nat
<1>1. LengthBytes(n) \in 1..4
  BY DEF LengthBytes
<1> QED BY <1>1 DEF DescriptorHdr, DescriptorSize

LEMMA MostEsds == ASSUME NEW t, t.dsi \in Nat PROVE AtMost(Esds(t), 49 + t.dsi)
<1> DEFINE d == t.dsi
           dsi == IF d > 0 THEN DescriptorSize(d) ELSE 0
           config == 13 + dsi
           whole == 3 + DescriptorSize(config) + DescriptorSize(1)
           last == IF d > 0 THEN DescriptorHdr(d) + d ELSE 0
           body == FullHeader + DescriptorHdr(whole) + 3 + DescriptorHdr(config) + 13
                   + last + DescriptorHdr(1) + 1
<1>1. Esds(t) = Measured("esds", body, << >>)
  BY DEF Esds
<1>2. d \in Nat
  OBVIOUS
<1>3. dsi \in Nat /\ last \in Nat /\ last <= 5 + d
  <2> HIDE DEF d
  <2> QED BY <1>2, HdrType
<1> HIDE DEF dsi, last
<1>4. config \in Nat
  BY <1>3
<1> HIDE DEF config
<1>5. 1 \in Nat
  OBVIOUS
<1>6. whole \in Nat
  BY <1>4, <1>5, HdrType
<1> HIDE DEF whole
<1>7. /\ DescriptorHdr(whole) \in Nat /\ DescriptorHdr(whole) <= 5
      /\ DescriptorHdr(config) \in Nat /\ DescriptorHdr(config) <= 5
      /\ DescriptorHdr(1) \in Nat /\ DescriptorHdr(1) <= 5
  BY <1>4, <1>5, <1>6, HdrType
<1> HIDE DEF d
<1>8. body \in Nat /\ body <= 41 + d
  BY <1>2, <1>3, <1>7 DEF FullHeader
<1> HIDE DEF body
<1>9. AtMost(Esds(t), 8 + body + 0)
  BY <1>1, <1>8, MostNone, MostMeasured
<1>10. 49 + d \in Nat /\ 8 + body + 0 <= 49 + d
  BY <1>2, <1>8
<1>11. AtMost(Esds(t), 49 + d)
  BY <1>9, <1>10, MostMore
<1> QED BY <1>11 DEF d

LEMMA MostDsi ==
    ASSUME NEW t \in Track, t.dvDsi + t.elDsi = 0
    PROVE  AtMost(Dsi(t), 8 + t.dsi)
<1>1. t.dsi \in Nat /\ t.dvDsi = 0 /\ t.elDsi = 0
  <2>1. t.dsi \in Nat /\ t.dvDsi \in Nat /\ t.elDsi \in Nat
    BY DEF Track
  <2> QED BY <2>1
<1>2. AtMost(Announced("dsi", t.dsi + 8, t.dsi), 8 + t.dsi)
  BY <1>1, MostAnnounced
<1> DEFINE x == Optional(t.nal /\ t.dvDsi > 0, Announced("dvcC", t.dvDsi + 8, t.dvDsi))
           y == Optional(t.nal /\ t.elDsi > 0, Announced("elcE", t.elDsi + 8, t.elDsi))
<1>3. AtMost(x, 0) /\ AtMost(y, 0)
  <2>1. ~(t.nal /\ t.dvDsi > 0) /\ ~(t.nal /\ t.elDsi > 0)
    BY <1>1
  <2>2. x = Row(<< >>) /\ y = Row(<< >>)
    BY <2>1 DEF Optional
  <2> QED BY <2>2, MostNone
<1>4. Dsi(t) = Row(<< Announced("dsi", t.dsi + 8, t.dsi), x, y >>)
  BY DEF Dsi
<1> HIDE DEF x, y
<1>5. AtMost(Dsi(t), (8 + t.dsi) + 0 + 0)
  BY <1>2, <1>3, <1>4, MostRow3
<1>6. (8 + t.dsi) + 0 + 0 = 8 + t.dsi
  BY <1>1
<1> QED BY <1>5, <1>6

LEMMA MostExtension ==
    ASSUME NEW t \in Track, t.dvDsi + t.elDsi = 0
    PROVE  AtMost(Extension(t), 49 + t.dsi)
<1>1. t.dsi \in Nat
  BY DEF Track
<1>2. CASE t.coding \in {"mp4v", "mp4a"}
  BY <1>1, <1>2, MostEsds DEF Extension
<1>3. CASE ~(t.coding \in {"mp4v", "mp4a"})
  <2>1. Extension(t) = Optional(t.dsi > 0, Dsi(t))
    BY <1>3 DEF Extension
  <2>2. AtMost(Dsi(t), 8 + t.dsi)
    BY MostDsi
  <2>3. 49 + t.dsi \in Nat /\ 8 + t.dsi <= 49 + t.dsi
    BY <1>1
  <2>4. AtMost(Dsi(t), 49 + t.dsi)
    BY <2>2, <2>3, MostMore
  <2> QED BY <2>1, <2>3, <2>4, MostOptional
<1> QED BY <1>2, <1>3

(* Of the sample entry, the estimate leaves up to 57 bytes out: most of     *)
(* esds, and pasp.                                                          *)
LEMMA MostEntry ==
    ASSUME NEW t \in Track, CountedTrack(t)
    PROVE  EntryEstimate(t) \in Nat /\ AtMost(StsdEntry(t), EntryEstimate(t) + 57)
<1> DEFINE d == t.dsi
<1>1. d \in Nat
  BY DEF Track
<1>2. AtMost(Extension(t), 49 + d)
  BY MostExtension DEF CountedTrack
<1> HIDE DEF d
<1>3. 49 + d \in Nat
  BY <1>1
<1>4. CASE t.type = "vide"
  <2>1. EntryEstimate(t) = 16 + 70 + d + 8
    BY <1>4 DEF EntryEstimate, d
  <2>2. AtMost(Pasp(t), 8 + 8 + 0)
    BY MostNone, MostMeasured DEF Pasp
  <2>3. AtMost(Optional(t.pasp, Pasp(t)), 8 + 8 + 0)
    BY <2>2, MostOptional
  <2> DEFINE r == << Optional(t.pasp, Pasp(t)), Extension(t) >>
  <2>4. AtMost(Row(r), (8 + 8 + 0) + (49 + d))
    BY <1>2, <2>3, MostRow2
  <2>5. StsdEntry(t) = Measured(t.coding, SampleEntry + 70, r)
    BY <1>4 DEF StsdEntry, VideoEntry
  <2> HIDE DEF r
  <2>6. SampleEntry + 70 \in Nat
    BY DEF SampleEntry
  <2>7. AtMost(StsdEntry(t), 8 + (SampleEntry + 70) + ((8 + 8 + 0) + (49 + d)))
    BY <2>4, <2>5, <2>6, MostMeasured
  <2>8. 8 + (SampleEntry + 70) + ((8 + 8 + 0) + (49 + d)) = EntryEstimate(t) + 57
    BY <1>1, <2>1 DEF SampleEntry
  <2> QED BY <1>1, <2>1, <2>7, <2>8
<1>5. CASE t.type = "soun"
  <2>1. EntryEstimate(t) = 16 + 20 + d + 8
    BY <1>5 DEF EntryEstimate, d
  <2> DEFINE r == << Extension(t) >>
  <2>2. AtMost(Row(r), 49 + d)
    BY <1>2, MostRow1
  <2>3. StsdEntry(t) = Measured(t.coding, SampleEntry + 20, r)
    BY <1>5 DEF StsdEntry, AudioEntry
  <2> HIDE DEF r
  <2>4. SampleEntry + 20 \in Nat
    BY DEF SampleEntry
  <2>5. AtMost(StsdEntry(t), 8 + (SampleEntry + 20) + (49 + d))
    BY <2>2, <2>3, <2>4, MostMeasured
  <2>6. 8 + (SampleEntry + 20) + (49 + d) <= EntryEstimate(t) + 57 /\ EntryEstimate(t) + 57 \in Nat
    BY <1>1, <2>1 DEF SampleEntry
  <2> QED BY <1>1, <2>1, <2>5, <2>6, MostMore
<1>6. CASE t.type = "data"
  <2>1. EntryEstimate(t) = 16 + d + 8
    BY <1>6 DEF EntryEstimate, d
  <2>2. AtMost(Dsi(t), 8 + d)
    BY MostDsi DEF CountedTrack, d
  <2>3. AtMost(Optional(t.dsi > 0, Dsi(t)), 8 + d)
    <3>1. 8 + d \in Nat
      BY <1>1
    <3> QED BY <2>2, <3>1, MostOptional
  <2> DEFINE r == << Optional(t.dsi > 0, Dsi(t)) >>
  <2>4. AtMost(Row(r), 8 + d)
    BY <2>3, MostRow1
  <2>5. StsdEntry(t) = Measured(t.coding, SampleEntry, r)
    BY <1>6 DEF StsdEntry, DataEntry
  <2> HIDE DEF r
  <2>6. SampleEntry \in Nat
    BY DEF SampleEntry
  <2>7. AtMost(StsdEntry(t), 8 + SampleEntry + (8 + d))
    BY <2>4, <2>5, <2>6, MostMeasured
  <2>8. 8 + SampleEntry + (8 + d) <= EntryEstimate(t) + 57 /\ EntryEstimate(t) + 57 \in Nat
    BY <1>1, <2>1 DEF SampleEntry
  <2> QED BY <1>1, <2>1, <2>7, <2>8, MostMore
<1> QED BY <1>4, <1>5, <1>6 DEF CountedTrack

(* No table of a track is longer than the estimate counts.                  *)
LEMMA SttsLen ==
    ASSUME NEW t \in Track, sampleNum(t) > 0
    PROVE  Len(Stts(t)) \in 0..sampleNum(t)
<1> DEFINE n == sampleNum(t) - 1
           h == CHOOSE x : IsDeltas(t, x)
           D == {k \in Int : /\ h[k] \in Seq(DeltaRun) /\ Len(h[k]) \in 0..k
                             /\ k > 0 => Len(h[k]) > 0}
<1>1. t.dts \in Seq(Nat)
  BY DEF Track
<1>2. n \in Nat /\ sampleNum(t) = n + 1 /\ Len(t.dts) = n + 1
  BY <1>1 DEF sampleNum
<1>3. IsDeltas(t, h)
  BY <1>1, DeltasExist
<1>4. DeltaRuns(t) = h[n]
  <2>1. sampleNum(t) # 0
    BY <1>2
  <2> QED BY <2>1 DEF DeltaRuns, IsDeltas
<1> HIDE DEF h, n
<1>5. \A k \in 0..n : h[k] = IF k = 0 THEN << >> ELSE AddDelta(h[k - 1], t.dts[k + 1] - t.dts[k])
  <2> DEFINE r == [k \in 0..n |-> IF k = 0 THEN << >>
                                  ELSE AddDelta(h[k - 1], t.dts[k + 1] - t.dts[k])]
  <2>1. h = r
    BY <1>3 DEF IsDeltas, n
  <2>2. \A k \in 0..n : r[k] = IF k = 0 THEN << >>
                               ELSE AddDelta(h[k - 1], t.dts[k + 1] - t.dts[k])
    OBVIOUS
  <2> HIDE DEF r
  <2> QED BY <2>1, <2>2
<1>6. 0 \in D
  <2>1. h[0] = << >>
    BY <1>2, <1>5
  <2>2. << >> \in Seq(DeltaRun) /\ Len(<< >>) = 0
    OBVIOUS
  <2> DEFINE a == h[0]
  <2>5. a \in Seq(DeltaRun) /\ Len(a) = 0
    BY <2>1, <2>2
  <2> HIDE DEF a
  <2>6. Len(a) \in 0..0 /\ 0 \in Int
    BY <2>5
  <2> QED BY <2>5, <2>6 DEF a
<1>7. ASSUME NEW k \in 0..(n - 1), k \in D PROVE k + 1 \in D
  <2> DEFINE x == t.dts[k + 2] - t.dts[k + 1]
             a == h[k]
             b == h[k + 1]
  <2>1. k \in Nat /\ k + 1 \in 0..n /\ k + 1 # 0 /\ (k + 1) - 1 = k /\ (k + 1) + 1 = k + 2
    BY <1>2
  <2>2. b = AddDelta(a, x)
    BY <1>5, <2>1
  <2>3. x \in Int
    <3>1. k + 1 \in 1..Len(t.dts) /\ k + 2 \in 1..Len(t.dts)
      BY <1>2
    <3>2. t.dts[k + 1] \in Nat /\ t.dts[k + 2] \in Nat
      BY <1>1, <3>1
    <3> QED BY <3>2
  <2>4. a \in Seq(DeltaRun) /\ Len(a) \in 0..k
    BY <1>7
  <2> HIDE DEF x, a, b
  <2>5. b \in Seq(DeltaRun) /\ Len(b) \in 1..(Len(a) + 1)
    BY <2>2, <2>3, <2>4, AddDeltaRun
  <2>6. Len(b) \in 0..(k + 1) /\ Len(b) > 0
    BY <2>1, <2>4, <2>5
  <2> QED BY <2>1, <2>5, <2>6 DEF b
<1>8. n \in D
  <2> HIDE DEF D
  <2>1. \A k \in 0..n : k \in D
    BY <1>2, <1>6, <1>7, Upwards
  <2> QED BY <1>2, <2>1
<1> DEFINE runs == DeltaRuns(t)
           last == t.duration - Final(t.dts)
<1>9. runs \in Seq(DeltaRun) /\ Len(runs) \in 0..n /\ (n > 0 => Len(runs) > 0)
  BY <1>4, <1>8
<1>10. CASE sampleNum(t) = 1
  BY <1>10 DEF Stts
<1>11. CASE sampleNum(t) # 1
  <2>1. n > 0 /\ sampleNum(t) > 1
    BY <1>2, <1>11
  <2>2. Stts(t) = Append(runs, [count |-> 1, delta |-> last])
        \/ Stts(t) = [runs EXCEPT ![Len(runs)].count = @ + 1]
    BY <2>1 DEF Stts
  <2> HIDE DEF runs, last
  <2>3. CASE Stts(t) = Append(runs, [count |-> 1, delta |-> last])
    <3> DEFINE r == [count |-> 1, delta |-> last]
    <3> HIDE DEF r
    <3>1. Len(Append(runs, r)) = Len(runs) + 1
      BY <1>9
    <3> QED BY <1>2, <1>9, <2>3, <3>1 DEF r
  <2>4. CASE Stts(t) = [runs EXCEPT ![Len(runs)].count = @ + 1]
    <3> DEFINE r == [runs[Len(runs)] EXCEPT !.count = @ + 1]
    <3>1. Stts(t) = [runs EXCEPT ![Len(runs)] = r]
      BY <2>4
    <3> HIDE DEF r
    <3>2. Len([runs EXCEPT ![Len(runs)] = r]) = Len(runs)
      BY <1>9
    <3> QED BY <1>2, <1>9, <3>1, <3>2
  <2> QED BY <2>2, <2>3, <2>4
<1> QED BY <1>10, <1>11

LEMMA StssLen ==
    ASSUME NEW t \in Track PROVE Len(Stss(t)) \in 0..Len(t.sync)
<1>1. t.sync \in Seq(Nat)
  BY DEF Track
<1>2. Len(t.sync) \in Nat
  BY <1>1
<1>3. CASE Stss(t) = << >>
  BY <1>2, <1>3
<1>4. CASE Stss(t) # << >>
  <2>1. Stss(t) = [i \in 1..Len(t.sync) |-> t.sync[i] + 1]
    BY <1>4 DEF Stss
  <2>2. Len(Stss(t)) = Len(t.sync)
    BY <1>2, <2>1
  <2> QED BY <1>2, <2>2
<1> QED BY <1>3, <1>4

LEMMA CttsLen ==
    ASSUME NEW t \in Track PROVE Len(Ctts(t)) \in 0..Len(t.cts)
<1>1. t.cts \in Seq([count : Nat, value : Int])
  BY DEF Track
<1>2. Len(t.cts) \in Nat
  BY <1>1, LenType
<1> QED BY <1>2 DEF Ctts

LEMMA StscLen ==
    ASSUME NEW t \in Track PROVE Len(Stsc(t)) \in 0..Len(t.chunks)
<1> DEFINE n == Len(t.chunks)
           Chunk == [num : Nat, sdi : Nat, offset : Nat, idx : Nat]
           h == CHOOSE x : IsChunkRuns(t, x)
           r(i) == [first |-> i, num |-> t.chunks[i].num, sdi |-> t.chunks[i].sdi]
           D == {k \in Int : h[k] \in Seq(StscEntry) /\ Len(h[k]) \in 0..k}
<1>1. t.chunks \in Seq(Chunk)
  BY DEF Track
<1>2. \A i \in 1..n : t.chunks[i] \in Chunk
  <2> HIDE DEF Chunk
  <2> QED BY <1>1
<1>3. n \in Nat /\ \A i \in 1..n : t.chunks[i].num \in Nat /\ t.chunks[i].sdi \in Nat
  BY <1>1, <1>2
<1>4. IsChunkRuns(t, h)
  BY <1>3, ChunkRunsExist
<1>5. Stsc(t) = h[n]
  BY DEF Stsc, IsChunkRuns
<1>6. \A i \in 1..n : r(i) \in StscEntry
  BY <1>3 DEF StscEntry
<1> HIDE DEF h, n
<1>7. \A i \in 0..n : h[i] = IF i = 0 THEN << >>
                             ELSE IF Differs(t, i) THEN Append(h[i - 1], r(i)) ELSE h[i - 1]
  <2> DEFINE z == [i \in 0..n |-> IF i = 0 THEN << >>
                     ELSE IF Differs(t, i) THEN Append(h[i - 1], r(i)) ELSE h[i - 1]]
  <2>1. h = z
    BY <1>4 DEF IsChunkRuns, n
  <2>2. \A i \in 0..n : z[i] = IF i = 0 THEN << >>
                     ELSE IF Differs(t, i) THEN Append(h[i - 1], r(i)) ELSE h[i - 1]
    OBVIOUS
  <2> HIDE DEF z
  <2> QED BY <2>1, <2>2
<1> HIDE DEF r
<1>8. 0 \in D
  <2>1. 0 \in 0..n
    BY <1>3
  <2>2. h[0] = << >>
    BY <1>7, <2>1
  <2>3. << >> \in Seq(StscEntry) /\ Len(<< >>) = 0
    OBVIOUS
  <2> DEFINE a == h[0]
  <2>5. a \in Seq(StscEntry) /\ Len(a) = 0
    BY <2>2, <2>3
  <2> HIDE DEF a
  <2>6. Len(a) \in 0..0 /\ 0 \in Int
    BY <2>5
  <2> QED BY <2>5, <2>6 DEF a
<1>9. ASSUME NEW k \in 0..(n - 1), k \in D PROVE k + 1 \in D
  <2> DEFINE a == h[k]
             b == h[k + 1]
             x == r(k + 1)
  <2>1. k \in Nat /\ k + 1 \in 0..n /\ k + 1 \in 1..n /\ k + 1 # 0 /\ (k + 1) - 1 = k
    BY <1>3
  <2>2. b = Append(a, x) \/ b = a
    BY <1>7, <2>1
  <2>3. x \in StscEntry
    BY <1>6, <2>1
  <2>4. a \in Seq(StscEntry) /\ Len(a) \in 0..k
    BY <1>9
  <2> HIDE DEF a, b, x
  <2>5. b \in Seq(StscEntry) /\ Len(b) \in 0..(k + 1)
    <3>1. Append(a, x) \in Seq(StscEntry) /\ Len(Append(a, x)) = Len(a) + 1
      BY <2>3, <2>4
    <3>2. CASE b = Append(a, x)
      BY <2>1, <2>4, <3>1, <3>2
    <3>3. CASE b = a
      BY <2>1, <2>4, <3>3
    <3> QED BY <2>2, <3>2, <3>3
  <2> QED BY <2>1, <2>5 DEF b
<1>10. n \in D
  <2> HIDE DEF D
  <2>1. \A k \in 0..n : k \in D
    BY <1>3, <1>8, <1>9, Upwards
  <2> QED BY <1>3, <2>1
<1> QED BY <1>5, <1>10 DEF n

LEMMA StszLen ==
    ASSUME NEW t, sampleNum(t) \in Nat, RunsOver(t.sizes, sampleNum(t), Nat \ {0})
    PROVE  Len(Stsz(t).table) = IF Len(t.sizes) = 1 THEN 0 ELSE sampleNum(t)
<1> DEFINE h == CHOOSE x : IsTable(t.sizes, x)
<1>1. IsTable(t.sizes, h)
  BY TableExists
<1>2. CASE Len(t.sizes) = 1
  BY <1>2 DEF Stsz, AllSameSize
<1>3. CASE Len(t.sizes) # 1
  <2>1. Stsz(t).table = h[Len(t.sizes)]
    BY <1>3 DEF Stsz, AllSameSize, IsTable
  <2> HIDE DEF h
  <2>2. Len(h[Len(t.sizes)]) = sampleNum(t)
    BY <1>1, TableOfRuns
  <2> QED BY <1>3, <2>1, <2>2
<1> QED BY <1>2, <1>3

(* The boxes of a track, one container after the other.                     *)
SizesTell(t) ==
    sampleNum(t) > 0 => RunsOver(t.sizes, sampleNum(t), Nat \ {0})

TablesEstimate(t) ==
    (16 + 8 * sampleNum(t)) + (16 + 8 * Len(t.cts)) + (16 + 4 * Len(t.sync))
    + (16 + 12 * Len(t.chunks))
    + (20 + 4 * (IF Len(t.sizes) = 1 THEN 0 ELSE sampleNum(t)))
    + (16 + 8 * Len(t.chunks))

LEMMA TrackLens ==
    ASSUME NEW t \in Track
    PROVE  /\ sampleNum(t) \in Nat /\ Len(t.cts) \in Nat /\ Len(t.sync) \in Nat
           /\ Len(t.chunks) \in Nat /\ Len(t.edits) \in Nat
           /\ (IF Len(t.sizes) = 1 THEN 0 ELSE sampleNum(t)) \in Nat
<1>1. t.dts \in Seq(Nat) /\ t.sync \in Seq(Nat)
  BY DEF Track
<1>2. t.cts \in Seq([count : Nat, value : Int])
  BY DEF Track
<1>3. t.edits \in Seq([duration : Nat, mediaTime : Int])
  BY DEF Track
<1>4. t.chunks \in Seq([num : Nat, sdi : Nat, offset : Nat, idx : Nat])
  BY DEF Track
<1>5. sampleNum(t) \in Nat
  BY <1>1, LenType DEF sampleNum
<1> QED BY <1>1, <1>2, <1>3, <1>4, <1>5, LenType

(* A table of at most n entries in a box.                                   *)
LEMMA MostTable ==
    ASSUME NEW type, NEW fixed \in Nat, NEW width \in Nat, NEW m, NEW n \in Nat, NEW k \in 0..n
    PROVE  AtMost(Measured(type, fixed + width * Table(m, k), << >>), 8 + fixed + width * n)
<1>1. Table(m, k) \in 0..n
  BY DEF Table
<1> DEFINE e == Table(m, k)
<1>2. width * e \in Nat /\ width * n \in Nat /\ width * e <= width * n
  <2>1. e \in Nat /\ n \in Nat /\ e <= n
    BY <1>1
  <2> HIDE DEF e
  <2> QED BY <2>1
<1> DEFINE b == fixed + width * e
<1>3. b \in Nat /\ 8 + b + 0 <= 8 + fixed + width * n /\ 8 + fixed + width * n \in Nat
  <2> DEFINE x == width * e
             y == width * n
  <2>1. x \in Nat /\ y \in Nat /\ x <= y
    BY <1>2
  <2> HIDE DEF e, x, y
  <2> QED BY <2>1 DEF x, y
<1> HIDE DEF b
<1>4. AtMost(Measured(type, b, << >>), 8 + b + 0)
  BY <1>3, MostNone, MostMeasured
<1>5. AtMost(Measured(type, b, << >>), 8 + fixed + width * n)
  BY <1>3, <1>4, MostMore
<1> QED BY <1>5 DEF b

LEMMA MostStsd ==
    ASSUME NEW t \in Track, CountedTrack(t)
    PROVE  AtMost(StsdBox(t), 16 + (EntryEstimate(t) + 57))
<1> DEFINE r == [i \in 1..t.descs |-> StsdEntry(t)]
           x == EntryEstimate(t) + 57
<1>1. r = << StsdEntry(t) >>
  <2>1. t.descs = 1
    BY DEF CountedTrack
  <2> QED BY <2>1
<1>2. AtMost(StsdEntry(t), x)
  BY MostEntry
<1>3. StsdBox(t) = Measured("stsd", FullHeader + 4, r)
  BY DEF StsdBox
<1> HIDE DEF r, x
<1>4. AtMost(Row(r), x)
  BY <1>1, <1>2, MostRow1
<1>5. FullHeader + 4 \in Nat
  BY DEF FullHeader
<1>6. AtMost(StsdBox(t), 8 + (FullHeader + 4) + x)
  BY <1>3, <1>4, <1>5, MostMeasured
<1>7. x \in Nat
  BY <1>2 DEF AtMost
<1>8. 8 + (FullHeader + 4) + x = 16 + x
  BY <1>7 DEF FullHeader
<1> QED BY <1>6, <1>8 DEF x

LEMMA MostTables ==
    ASSUME NEW m, ~m.frag, NEW t \in Track, sampleNum(t) > 0, SizesTell(t)
    PROVE  /\ AtMost(SttsBox(m, t), 16 + 8 * sampleNum(t))
           /\ AtMost(Optional(HasCtts(m, t), CttsBox(t)), 16 + 8 * Len(t.cts))
           /\ AtMost(Optional(Stss(t) # << >>, StssBox(m, t)), 16 + 4 * Len(t.sync))
           /\ AtMost(StscBox(m, t), 16 + 12 * Len(t.chunks))
           /\ AtMost(StszBox(m, t), 20 + 4 * (IF Len(t.sizes) = 1 THEN 0 ELSE sampleNum(t)))
           /\ AtMost(StcoBox(m, t), 16 + 8 * Len(t.chunks))
<1> DEFINE n == sampleNum(t)
           c == Len(t.cts)
           s == Len(t.sync)
           k == Len(t.chunks)
           z == IF Len(t.sizes) = 1 THEN 0 ELSE sampleNum(t)
<1>1. n \in Nat /\ c \in Nat /\ s \in Nat /\ k \in Nat /\ z \in Nat
  BY TrackLens
<1>2. Len(Stts(t)) \in 0..n /\ Len(Ctts(t)) \in 0..c /\ Len(Stss(t)) \in 0..s
      /\ Len(Stsc(t)) \in 0..k
  BY SttsLen, CttsLen, StssLen, StscLen
<1>3. Len(Stsz(t).table) \in 0..z
  <2>1. Len(Stsz(t).table) = z
    BY <1>1, StszLen DEF SizesTell
  <2> HIDE DEF z
  <2> QED BY <1>1, <2>1
<1> HIDE DEF n, c, s, k, z
<1>4. AtMost(SttsBox(m, t), 16 + 8 * n)
  <2>1. SttsBox(m, t) = Measured("stts", (FullHeader + 4) + 8 * Table(m, Len(Stts(t))), << >>)
    BY DEF SttsBox
  <2>2. FullHeader + 4 \in Nat /\ FullHeader + 4 = 8 /\ 8 \in Nat
    BY DEF FullHeader
  <2>3. AtMost(SttsBox(m, t), 8 + (FullHeader + 4) + 8 * n)
    BY <1>1, <1>2, <2>1, <2>2, MostTable
  <2>4. 8 + (FullHeader + 4) + 8 * n = 16 + 8 * n /\ 16 + 8 * n \in Nat
    BY <1>1, <2>2
  <2> QED BY <2>3, <2>4
<1>5. AtMost(Optional(HasCtts(m, t), CttsBox(t)), 16 + 8 * c)
  <2> DEFINE e == Len(Ctts(t))
             body == FullHeader + 4 + 8 * e
  <2>1. e \in Nat /\ e <= c
    BY <1>1, <1>2
  <2>2. CttsBox(t) = Announced("ctts", 16 + 8 * e, body)
    BY DEF CttsBox
  <2> HIDE DEF e
  <2>3. body \in Int /\ 8 + body >= 0 /\ 8 + body <= 16 + 8 * c /\ 16 + 8 * c \in Nat
    BY <1>1, <2>1 DEF FullHeader
  <2> HIDE DEF body
  <2>4. AtMost(CttsBox(t), 8 + body)
    BY <2>2, <2>3, MostAnnounced
  <2>5. AtMost(CttsBox(t), 16 + 8 * c)
    BY <2>3, <2>4, MostMore
  <2> QED BY <2>3, <2>5, MostOptional
<1>6. AtMost(Optional(Stss(t) # << >>, StssBox(m, t)), 16 + 4 * s)
  <2>1. StssBox(m, t) = Measured("stss", (FullHeader + 4) + 4 * Table(m, Len(Stss(t))), << >>)
    BY DEF StssBox
  <2>2. FullHeader + 4 \in Nat /\ FullHeader + 4 = 8 /\ 4 \in Nat
    BY DEF FullHeader
  <2>3. AtMost(StssBox(m, t), 8 + (FullHeader + 4) + 4 * s)
    BY <1>1, <1>2, <2>1, <2>2, MostTable
  <2>4. 8 + (FullHeader + 4) + 4 * s = 16 + 4 * s /\ 16 + 4 * s \in Nat
    BY <1>1, <2>2
  <2> QED BY <2>3, <2>4, MostOptional
<1>7. AtMost(StscBox(m, t), 16 + 12 * k)
  <2>1. StscBox(m, t) = Measured("stsc", (FullHeader + 4) + 12 * Table(m, Len(Stsc(t))), << >>)
    BY DEF StscBox
  <2>2. FullHeader + 4 \in Nat /\ FullHeader + 4 = 8 /\ 12 \in Nat
    BY DEF FullHeader
  <2>3. AtMost(StscBox(m, t), 8 + (FullHeader + 4) + 12 * k)
    BY <1>1, <1>2, <2>1, <2>2, MostTable
  <2>4. 8 + (FullHeader + 4) + 12 * k = 16 + 12 * k /\ 16 + 12 * k \in Nat
    BY <1>1, <2>2
  <2> QED BY <2>3, <2>4
<1>8. AtMost(StszBox(m, t), 20 + 4 * z)
  <2>1. StszBox(m, t) = Measured("stsz", (FullHeader + 8) + 4 * Table(m, Len(Stsz(t).table)), << >>)
    BY DEF StszBox
  <2>2. FullHeader + 8 \in Nat /\ FullHeader + 8 = 12 /\ 4 \in Nat
    BY DEF FullHeader
  <2>3. AtMost(StszBox(m, t), 8 + (FullHeader + 8) + 4 * z)
    BY <1>1, <1>3, <2>1, <2>2, MostTable
  <2>4. 8 + (FullHeader + 8) + 4 * z = 20 + 4 * z /\ 20 + 4 * z \in Nat
    BY <1>1, <2>2
  <2> QED BY <2>3, <2>4
<1>9. AtMost(StcoBox(m, t), 16 + 8 * k)
  <2> DEFINE w == IF m.co64 THEN 8 ELSE 4
             type == IF m.co64 THEN "co64" ELSE "stco"
  <2>1. w \in Nat /\ w <= 8
    OBVIOUS
  <2>2. StcoBox(m, t) = Measured(type, (FullHeader + 4) + w * Table(m, k), << >>)
    BY DEF StcoBox, k
  <2> HIDE DEF w, type
  <2>3. k \in 0..k /\ FullHeader + 4 \in Nat /\ FullHeader + 4 = 8
    BY <1>1 DEF FullHeader
  <2>4. AtMost(StcoBox(m, t), 8 + (FullHeader + 4) + w * k)
    BY <1>1, <2>1, <2>2, <2>3, MostTable
  <2>5. w * k <= 8 * k /\ w * k \in Nat
    BY <1>1, <2>1
  <2>6. 8 + (FullHeader + 4) + w * k <= 16 + 8 * k /\ 16 + 8 * k \in Nat
    <3> DEFINE x == w * k
    <3> HIDE DEF x
    <3>1. x <= 8 * k /\ x \in Nat
      BY <2>5 DEF x
    <3>2. 8 + (FullHeader + 4) + x <= 16 + 8 * k
      BY <1>1, <2>3, <3>1
    <3> QED BY <1>1, <3>2 DEF x
  <2> QED BY <2>4, <2>6, MostMore
<1> QED BY <1>4, <1>5, <1>6, <1>7, <1>8, <1>9 DEF n, c, s, k, z

LEMMA MostStbl ==
    ASSUME NEW m, ~m.frag, NEW t \in Track, CountedTrack(t), sampleNum(t) > 0, SizesTell(t)
    PROVE  /\ TablesEstimate(t) \in Nat /\ EntryEstimate(t) \in Nat
           /\ AtMost(StblBox(m, t), 81 + EntryEstimate(t) + TablesEstimate(t))
<1> DEFINE n == 16 + 8 * sampleNum(t)
           c == 16 + 8 * Len(t.cts)
           s == 16 + 4 * Len(t.sync)
           k == 16 + 12 * Len(t.chunks)
           z == 20 + 4 * (IF Len(t.sizes) = 1 THEN 0 ELSE sampleNum(t))
           o == 16 + 8 * Len(t.chunks)
           x == EntryEstimate(t)
<1>1. /\ AtMost(SttsBox(m, t), n) /\ AtMost(Optional(HasCtts(m, t), CttsBox(t)), c)
      /\ AtMost(Optional(Stss(t) # << >>, StssBox(m, t)), s) /\ AtMost(StscBox(m, t), k)
      /\ AtMost(StszBox(m, t), z) /\ AtMost(StcoBox(m, t), o)
  BY MostTables
<1>2. AtMost(StsdBox(t), 16 + (x + 57)) /\ x \in Nat
  BY MostStsd, MostEntry
<1>3. n \in Nat /\ c \in Nat /\ s \in Nat /\ k \in Nat /\ z \in Nat /\ o \in Nat
  BY <1>1 DEF AtMost
<1>4. TablesEstimate(t) = n + c + s + k + z + o
  BY DEF TablesEstimate
<1> DEFINE roll == Optional(t.preRoll, Row(<< SbgpBox(t), SgpdBox >>))
<1>5. AtMost(roll, 0)
  <2>1. ~t.preRoll
    BY DEF CountedTrack
  <2>2. roll = Row(<< >>)
    BY <2>1 DEF Optional
  <2> QED BY <2>2, MostNone
<1> HIDE DEF n, c, s, k, z, o, x
<1> DEFINE r == << StsdBox(t), SttsBox(m, t), Optional(HasCtts(m, t), CttsBox(t)),
                   Optional(Stss(t) # << >>, StssBox(m, t)), StscBox(m, t), StszBox(m, t),
                   StcoBox(m, t), roll >>
           most == (16 + (x + 57)) + n + c + s + k + z + o + 0
<1>6. AtMost(Row(r), most)
  <2> HIDE DEF roll
  <2> QED BY <1>1, <1>2, <1>5, MostRow8
<1>7. most \in Nat
  BY <1>6 DEF AtMost
<1>8. StblBox(m, t) = Measured("stbl", 0, << Optional(t.chunks # << >>, Row(r)) >>)
  BY DEF StblBox
<1> HIDE DEF r
<1>9. AtMost(Row(<< Optional(t.chunks # << >>, Row(r)) >>), most)
  <2> HIDE DEF most
  <2>1. AtMost(Optional(t.chunks # << >>, Row(r)), most)
    BY <1>6, <1>7, MostOptional
  <2> QED BY <2>1, MostRow1
<1>10. AtMost(StblBox(m, t), 8 + 0 + most)
  <2> HIDE DEF most
  <2>1. 0 \in Nat
    OBVIOUS
  <2> QED BY <1>8, <1>9, <2>1, MostMeasured
<1>11. TablesEstimate(t) \in Nat /\ 8 + 0 + most = 81 + x + TablesEstimate(t)
  BY <1>2, <1>3, <1>4
<1> QED BY <1>2, <1>10, <1>11 DEF x

LEMMA MostMdia ==
    ASSUME NEW m, ~m.frag, NEW t \in Track, CountedTrack(t), sampleNum(t) > 0, SizesTell(t)
    PROVE  /\ TablesEstimate(t) \in Nat /\ EntryEstimate(t) \in Nat
           /\ AtMost(MdiaBox(m, t), 261 + EntryEstimate(t) + TablesEstimate(t))
<1> DEFINE x == EntryEstimate(t) + TablesEstimate(t)
           stbl == 81 + EntryEstimate(t) + TablesEstimate(t)
<1>1. TablesEstimate(t) \in Nat /\ EntryEstimate(t) \in Nat
      /\ AtMost(StblBox(m, t), stbl)
  BY MostStbl
<1>2. x \in Nat /\ stbl \in Nat /\ stbl = 81 + x
  BY <1>1
<1> HIDE DEF x, stbl
<1>3. AtMost(MediaHeader(t), 20)
  <2>1. CASE t.type = "vide"
    BY <2>1 DEF MediaHeader, Announced, AtMost, FullHeader
  <2>2. CASE t.type = "soun"
    BY <2>2 DEF MediaHeader, Announced, AtMost, FullHeader
  <2>3. CASE t.type = "data"
    BY <2>3 DEF MediaHeader, Announced, AtMost, FullHeader
  <2> QED BY <2>1, <2>2, <2>3 DEF CountedTrack
<1>4. AtMost(DinfBox, 36)
  <2>1. AtMost(DrefBox, 28)
    BY DEF DrefBox, Announced, AtMost, FullHeader
  <2>2. AtMost(Row(<< DrefBox >>), 28)
    BY <2>1, MostRow1
  <2>3. 0 \in Nat /\ 8 + 0 + 28 = 36
    OBVIOUS
  <2>4. AtMost(DinfBox, 8 + 0 + 28)
    BY <2>2, <2>3, MostMeasured DEF DinfBox
  <2> QED BY <2>3, <2>4
<1>5. AtMost(MinfBox(m, t), 64 + stbl)
  <2> DEFINE r == << MediaHeader(t), DinfBox, StblBox(m, t) >>
  <2>1. AtMost(Row(r), 20 + 36 + stbl)
    BY <1>1, <1>3, <1>4, MostRow3
  <2>2. MinfBox(m, t) = Measured("minf", 0, r)
    BY DEF MinfBox
  <2> HIDE DEF r
  <2>3. 0 \in Nat /\ 8 + 0 + (20 + 36 + stbl) = 64 + stbl
    BY <1>2
  <2>4. AtMost(MinfBox(m, t), 8 + 0 + (20 + 36 + stbl))
    BY <2>1, <2>2, <2>3, MostMeasured
  <2> QED BY <2>3, <2>4
<1>6. AtMost(MdhdBox(m, t), 44)
  <2>1. CASE MdhdLong(m, t)
    BY <2>1 DEF MdhdBox, Announced, AtMost, FullHeader
  <2>2. CASE ~MdhdLong(m, t)
    BY <2>2 DEF MdhdBox, Announced, AtMost, FullHeader
  <2> QED BY <2>1, <2>2
<1>7. AtMost(HdlrBox(t), 64)
  <2> DEFINE name == t.hdlrName
             body == FullHeader + 4 + 4 + 12 + name + 1
  <2>1. name \in Nat
    BY DEF Track
  <2>2. name < 32
    BY DEF CountedTrack
  <2>3. HdlrBox(t) = Measured("hdlr", body, << >>)
    BY DEF HdlrBox
  <2> HIDE DEF name
  <2>4. body \in Nat /\ 8 + body + 0 <= 64 /\ 64 \in Nat
    BY <2>1, <2>2 DEF FullHeader
  <2> HIDE DEF body
  <2>5. AtMost(HdlrBox(t), 8 + body + 0)
    BY <2>3, <2>4, MostNone, MostMeasured
  <2> QED BY <2>4, <2>5, MostMore
<1> DEFINE r == << MdhdBox(m, t), HdlrBox(t), MinfBox(m, t) >>
<1>8. AtMost(Row(r), 44 + 64 + (64 + stbl))
  BY <1>5, <1>6, <1>7, MostRow3
<1>9. MdiaBox(m, t) = Measured("mdia", 0, r)
  BY DEF MdiaBox
<1> HIDE DEF r
<1>10. 0 \in Nat /\ 8 + 0 + (44 + 64 + (64 + stbl)) = 261 + x
  BY <1>2
<1>11. AtMost(MdiaBox(m, t), 8 + 0 + (44 + 64 + (64 + stbl)))
  BY <1>8, <1>9, <1>10, MostMeasured
<1>12. AtMost(MdiaBox(m, t), 261 + x)
  BY <1>10, <1>11
<1>13. 261 + x = 261 + EntryEstimate(t) + TablesEstimate(t)
  BY <1>1 DEF x
<1> QED BY <1>1, <1>12, <1>13

LEMMA MostPrivate ==
    ASSUME NEW m, m.atoms = << >>, NEW parent, NEW id
    PROVE  AtMost(Private(m, parent, id), 0)
<1> DEFINE r == [i \in 1..Len(m.atoms) |->
                   LET a == m.atoms[i]
                   IN  Optional(a.parent = parent /\ a.id = id, Announced("priv", a.size, a.size - 8))]
<1>1. Len(m.atoms) = 0
  OBVIOUS
<1>2. r = << >>
  BY <1>1
<1>3. Private(m, parent, id) = Row(r)
  BY DEF Private
<1> HIDE DEF r
<1> QED BY <1>2, <1>3, MostNone

(* 'trak' is estimated with at least 43 bytes to spare.                     *)
LEMMA MostTrak ==
    ASSUME NEW m \in Movie, ~m.frag, m.atoms = << >>,
           NEW t \in Track, CountedTrack(t), sampleNum(t) > 0, SizesTell(t)
    PROVE  TrakEstimate(t) \in Nat /\ AtMost(TrakBox(m, t), TrakEstimate(t) - 43)
<1> DEFINE n == Len(t.edits)
           x == EntryEstimate(t)
           y == TablesEstimate(t)
<1>1. x \in Nat /\ y \in Nat /\ AtMost(MdiaBox(m, t), 261 + x + y)
  BY MostMdia
<1>2. n \in Nat
  BY TrackLens
<1>3. TrakEstimate(t) = 460 + 12 * n + x + y
  <2> DEFINE a == 8 * sampleNum(t)
             b == 8 * Len(t.cts)
             c == 4 * Len(t.sync)
             d == 12 * Len(t.chunks)
             e == 4 * (IF Len(t.sizes) = 1 THEN 0 ELSE sampleNum(t))
             f == 8 * Len(t.chunks)
  <2>1. a \in Nat /\ b \in Nat /\ c \in Nat /\ d \in Nat /\ e \in Nat /\ f \in Nat
    <3>1. \A k \in Nat : 8 * k \in Nat /\ 4 * k \in Nat /\ 12 * k \in Nat
      OBVIOUS
    <3> QED BY <3>1, TrackLens
  <2>2. y = (16 + a) + (16 + b) + (16 + c) + (16 + d) + (20 + e) + (16 + f)
    BY DEF TablesEstimate
  <2>3. TrakEstimate(t) = 120 + 8 + 104 + (12 + 12 * (1 + n)) + 8 + 44 + 64 + 8 + 20 + 36 + 8
                          + (16 + a) + (16 + b) + (16 + c) + (16 + d) + (20 + e) + (16 + f) + 16 + x
    BY DEF TrakEstimate
  <2> HIDE DEF a, b, c, d, e, f, n, x, y
  <2> QED BY <1>1, <1>2, <2>1, <2>2, <2>3
<1> HIDE DEF n, x, y
<1>4. AtMost(TkhdBox(m, t), 104)
  <2>1. CASE TkhdLong(m, t)
    BY <2>1 DEF TkhdBox, Announced, AtMost, FullHeader
  <2>2. CASE ~TkhdLong(m, t)
    BY <2>2 DEF TkhdBox, Announced, AtMost, FullHeader
  <2> QED BY <2>1, <2>2
<1>5. t.type # "hint"
  BY DEF CountedTrack
<1>6. AtMost(Optional(t.type = "hint", Row(<< TrefBox(t), UdtaTrackBox(t) >>)), 0)
  <2>1. Optional(t.type = "hint", Row(<< TrefBox(t), UdtaTrackBox(t) >>)) = Row(<< >>)
    BY <1>5 DEF Optional
  <2> QED BY <2>1, MostNone
<1>7. AtMost(Optional(RefersToBase(t), TrefBox(t)), 20)
  <2> DEFINE h == Optional(t.type = "hint", Measured("hint", 4, << >>))
  <2>1. AtMost(h, 0)
    <3>1. h = Row(<< >>)
      BY <1>5 DEF Optional
    <3> QED BY <3>1, MostNone
  <2>2. 4 \in Nat /\ 0 \in Nat /\ 20 \in Nat
    OBVIOUS
  <2>3. AtMost(Measured("vdep", 4, << >>), 8 + 4 + 0)
    BY <2>2, MostNone, MostMeasured
  <2> DEFINE r == << h, Measured("vdep", 4, << >>) >>
  <2>4. TrefBox(t) = Measured("tref", 0, r)
    BY DEF TrefBox
  <2>5. AtMost(Row(r), 0 + (8 + 4 + 0))
    <3> HIDE DEF h
    <3> QED BY <2>1, <2>3, MostRow2
  <2> HIDE DEF r
  <2>6. AtMost(TrefBox(t), 8 + 0 + (0 + (8 + 4 + 0)))
    BY <2>2, <2>4, <2>5, MostMeasured
  <2>7. 8 + 0 + (0 + (8 + 4 + 0)) = 20
    OBVIOUS
  <2> QED BY <2>2, <2>6, <2>7, MostOptional
<1>8. AtMost(Optional(t.edits # << >>, EdtsBox(t)), 24 + 12 * n)
  <2>1. ~t.elstLong
    BY DEF CountedTrack
  <2> DEFINE body == FullHeader + 4 + 12 * n
  <2>2. ElstBox(t) = Measured("elst", body, << >>)
    BY <2>1 DEF ElstBox, n
  <2>3. body \in Nat /\ 0 \in Nat /\ 8 + 0 + (8 + body + 0) = 24 + 12 * n /\ 24 + 12 * n \in Nat
    BY <1>2 DEF FullHeader
  <2> HIDE DEF body
  <2>4. AtMost(ElstBox(t), 8 + body + 0)
    BY <2>2, <2>3, MostNone, MostMeasured
  <2>5. AtMost(Row(<< ElstBox(t) >>), 8 + body + 0)
    BY <2>4, MostRow1
  <2>6. AtMost(EdtsBox(t), 8 + 0 + (8 + body + 0))
    BY <2>3, <2>5, MostMeasured DEF EdtsBox
  <2>7. AtMost(EdtsBox(t), 24 + 12 * n)
    BY <2>3, <2>6
  <2> QED BY <2>3, <2>7, MostOptional
<1>9. AtMost(Private(m, "trak", t.id), 0)
  BY MostPrivate
<1> DEFINE r == << TkhdBox(m, t),
                   Optional(t.type = "hint", Row(<< TrefBox(t), UdtaTrackBox(t) >>)),
                   Optional(RefersToBase(t), TrefBox(t)),
                   Optional(t.edits # << >>, EdtsBox(t)),
                   MdiaBox(m, t), Private(m, "trak", t.id) >>
           most == 104 + 0 + 20 + (24 + 12 * n) + (261 + x + y) + 0
<1>10. AtMost(Row(r), most)
  BY <1>1, <1>4, <1>6, <1>7, <1>8, <1>9, MostRow6
<1>11. TrakBox(m, t) = Measured("trak", 0, r)
  BY DEF TrakBox
<1> HIDE DEF r
<1>12. AtMost(TrakBox(m, t), 8 + 0 + most)
  <2>1. 0 \in Nat
    OBVIOUS
  <2> HIDE DEF most
  <2> QED BY <1>10, <1>11, <2>1, MostMeasured
<1>13. 8 + 0 + most = TrakEstimate(t) - 43 /\ TrakEstimate(t) \in Nat
  BY <1>1, <1>2, <1>3
<1> QED BY <1>12, <1>13

(* The estimate adds up over the tracks that are set up.                    *)
Estimates(ts) == [i \in 1..Len(ts) |-> TrakEstimate(ts[i])]

EstimateOf(ts, k) == SumOver(Estimates(ts), 1, k)

IodsEstimate == IF movie.iods /\ Filled(tracks) > 0 THEN IodsBox(tracks).size ELSE 0

BeforeMoov == FtypReturned(movie) + EstimateOf(tracks, Len(tracks)) + PdinOf.size + movie.bloc

EstimateIs ==
    /\ phase \in {"setup", "moov", "done"} => tracks # << >>
    /\ phase # "init segment" => \A i \in 1..Len(tracks) : SizesTell(tracks[i])
    /\ ~movie.frag /\ phase = "setup" =>
         movie.est = FtypReturned(movie) + EstimateOf(tracks, next - 1)
    /\ ~movie.frag /\ phase = "moov" => movie.est = BeforeMoov
    /\ ~movie.frag /\ phase = "done" =>
         movie.est = BeforeMoov + MvhdBox(movie).size + movie.ainf + IodsEstimate

LEMMA EstimatesType ==
    ASSUME NEW ts \in Seq(Track)
    PROVE  /\ Len(ts) \in Nat
           /\ \A i \in 1..Len(ts) : /\ Estimates(ts)[i] = TrakEstimate(ts[i])
                                    /\ TrakEstimate(ts[i]) \in Nat /\ TrakEstimate(ts[i]) >= 43
           /\ \A k \in 0..Len(ts) : SumOver(Estimates(ts), 1, k) \in Nat
<1>1. Len(ts) \in Nat /\ \A i \in 1..Len(ts) : ts[i] \in Track
  BY LenType
<1>2. \A i \in 1..Len(ts) : Estimates(ts)[i] = TrakEstimate(ts[i])
  BY DEF Estimates
<1>3. \A i \in 1..Len(ts) : TrakEstimate(ts[i]) \in Nat /\ TrakEstimate(ts[i]) >= 43
  BY <1>1, TrakEstimateType
<1>4. ASSUME NEW k \in 0..Len(ts) PROVE SumOver(Estimates(ts), 1, k) \in Nat
  <2>1. \A i \in 1..k : Estimates(ts)[i] \in Nat
    <3>1. \A i \in 1..k : i \in 1..Len(ts)
      BY <1>1
    <3> QED BY <1>2, <1>3, <3>1
  <2>2. 1 \in Int /\ k \in Int
    OBVIOUS
  <2> QED BY <2>1, <2>2, SumNat
<1> QED BY <1>1, <1>2, <1>3, <1>4

(* A stream says how many samples its sizes are of.                         *)
LEMMA StreamSizes == ASSUME NEW s \in Streams PROVE SizesTell(s)
<1>1. IsStream(s)
  BY SetupAssumption
<1>2. CASE IsIntaken(s)
  BY <1>2 DEF IsIntaken, SizesTell
<1>3. CASE sampleNum(s) = 0
  BY <1>3 DEF SizesTell
<1> QED BY <1>1, <1>2, <1>3 DEF IsStream

LEMMA SizesKept == ASSUME NEW t, NEW u, Kept(t, u), SizesTell(t) PROVE SizesTell(u)
BY DEF Kept, SizesTell, sampleNum

LEMMA EstimateNext ==
    ASSUME SetupTyped, EstimateIs, SetupTrack, ~movie.frag
    PROVE  movie'.est = FtypReturned(movie') + EstimateOf(tracks', next' - 1)
<1>1. PICK u : u = SetUp(tracks[next], next)
  OBVIOUS
<1>2. /\ next \in 1..Len(tracks) /\ Len(tracks) \in Nat /\ tracks' \in Seq(Track)
      /\ Len(tracks') = Len(tracks) /\ tracks'[next] = u
      /\ \A i \in 1..Len(tracks) : i # next => tracks'[i] = tracks[i]
  BY <1>1, TrackSetUp
<1>3. tracks \in Seq(Track)
  BY DEF SetupTyped
<1>4. movie'.est = movie.est + TrakEstimate(u)
  BY <1>1, MovieSetUp
<1>5. next' = next + 1 /\ phase = "setup"
  BY DEF SetupTrack
<1>6. movie.est = FtypReturned(movie) + EstimateOf(tracks, next - 1)
  BY <1>5 DEF EstimateIs
<1>7. FtypReturned(movie') = FtypReturned(movie) /\ FtypReturned(movie) \in Nat
  <2>1. SameSettings(movie, movie')
    BY SettingsOfSetUp
  <2>2. movie.brands \in Nat /\ movie.commas \in Nat
    BY DEF SetupTyped, Movie
  <2> QED BY <2>1, <2>2 DEF SameSettings, FtypReturned
<1> DEFINE v == Estimates(tracks)
           w == Estimates(tracks')
<1>8. SumOver(w, 1, next) = SumOver(w, 1, next - 1) + w[next]
  BY <1>2, SumNext
<1>9. w[next] = TrakEstimate(u)
  BY <1>2, EstimatesType
<1>10. SumOver(w, 1, next - 1) = SumOver(v, 1, next - 1)
  <2>1. ASSUME NEW i \in 1..(next - 1) PROVE v[i] = w[i]
    <3>1. i \in 1..Len(tracks) /\ i \in 1..Len(tracks') /\ i # next
      BY <1>2
    <3>2. v[i] = TrakEstimate(tracks[i]) /\ w[i] = TrakEstimate(tracks'[i])
      BY <1>2, <1>3, <3>1, EstimatesType
    <3> QED BY <1>2, <3>1, <3>2
  <2>2. 1 \in Int /\ next - 1 \in Int
    BY <1>2
  <2> HIDE DEF v, w
  <2> QED BY <2>1, <2>2, SumSame
<1>11. SumOver(v, 1, next - 1) \in Nat /\ TrakEstimate(u) \in Nat
  <2>1. next - 1 \in 0..Len(tracks)
    BY <1>2
  <2>2. u \in Track
    BY <1>2
  <2> QED BY <1>3, <2>1, <2>2, EstimatesType, TrakEstimateType
<1>12. EstimateOf(tracks, next - 1) = SumOver(v, 1, next - 1)
  BY DEF EstimateOf
<1>13. EstimateOf(tracks', next' - 1) = SumOver(w, 1, next)
  <2>1. next' - 1 = next
    BY <1>2, <1>5
  <2> QED BY <2>1 DEF EstimateOf
<1> HIDE DEF v, w
<1> QED BY <1>4, <1>6, <1>7, <1>8, <1>9, <1>10, <1>11, <1>12, <1>13

LEMMA EstimateStays == SetupTyped /\ EstimateIs /\ [SetupNext]_setupVars => EstimateIs'
<1> SUFFICES ASSUME SetupTyped, EstimateIs, [SetupNext]_setupVars PROVE EstimateIs'
  OBVIOUS
<1>1. movie \in Movie /\ tracks \in Seq(Track) /\ Len(tracks) \in Nat
  BY LenType DEF SetupTyped
<1>2. ASSUME NEW s \in Streams, NEW want \in WantedIds, NEW entry \in SampleEntries,
             AddTrack(s, want, entry)
      PROVE  EstimateIs'
  <2>1. PICK u : u = Added(s, want, entry)
    OBVIOUS
  <2>2. /\ Len(tracks') = Len(tracks) + 1 /\ tracks'[Len(tracks) + 1] = u
        /\ \A i \in 1..Len(tracks) : tracks'[i] = tracks[i]
    BY <1>2, <2>1, TrackAdded
  <2>3. phase = "adding" /\ phase' = "adding"
    BY <1>2 DEF AddTrack
  <2>4. SizesTell(u)
    <3>1. u.dts = s.dts /\ u.sizes = s.sizes
      BY <2>1, AddedIs
    <3> QED BY <3>1, StreamSizes DEF SizesTell, sampleNum
  <2>5. \A i \in 1..Len(tracks') : SizesTell(tracks'[i])
    BY <1>1, <2>2, <2>3, <2>4 DEF EstimateIs
  <2> QED BY <2>3, <2>5 DEF EstimateIs
<1>3. CASE OutputHdrs
  <2>1. /\ phase = "adding" /\ phase' = "setup" /\ tracks # << >> /\ tracks' = tracks
        /\ next' = next /\ movie' = [movie EXCEPT !.est = FtypReturned(movie)]
    BY <1>3 DEF OutputHdrs
  <2>2. FtypReturned(movie) \in Nat
    <3>1. movie.brands \in Nat /\ movie.commas \in Nat
      BY <1>1 DEF Movie
    <3> QED BY <3>1 DEF FtypReturned
  <2>3. movie'.est = FtypReturned(movie)
    BY <1>1, <2>1, <2>2, EstimateKept
  <2>4. FtypReturned(movie') = FtypReturned(movie)
    BY <1>1, <2>1, SettingsOfEstimate DEF SameSettings, FtypReturned
  <2>5. EstimateOf(tracks, next - 1) = 0
    <3>1. next = 1
      BY <2>1 DEF SetupTyped
    <3>2. SumOver(Estimates(tracks), 1, 0) = 0
      BY SumEmpty
    <3> QED BY <3>1, <3>2 DEF EstimateOf
  <2>6. movie'.est = FtypReturned(movie') + EstimateOf(tracks', next' - 1)
    BY <2>1, <2>2, <2>3, <2>4, <2>5
  <2> QED BY <2>1, <2>6 DEF EstimateIs
<1>4. CASE SetupTrack
  <2>1. PICK u : u = SetUp(tracks[next], next)
    OBVIOUS
  <2>2. /\ next \in 1..Len(tracks) /\ Kept(tracks[next], u)
        /\ Len(tracks') = Len(tracks) /\ tracks'[next] = u
        /\ \A i \in 1..Len(tracks) : i # next => tracks'[i] = tracks[i]
    BY <1>4, <2>1, TrackSetUp
  <2>3. phase = "setup" /\ phase' \in {"setup", "undefined"}
    BY <1>4 DEF SetupTrack
  <2>4. movie'.frag = movie.frag
    BY <1>4, SettingsOfSetUp DEF SameSettings
  <2>5. \A i \in 1..Len(tracks') : SizesTell(tracks'[i])
    <3>1. SizesTell(u)
      BY <2>2, <2>3, SizesKept DEF EstimateIs
    <3> QED BY <2>2, <2>3, <3>1 DEF EstimateIs
  <2>6. tracks' # << >>
    BY <1>1, <2>2
  <2>7. ~movie.frag => movie'.est = FtypReturned(movie') + EstimateOf(tracks', next' - 1)
    BY <1>4, EstimateNext
  <2> QED BY <2>3, <2>4, <2>5, <2>6, <2>7 DEF EstimateIs
<1>5. CASE WritePdin
  <2>1. PICK e : movie' = [movie EXCEPT !.est = e]
    BY <1>5 DEF WritePdin
  <2>2. SameSettings(movie, movie') /\ PdinOf' = PdinOf
    BY <1>1, <2>1, SettingsOfEstimate, SameOut
  <2>3. phase = "setup" /\ phase' = "moov" /\ tracks' = tracks /\ next = Len(tracks) + 1
    BY <1>5 DEF WritePdin
  <2>4. movie'.est = movie.est + PdinOf.size + movie.bloc
    BY <1>5, PdinMovie
  <2>5. FtypReturned(movie') = FtypReturned(movie) /\ movie'.bloc = movie.bloc
        /\ movie'.frag = movie.frag
    BY <2>2 DEF SameSettings, FtypReturned
  <2>6. ~movie.frag => movie.est = FtypReturned(movie) + EstimateOf(tracks, Len(tracks))
    <3>1. next - 1 = Len(tracks)
      BY <1>1, <2>3
    <3> QED BY <2>3, <3>1 DEF EstimateIs
  <2>7. ~movie.frag => movie'.est = BeforeMoov'
    BY <2>2, <2>3, <2>4, <2>5, <2>6 DEF BeforeMoov
  <2> QED BY <2>3, <2>5, <2>7 DEF EstimateIs
<1>6. CASE WriteMoov
  <2>1. movie' = Written /\ tracks' = tracks /\ phase = "moov" /\ phase' = "done"
    BY <1>6 DEF WriteMoov, Written
  <2>2. SameSettings(movie, movie') /\ movie'.duration = movie.duration /\ PdinOf' = PdinOf
    BY <1>1, <2>1, SettingsOfWritten, SameOut
  <2>3. movie'.est = EstimateInMoov
    BY <2>1, WrittenIs
  <2>4. /\ FtypReturned(movie') = FtypReturned(movie) /\ movie'.bloc = movie.bloc
        /\ movie'.frag = movie.frag /\ movie'.ainf = movie.ainf /\ movie'.iods = movie.iods
        /\ MvhdBox(movie') = MvhdBox(movie)
    BY <2>2 DEF SameSettings, FtypReturned, MvhdBox, MvhdLong
  <2>5. BeforeMoov' = BeforeMoov /\ IodsEstimate' = IodsEstimate
    BY <2>1, <2>2, <2>4 DEF BeforeMoov, IodsEstimate
  <2>6. EstimateInMoov = movie.est + MvhdBox(movie).size + movie.ainf + IodsEstimate
    BY DEF EstimateInMoov, IodsEstimate
  <2>7. ~movie.frag => movie.est = BeforeMoov
    BY <2>1 DEF EstimateIs
  <2>8. ~movie'.frag =>
          movie'.est = BeforeMoov' + MvhdBox(movie').size + movie'.ainf + IodsEstimate'
    BY <2>3, <2>4, <2>5, <2>6, <2>7
  <2> QED BY <2>1, <2>8 DEF EstimateIs
<1>7. CASE InitSegment
  BY <1>7 DEF InitSegment, EstimateIs
<1>8. CASE SetupFails
  BY <1>8 DEF SetupFails, EstimateIs
<1>9. CASE RefuseTrack \/ Finished \/ UNCHANGED setupVars
  <2>1. movie' = movie /\ tracks' = tracks /\ phase' = phase /\ next' = next
    BY <1>9 DEF RefuseTrack, Finished, setupVars
  <2>2. PdinOf' = PdinOf /\ BeforeMoov' = BeforeMoov /\ IodsEstimate' = IodsEstimate
    BY <2>1 DEF PdinOf, BeforeMoov, IodsEstimate
  <2> QED BY <2>1, <2>2 DEF EstimateIs
<1> QED BY <1>2, <1>3, <1>4, <1>5, <1>6, <1>7, <1>8, <1>9 DEF SetupNext

LEMMA EstimateHolds == SetupSpec => []EstimateIs
<1>1. SetupInit => EstimateIs
  <2> SUFFICES ASSUME SetupInit PROVE EstimateIs
    OBVIOUS
  <2>1. Len(tracks) = 0 /\ phase = "adding"
    BY DEF SetupInit
  <2> QED BY <2>1 DEF EstimateIs
<1> QED BY <1>1, SetupTypes, EstimateStays, PTL DEF SetupSpec

(* The first entry smaller by 8 makes the sum smaller by 8.                 *)
LEMMA SumFirstLess ==
    ASSUME NEW v, NEW w, NEW j \in Nat, 1 \in 1..j,
           \A k \in 1..j : v[k] \in Nat /\ w[k] \in Nat /\ (k # 1 => w[k] = v[k]),
           w[1] = v[1] + (0 - 8)
    PROVE  SumOver(w, 1, j) = SumOver(v, 1, j) + (0 - 8)
<1>1. 1 \in Int /\ j \in Int /\ 0 - 8 \in Int
  OBVIOUS
<1>2. /\ \A k \in 1..j : v[k] \in Nat /\ w[k] \in Nat
      /\ \A k \in 1..j : k # 1 => w[k] = v[k]
  OBVIOUS
<1> QED BY <1>1, <1>2, SumOneChanged

(* The boxes of all tracks: 8 bytes are left for the header of 'moov'.      *)
LEMMA MostTraks ==
    ASSUME NEW m \in Movie, ~m.frag, m.atoms = << >>, NEW ts \in Seq(Track), ts # << >>,
           \A i \in 1..Len(ts) : CountedTrack(ts[i]) /\ SizesTell(ts[i])
    PROVE  AtMost(Traks(m, ts), EstimateOf(ts, Len(ts)) - 8)
<1> DEFINE n == Len(ts)
           w == Estimates(ts)
           x == [i \in 1..n |-> IF i = 1 THEN w[1] - 8 ELSE w[i]]
           r == [i \in 1..n |-> Optional(sampleNum(ts[i]) > 0, TrakBox(m, ts[i]))]
           v == [i \in 1..n |-> r[i].bytes]
<1>1. /\ n \in Nat /\ n > 0 /\ \A i \in 1..n : ts[i] \in Track
      /\ \A i \in 1..n : w[i] = TrakEstimate(ts[i]) /\ w[i] \in Nat /\ w[i] >= 43
  BY EstimatesType
<1>2. ASSUME NEW i \in 1..n
      PROVE  r[i].bytes \in Nat /\ r[i].bytes <= w[i] - 8
  <2>1. ts[i] \in Track /\ w[i] = TrakEstimate(ts[i]) /\ w[i] \in Nat /\ w[i] >= 43
    BY <1>1
  <2>2. r[i] = Optional(sampleNum(ts[i]) > 0, TrakBox(m, ts[i]))
    OBVIOUS
  <2> HIDE DEF r, w
  <2>3. CASE sampleNum(ts[i]) > 0
    <3>1. AtMost(TrakBox(m, ts[i]), w[i] - 43)
      BY <2>1, <2>3, MostTrak
    <3>2. r[i] = TrakBox(m, ts[i])
      BY <2>2, <2>3 DEF Optional
    <3> QED BY <2>1, <3>1, <3>2 DEF AtMost
  <2>4. CASE ~(sampleNum(ts[i]) > 0)
    <3>1. r[i].bytes = 0
      BY <2>2, <2>4, RowEmpty DEF Optional
    <3> QED BY <2>1, <3>1
  <2> QED BY <2>3, <2>4
<1>3. Traks(m, ts) = Row(r) /\ Len(r) = n /\ \A i \in 1..n : v[i] = r[i].bytes
  BY <1>1 DEF Traks
<1>4. /\ 1 \in 1..n /\ x[1] = w[1] + (0 - 8)
      /\ \A i \in 1..n : x[i] \in Nat /\ (i # 1 => x[i] = w[i]) /\ w[i] - 8 <= x[i]
  <2> HIDE DEF w, n
  <2> QED BY <1>1
<1> HIDE DEF r, v, w, x, n
<1>5. Row(r).bytes = SumOver(v, 1, n)
  BY <1>1, <1>3, RowIs
<1>6. \A i \in 1..n : v[i] \in Nat /\ x[i] \in Nat /\ v[i] <= x[i]
  <2> SUFFICES ASSUME NEW i \in 1..n PROVE v[i] \in Nat /\ x[i] \in Nat /\ v[i] <= x[i]
    OBVIOUS
  <2>1. v[i] \in Nat /\ v[i] <= w[i] - 8
    BY <1>2, <1>3
  <2>2. w[i] \in Nat /\ x[i] \in Nat /\ w[i] - 8 <= x[i]
    BY <1>1, <1>4
  <2> QED BY <2>1, <2>2
<1>7. SumOver(v, 1, n) <= SumOver(x, 1, n)
  BY <1>1, <1>6, SumAtMost
<1>8. SumOver(x, 1, n) = SumOver(w, 1, n) + (0 - 8)
  <2>1. \A i \in 1..n : w[i] \in Nat /\ x[i] \in Nat /\ (i # 1 => x[i] = w[i])
    BY <1>1, <1>4
  <2> QED BY ONLY <1>1, <1>4, <2>1, SumFirstLess
<1>9. SumOver(v, 1, n) \in Nat /\ SumOver(x, 1, n) \in Nat /\ SumOver(w, 1, n) \in Int
  <2>1. SumOver(v, 1, n) \in Nat /\ SumOver(x, 1, n) \in Nat
    BY <1>1, <1>6, SumNat
  <2>2. SumOver(w, 1, n) \in Nat
    BY <1>1, SumNat
  <2> QED BY <2>1, <2>2
<1>10. EstimateOf(ts, n) = SumOver(w, 1, n)
  BY DEF EstimateOf, w
<1>11. AtMost(Row(r), EstimateOf(ts, n) - 8)
  BY <1>5, <1>7, <1>8, <1>9, <1>10 DEF AtMost
<1> QED BY <1>3, <1>11 DEF n

LEMMA MostMoov ==
    ASSUME NEW m \in Movie, ~m.frag, m.atoms = << >>, m.meta.xml = 0, m.udta = << >>, m.free = 0,
           NEW ts \in Seq(Track), ts # << >>,
           \A i \in 1..Len(ts) : CountedTrack(ts[i]) /\ SizesTell(ts[i]),
           NEW iods, iods = IF m.iods /\ Filled(ts) > 0 THEN IodsBox(ts).size ELSE 0
    PROVE  AtMost(MoovBox(m, ts), MvhdBox(m).size + m.ainf + iods + EstimateOf(ts, Len(ts)))
<1> DEFINE v == MvhdBox(m).size
           e == EstimateOf(ts, Len(ts))
<1>1. m.ainf \in Nat
  BY DEF Movie
<1>2. AtMost(MvhdBox(m), v) /\ v \in Nat
  <2>1. CASE MvhdLong(m)
    BY <2>1 DEF MvhdBox, Announced, AtMost, FullHeader
  <2>2. CASE ~MvhdLong(m)
    BY <2>2 DEF MvhdBox, Announced, AtMost, FullHeader
  <2> QED BY <2>1, <2>2
<1>3. AtMost(Traks(m, ts), e - 8)
  BY MostTraks
<1>4. e \in Nat
  <2>1. Len(ts) \in 0..Len(ts)
    BY LenType
  <2> QED BY <2>1, EstimatesType DEF EstimateOf
<1> DEFINE a == Optional(m.ainf > 0, Announced("ainf", m.ainf, m.ainf - 8))
           b == Optional(m.iods /\ Filled(ts) > 0, IodsBox(ts))
           c == Optional(m.meta.xml > 0, MetaBox(m.meta))
<1>5. AtMost(a, m.ainf)
  <2>1. m.ainf - 8 \in Int /\ 8 + (m.ainf - 8) = m.ainf
    BY <1>1
  <2>2. AtMost(Announced("ainf", m.ainf, m.ainf - 8), m.ainf)
    BY <1>1, <2>1, MostAnnounced
  <2> QED BY <1>1, <2>2, MostOptional
<1>6. AtMost(b, iods) /\ iods \in Nat
  <2>1. Filled(ts) \in Nat
    BY LenType, FilledType
  <2>2. AtMost(IodsBox(ts), IodsBox(ts).size) /\ IodsBox(ts).size \in Nat
    BY <2>1 DEF IodsBox, Announced, AtMost, FullHeader
  <2>3. CASE m.iods /\ Filled(ts) > 0
    BY <2>2, <2>3 DEF Optional
  <2>4. CASE ~(m.iods /\ Filled(ts) > 0)
    <3>1. b = Row(<< >>) /\ iods = 0
      BY <2>4 DEF Optional
    <3> QED BY <3>1, MostNone
  <2> QED BY <2>3, <2>4
<1>7. AtMost(c, 0)
  <2>1. c = Row(<< >>)
    BY DEF Optional
  <2> QED BY <2>1, MostNone
<1> HIDE DEF v, e, a, b, c
<1> DEFINE r == << MvhdBox(m), a, b, c, Traks(m, ts) >>
           most == v + m.ainf + iods + 0 + (e - 8)
<1>8. AtMost(Row(r), most)
  BY <1>2, <1>3, <1>5, <1>6, <1>7, MostRow5
<1>9. most \in Nat
  BY <1>8 DEF AtMost
<1> DEFINE p == Optional(ts # << >>, Row(r))
           q == Private(m, "moov", 0)
           f == Optional(m.udta # << >>, UdtaBox(m))
           g == Optional(m.frag, MvexBox(m, ts))
           h == Optional(m.free > 0, Announced("free", 8 + m.free, m.free))
<1>10. AtMost(p, most)
  <2> HIDE DEF r, most
  <2> QED BY <1>8, <1>9, MostOptional
<1>11. AtMost(q, 0)
  BY MostPrivate
<1>12. AtMost(f, 0) /\ AtMost(g, 0) /\ AtMost(h, 0)
  <2>1. f = Row(<< >>) /\ g = Row(<< >>) /\ h = Row(<< >>)
    BY DEF Optional
  <2> QED BY <2>1, MostNone
<1>13. MoovBox(m, ts) = Measured("moov", 0, << p, q, f, g, h >>)
  BY DEF MoovBox, a, b, c
<1> HIDE DEF p, q, f, g, h, most
<1>14. AtMost(Row(<< p, q, f, g, h >>), most + 0 + 0 + 0 + 0)
  BY <1>10, <1>11, <1>12, MostRow5
<1>15. 0 \in Nat
  OBVIOUS
<1>16. AtMost(MoovBox(m, ts), 8 + 0 + (most + 0 + 0 + 0 + 0))
  BY <1>13, <1>14, <1>15, MostMeasured
<1>17. 8 + 0 + (most + 0 + 0 + 0 + 0) = v + m.ainf + iods + e
  <2> DEFINE k == m.ainf
  <2>1. k \in Nat /\ v \in Nat /\ e \in Nat /\ iods \in Nat
    BY <1>1, <1>2, <1>4, <1>6
  <2>2. most = v + k + iods + 0 + (e - 8)
    BY DEF most
  <2> HIDE DEF k
  <2>3. 8 + 0 + (most + 0 + 0 + 0 + 0) = v + k + iods + e
    BY ONLY <2>1, <2>2
  <2> QED BY <2>3 DEF k
<1> QED BY <1>16, <1>17 DEF v, e

(* The choice between stco and co64 rests on a size that is not too small:  *)
(* for any configuration and any tracks of the kind the estimate counts on, *)
(* the bytes in front of the media data, all boxes of 'moov' among them,    *)
(* are no more than estimated (setup_muxer, write_moov_box).                *)
THEOREM EstimateIsEnough == SetupSpec => []EstimateCovers
<1>1. SetupTyped /\ OutIs /\ EstimateIs => EstimateCovers
  <2> SUFFICES ASSUME SetupTyped, OutIs, EstimateIs, phase = "done", Counted
               PROVE  movie.est >= Row(out).bytes
    BY DEF EstimateCovers
  <2>1. movie \in Movie /\ tracks \in Seq(Track) /\ tracks # << >>
    BY DEF SetupTyped, EstimateIs
  <2>2. ~movie.frag /\ movie.meta.xml = 0 /\ movie.atoms = << >>
        /\ movie.udta = << >> /\ movie.free = 0
    BY DEF Counted
  <2>3. \A i \in 1..Len(tracks) : CountedTrack(tracks[i]) /\ SizesTell(tracks[i])
    BY DEF Counted, CountedTrack, EstimateIs
  <2>4. AtMost(FtypBox(movie), FtypReturned(movie))
    <3>1. movie.brands \in Nat /\ movie.commas \in Nat
      BY <2>1 DEF Movie
    <3> QED BY <3>1 DEF FtypBox, FtypReturned, Announced, AtMost
  <2>5. AtMost(PdinOf, PdinOf.size)
    <3>1. CASE movie.pdin
      <4> DEFINE x == Rescale(movie.duration, 1000, movie.timescale)
                 k == IF PdinBaserate(movie, x) >= 2 THEN 3 ELSE 2
      <4>1. k \in Nat
        OBVIOUS
      <4>2. PdinOf = Announced("pdin", 12 + 8 * k, FullHeader + 8 * k)
        BY <3>1 DEF PdinOf, Optional, PdinBox
      <4> HIDE DEF k
      <4> QED BY <4>1, <4>2 DEF Announced, AtMost, FullHeader
    <3>2. CASE ~movie.pdin
      <4>1. PdinOf = Row(<< >>)
        BY <3>2 DEF PdinOf, Optional
      <4> QED BY <4>1, RowEmpty DEF AtMost
    <3> QED BY <3>1, <3>2
  <2>6. AtMost(BlocOf, movie.bloc)
    <3>1. movie.bloc \in Nat
      BY <2>1 DEF Movie
    <3>2. movie.bloc - 8 \in Int /\ 8 + (movie.bloc - 8) = movie.bloc
      BY <3>1
    <3>3. AtMost(Announced("bloc", movie.bloc, movie.bloc - 8), movie.bloc)
      BY <3>1, <3>2, MostAnnounced
    <3> QED BY <3>1, <3>3, MostOptional DEF BlocOf
  <2> DEFINE e == EstimateOf(tracks, Len(tracks))
             v == MvhdBox(movie).size
  <2>7. AtMost(MoovBox(movie, tracks), v + movie.ainf + IodsEstimate + e)
    BY <2>1, <2>2, <2>3, MostMoov DEF IodsEstimate
  <2>8. out = << FtypBox(movie), PdinOf, BlocOf, MoovBox(movie, tracks) >>
    BY DEF OutIs
  <2>9. AtMost(Row(out), FtypReturned(movie) + PdinOf.size + movie.bloc
                         + (v + movie.ainf + IodsEstimate + e))
    BY <2>4, <2>5, <2>6, <2>7, <2>8, MostRow4
  <2>10. movie.est = (FtypReturned(movie) + e + PdinOf.size + movie.bloc)
                     + v + movie.ainf + IodsEstimate
    BY <2>2 DEF EstimateIs, BeforeMoov
  <2>11. /\ FtypReturned(movie) \in Nat /\ PdinOf.size \in Nat /\ movie.bloc \in Nat
         /\ v \in Nat /\ movie.ainf \in Nat /\ IodsEstimate \in Nat /\ e \in Nat
    <3>1. FtypReturned(movie) \in Nat /\ PdinOf.size \in Nat /\ movie.bloc \in Nat
      BY <2>4, <2>5, <2>6 DEF AtMost
    <3>2. v \in Nat
      BY DEF MvhdBox, Announced
    <3>3. movie.ainf \in Nat
      BY <2>1 DEF Movie
    <3>4. IodsEstimate \in Nat
      <4>1. Filled(tracks) \in Nat
        BY <2>1, LenType, FilledType
      <4> QED BY <4>1 DEF IodsEstimate, IodsBox, Announced
    <3>5. e \in Nat
      <4>1. Len(tracks) \in 0..Len(tracks)
        BY <2>1, LenType
      <4> QED BY <2>1, <4>1, EstimatesType DEF EstimateOf
    <3> QED BY <3>1, <3>2, <3>3, <3>4, <3>5
  <2> HIDE DEF e, v
  <2> QED BY <2>9, <2>10, <2>11 DEF AtMost
<1> QED BY <1>1, SetupTypes, OutHolds, EstimateHolds, PTL
=============================================================================
