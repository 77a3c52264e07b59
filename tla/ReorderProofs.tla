--------------------------- MODULE ReorderProofs ---------------------------
(***************************************************************************)
(* The reordering buffer for every window size, depth, POC set and stream  *)
(* length: first its bounds and offsets, then the order it shows access    *)
(* units in, and last, which overrun of its arrays is possible at all.     *)
(*                                                                         *)
(* Bounds and offsets are about one index: an AU leaves the window at      *)
(* index k; the docs above it in the window are those not yet displayed,   *)
(* so docs[k] <= poc_out_next + k, and reorder_min >= k.                   *)
(***************************************************************************)
EXTENDS Reorder, TLAPS, SequenceTheorems, FiniteSetTheorems

(* The inductive invariant, part by part, as predicates of a window ds of n *)
(* docs, of the next position, of reorder_min rm, of the map m of the total *)
(* docs fed so far and of the size of its allocated sections.               *)
Ordered(ds, n) == \A i, j \in 0..(n - 1) : i < j => ds[i] < ds[j]

Unshown(ds, n, m) == \A i \in 0..(n - 1) : m[ds[i]] = -1

DocsBounded(ds, n, next) == \A i \in 0..(n - 1) : ds[i] <= next + i

(* Beyond the largest index ever output nothing is missing.                 *)
TailWhole(ds, n, next, rm) ==
    \A i \in 0..(n - 1) : i >= rm => ds[i] = next + i

ShownOf(m, total) == {d \in 0..(total - 1) : m[d] >= 0}

NeverEarly(m, total, rm) == \A d \in ShownOf(m, total) : rm + m[d] - d >= 0

SomeTight(m, total, rm, next) ==
    IF next = 0 THEN rm = 0
                ELSE \E d \in ShownOf(m, total) : rm + m[d] - d = 0

OnePerPosition(m, total, next) ==
    /\ \A d \in ShownOf(m, total) : m[d] < next
    /\ \A p \in 0..(next - 1) : \E d \in ShownOf(m, total) : m[d] = p
    /\ \A d, e \in ShownOf(m, total) : m[d] = m[e] => d = e

(* Docs past the allocated sections are all in the window, at its end.      *)
MapCovers(ds, n, m, total, size) ==
    /\ \A d \in ShownOf(m, total) : d < size
    /\ size < total =>
         /\ total - size <= n
         /\ \A i \in 0..(n - 1) : ds[i] >= size <=> i >= n - (total - size)

WindowInv(ds, n, next, rm, m, total, size) ==
    /\ n + next = total
    /\ Ordered(ds, n)
    /\ Unshown(ds, n, m)
    /\ DocsBounded(ds, n, next)
    /\ TailWhole(ds, n, next, rm)
    /\ NeverEarly(m, total, rm)
    /\ SomeTight(m, total, rm, next)
    /\ OnePerPosition(m, total, next)
    /\ MapCovers(ds, n, m, total, size)

(* A sequence start waits for its flush only while the stream may go on.    *)
RoomForPending == pc = "flush" /\ pending # EndOfStream => docNext < MaxAu

IInv ==
    /\ TypeOK
    /\ WindowBelowDepth
    /\ RoomForPending
    /\ WindowInv(docs, dpCnt, pocOutNext, reorderMin, pocOut, docNext, mapSize)
-----------------------------------------------------------------------------
(* Appending the next doc to the window keeps the invariant's parts.        *)
LEMMA AppendKeeps ==
    ASSUME NEW n \in Nat, NEW total \in Nat, NEW next \in Nat, NEW rm \in Nat,
           NEW size \in Nat,
           NEW ds \in [0..(n - 1) -> 0..(total - 1)],
           NEW m \in [0..(total - 1) -> {-1} \cup Nat],
           WindowInv(ds, n, next, rm, m, total, size)
    PROVE  WindowInv(Append0(ds, n, total), n + 1, next, rm,
                     Append0(m, total, -1), total + 1, size)
<1> DEFINE es == Append0(ds, n, total)
           w  == Append0(m, total, -1)
<1>1. /\ \A i \in 0..(n - 1) : es[i] = ds[i]
      /\ es[n] = total
      /\ \A i \in 0..((n + 1) - 1) : i \in 0..(n - 1) \/ i = n
  BY DEF Append0
<1>2. /\ \A d \in 0..(total - 1) : w[d] = m[d]
      /\ w[total] = -1
      /\ \A d \in 0..total : d \in 0..(total - 1) \/ d = total
  BY DEF Append0
<1>3. ShownOf(w, total + 1) = ShownOf(m, total)
  BY <1>2 DEF ShownOf
<1>4. \A d \in ShownOf(m, total) : w[d] = m[d]
  BY <1>2 DEF ShownOf
<1> HIDE DEF es, w
<1>5. (n + 1) + next = total + 1
  BY DEF WindowInv
<1>6. Ordered(es, n + 1)
  BY <1>1 DEF WindowInv, Ordered
<1>7. Unshown(es, n + 1, w)
  BY <1>1, <1>2 DEF WindowInv, Unshown
<1>8. DocsBounded(es, n + 1, next)
  BY <1>1 DEF WindowInv, DocsBounded
<1>9. TailWhole(es, n + 1, next, rm)
  <2>1. TailWhole(ds, n, next, rm) /\ total = next + n
    BY DEF WindowInv
  <2> QED BY <1>1, <2>1 DEF TailWhole
<1>10. NeverEarly(w, total + 1, rm)
  BY <1>3, <1>4 DEF WindowInv, NeverEarly
<1>11. SomeTight(w, total + 1, rm, next)
  BY <1>3, <1>4 DEF WindowInv, SomeTight
<1>12. OnePerPosition(w, total + 1, next)
  BY <1>3, <1>4 DEF WindowInv, OnePerPosition
<1>13. MapCovers(es, n + 1, w, total + 1, size)
  <2>1. \A d \in ShownOf(w, total + 1) : d < size
    BY <1>3 DEF WindowInv, MapCovers
  <2>2. ASSUME size < total + 1
        PROVE  /\ (total + 1) - size <= n + 1
               /\ \A i \in 0..n : es[i] >= size <=> i >= (n + 1) - ((total + 1) - size)
    BY <1>1, <2>2 DEF WindowInv, MapCovers
  <2> QED BY <2>1, <2>2 DEF MapCovers
<1> QED
  BY <1>5, <1>6, <1>7, <1>8, <1>9, <1>10, <1>11, <1>12, <1>13 DEF WindowInv, es, w

(* Outputting index k of the window keeps them, reorder_min taking the      *)
(* larger of its value and k, and one section being allocated if ds[k] lies *)
(* past the map.                                                            *)
LEMMA OutputKeeps ==
    ASSUME NEW n \in 1..DP_CNT_MAX, NEW total \in Nat, NEW next \in Nat,
           NEW rm \in Nat, NEW size \in Nat,
           NEW ds \in [0..(n - 1) -> 0..(total - 1)],
           NEW m \in [0..(total - 1) -> {-1} \cup Nat],
           NEW k \in 0..(n - 1),
           WindowInv(ds, n, next, rm, m, total, size)
    PROVE  WindowInv(RemoveIdx(ds, n, k), n - 1, next + 1,
                     IF rm < k THEN k ELSE rm,
                     [m EXCEPT ![ds[k]] = next], total,
                     IF ds[k] >= size THEN size + SecSize ELSE size)
<1> USE ReorderAssumption
<1> DEFINE es   == RemoveIdx(ds, n, k)
           w    == [m EXCEPT ![ds[k]] = next]
           rm2  == IF rm < k THEN k ELSE rm
           size2 == IF ds[k] >= size THEN size + SecSize ELSE size
<1>1. \A i \in 0..((n - 1) - 1) :
         es[i] = ds[IF i < k THEN i ELSE i + 1]
  BY DEF RemoveIdx
<1>2. /\ w[ds[k]] = next
      /\ \A d \in 0..(total - 1) : d # ds[k] => w[d] = m[d]
  OBVIOUS
<1>3. ShownOf(w, total) = ShownOf(m, total) \cup {ds[k]}
  BY <1>2 DEF ShownOf
<1>4. ds[k] \notin ShownOf(m, total)
  BY DEF ShownOf, WindowInv, Unshown
<1>5. \A d \in ShownOf(m, total) : d \in 0..(total - 1) /\ w[d] = m[d] /\ m[d] \in Nat
  BY <1>2, <1>4 DEF ShownOf
<1>6. rm2 \in Nat /\ rm2 >= rm /\ rm2 >= k
  OBVIOUS
<1>7. ds[k] \in 0..(total - 1) /\ ds[k] <= next + k
  BY DEF WindowInv, DocsBounded
<1> HIDE DEF es, w, rm2
<1>8. (n - 1) + (next + 1) = total
  BY DEF WindowInv
<1>9. Ordered(es, n - 1)
  <2>1. Ordered(ds, n)
    BY DEF WindowInv
  <2>2. ASSUME NEW i \in 0..((n - 1) - 1), NEW j \in 0..((n - 1) - 1), i < j
        PROVE  es[i] < es[j]
    <3> DEFINE x == IF i < k THEN i ELSE i + 1
               y == IF j < k THEN j ELSE j + 1
    <3>1. x \in 0..(n - 1) /\ y \in 0..(n - 1) /\ x < y
      BY <2>2
    <3>2. es[i] = ds[x] /\ es[j] = ds[y]
      BY <1>1
    <3> QED BY <2>1, <3>1, <3>2 DEF Ordered
  <2> QED BY <2>2 DEF Ordered
<1>10. Unshown(es, n - 1, w)
  <2>1. \A i \in 0..(n - 1) : i # k => ds[i] # ds[k]
    BY DEF WindowInv, Ordered
  <2>2. \A i \in 0..(n - 1) : i # k => w[ds[i]] = -1
    BY <1>2, <2>1 DEF WindowInv, Unshown
  <2>3. \A i \in 0..((n - 1) - 1) :
           /\ (IF i < k THEN i ELSE i + 1) \in 0..(n - 1)
           /\ (IF i < k THEN i ELSE i + 1) # k
    OBVIOUS
  <2> QED BY SMTT(30), <1>1, <2>2, <2>3 DEF Unshown
<1>11. DocsBounded(es, n - 1, next + 1)
  <2>1. DocsBounded(ds, n, next)
    BY DEF WindowInv
  <2>2. ASSUME NEW i \in 0..((n - 1) - 1)
        PROVE  es[i] <= (next + 1) + i
    <3>1. CASE i < k
      BY <1>1, <2>1, <3>1 DEF DocsBounded
    <3>2. CASE i >= k
      <4>1. i + 1 \in 0..(n - 1) /\ es[i] = ds[i + 1]
        BY <1>1, <3>2
      <4> QED BY <2>1, <4>1 DEF DocsBounded
    <3> QED BY <3>1, <3>2
  <2> QED BY <2>2 DEF DocsBounded
<1>12. TailWhole(es, n - 1, next + 1, rm2)
  <2>1. TailWhole(ds, n, next, rm)
    BY DEF WindowInv
  <2>2. \A i \in 0..((n - 1) - 1) : i >= rm2 => i >= k /\ i + 1 >= rm /\ i + 1 \in 0..(n - 1)
    BY <1>6
  <2> QED BY <1>1, <2>1, <2>2 DEF TailWhole
<1>13. NeverEarly(w, total, rm2)
  BY SMTT(30), <1>2, <1>3, <1>5, <1>6, <1>7 DEF WindowInv, NeverEarly
<1>14. SomeTight(w, total, rm2, next + 1)
  <2>1. CASE rm < k \/ next = 0
    <3>1. k >= rm
      BY <2>1 DEF WindowInv, SomeTight
    <3>2. ds[k] = next + k
      BY <3>1 DEF WindowInv, TailWhole
    <3>3. rm2 = k
      BY <2>1, <3>1 DEF rm2
    <3> QED BY <1>2, <1>3, <3>2, <3>3 DEF SomeTight
  <2>2. CASE ~(rm < k) /\ next # 0
    BY <1>3, <1>5, <2>2 DEF WindowInv, SomeTight, rm2
  <2> QED BY <2>1, <2>2
<1>15. OnePerPosition(w, total, next + 1)
  <2>1. OnePerPosition(m, total, next)
    BY DEF WindowInv
  <2>2. \A d \in ShownOf(w, total) : w[d] < next + 1
    BY <1>2, <1>3, <1>5, <2>1 DEF OnePerPosition
  <2>3. ASSUME NEW p \in 0..((next + 1) - 1)
        PROVE  \E d \in ShownOf(w, total) : w[d] = p
    <3>1. CASE p = next
      BY <1>2, <1>3, <3>1
    <3>2. CASE p # next
      <4>1. p \in 0..(next - 1)
        BY <3>2
      <4> QED BY <1>3, <1>5, <2>1, <4>1 DEF OnePerPosition
    <3> QED BY <3>1, <3>2
  <2>4. \A d \in ShownOf(m, total) : w[d] < next
    BY <1>5, <2>1 DEF OnePerPosition
  <2>5. ASSUME NEW d \in ShownOf(w, total), NEW e \in ShownOf(w, total), w[d] = w[e]
        PROVE  d = e
    <3>1. CASE d = ds[k] \/ e = ds[k]
      BY <1>2, <1>3, <2>4, <2>5, <3>1
    <3>2. CASE d \in ShownOf(m, total) /\ e \in ShownOf(m, total)
      BY <1>5, <2>1, <2>5, <3>2 DEF OnePerPosition
    <3> QED BY <1>3, <3>1, <3>2
  <2> QED BY <2>2, <2>3, <2>5 DEF OnePerPosition
<1>16. MapCovers(es, n - 1, w, total, size2)
  <2>1. CASE ds[k] >= size
    <3>1. size < total /\ total <= size2 /\ size2 >= size /\ ds[k] < size2
      BY <1>7, <2>1 DEF WindowInv, MapCovers
    <3> QED BY <1>3, <1>5, <3>1 DEF WindowInv, MapCovers
  <2>2. CASE ds[k] < size
    <3>1. size2 = size
      BY <2>2
    <3>2. \A d \in ShownOf(w, total) : d < size
      BY <1>3, <2>2 DEF WindowInv, MapCovers
    <3>3. ASSUME size < total
          PROVE  /\ total - size <= n - 1
                 /\ \A i \in 0..((n - 1) - 1) :
                       es[i] >= size <=> i >= (n - 1) - (total - size)
      <4>1. /\ total - size <= n
            /\ \A i \in 0..(n - 1) : ds[i] >= size <=> i >= n - (total - size)
        BY <3>3 DEF WindowInv, MapCovers
      <4>2. k < n - (total - size)
        BY <2>2, <4>1
      <4>3. ASSUME NEW i \in 0..((n - 1) - 1)
            PROVE  es[i] >= size <=> i >= (n - 1) - (total - size)
        <5>1. CASE i < k
          BY <1>1, <4>1, <4>2, <5>1
        <5>2. CASE i >= k
          <6>1. i + 1 \in 0..(n - 1) /\ es[i] = ds[i + 1]
            BY <1>1, <5>2
          <6> QED BY <4>1, <6>1
        <5> QED BY <5>1, <5>2
      <4> QED BY <4>2, <4>3
    <3> QED BY <3>1, <3>2, <3>3 DEF MapCovers
  <2> QED BY <1>7, <2>1, <2>2
<1> QED
  BY <1>8, <1>9, <1>10, <1>11, <1>12, <1>13, <1>14, <1>15, <1>16
     DEF WindowInv, es, w, rm2
-----------------------------------------------------------------------------
(* Types of the state after an output.                                      *)
WindowType ==
    /\ dpCnt \in 0..DP_CNT_MAX
    /\ docs \in [0..(dpCnt - 1) -> Fed]
    /\ pocs \in [0..(dpCnt - 1) -> Pocs]
    /\ reorderMin \in 0..(DP_CNT_MAX - 1)
    /\ reorderMinReady \in BOOLEAN
    /\ docAtPocMin \in Nat
    /\ pocOutNext \in 0..docNext
    /\ pocOut \in [Fed -> {-1} \cup Nat]
    /\ mapSize \in Nat

WindowInvNow ==
    WindowInv(docs, dpCnt, pocOutNext, reorderMin, pocOut, docNext, mapSize)

(* apoc_update's output, from a typed window that satisfies the invariant.  *)
LEMMA OutputStep ==
    ASSUME TypeOK,
           NEW n \in 1..DP_CNT_MAX, NEW total \in Nat,
           NEW ds \in [0..(n - 1) -> 0..(total - 1)],
           NEW ps \in [0..(n - 1) -> Pocs],
           NEW m \in [0..(total - 1) -> {-1} \cup Nat],
           WindowInv(ds, n, pocOutNext, reorderMin, m, total, mapSize),
           OutputMin(ds, ps, n, m),
           docNext' = total
    PROVE  /\ dpCnt' = n - 1
           /\ WindowType'
           /\ WindowInvNow'
<1> USE ReorderAssumption
<1>1. PICK k \in 0..(n - 1) :
         /\ FirstMin(ps, n, k)
         /\ mapSize' = IF ds[k] >= mapSize THEN mapSize + SecSize ELSE mapSize
         /\ docAtPocMin' = IF pocOutNext = 0 THEN ds[k] ELSE docAtPocMin
         /\ pocOut' = [m EXCEPT ![ds[k]] = pocOutNext]
         /\ pocOutNext' = pocOutNext + 1
         /\ reorderMin' = IF reorderMin < k THEN k ELSE reorderMin
         /\ dpCnt' = n - 1
         /\ docs' = RemoveIdx(ds, n, k)
         /\ pocs' = RemoveIdx(ps, n, k)
         /\ reorderMinReady' = (reorderMinReady \/ RefsResolved(pocOut'))
  BY DEF OutputMin, MapSizeFor, GrownMin
<1>2. /\ pocOutNext \in Nat /\ reorderMin \in Nat /\ mapSize \in Nat
      /\ docAtPocMin \in Nat /\ reorderMin \in 0..(DP_CNT_MAX - 1)
      /\ reorderMinReady \in BOOLEAN
  BY DEF TypeOK
<1>3. ds[k] \in 0..(total - 1)
  OBVIOUS
<1>4. WindowInvNow'
  BY <1>1, <1>2, OutputKeeps DEF WindowInvNow
<1>5. dpCnt' \in 0..DP_CNT_MAX
  BY <1>1
<1>6. docs' \in [0..(dpCnt' - 1) -> 0..(total - 1)] /\ pocs' \in [0..(dpCnt' - 1) -> Pocs]
  BY <1>1 DEF RemoveIdx
<1>7. reorderMin' \in 0..(DP_CNT_MAX - 1)
  BY <1>1, <1>2
<1>8. docAtPocMin' \in Nat /\ mapSize' \in Nat
  BY <1>1, <1>2, <1>3
<1>9. pocOutNext' \in 0..total
  BY <1>1, <1>2 DEF WindowInv
<1>10. pocOut' \in [0..(total - 1) -> {-1} \cup Nat]
  BY <1>1, <1>2, <1>3
<1>11. reorderMinReady' \in BOOLEAN
  BY <1>1, <1>2 DEF RefsResolved
<1> QED
  BY <1>1, <1>4, <1>5, <1>6, <1>7, <1>8, <1>9, <1>10, <1>11 DEF WindowType, Fed

(* apoc_add, whatever the new depth, if the arrays have room.               *)
LEMMA AddStep ==
    ASSUME IInv, NEW poc \in Pocs, NEW max \in Nat \ {0},
           dpCnt < max, dpCnt < DP_CNT_MAX, Add(poc, max)
    PROVE  /\ docNext' = docNext + 1 /\ dpCntMax' = max
           /\ dpCnt' < max
           /\ WindowType'
           /\ WindowInvNow'
<1> USE ReorderAssumption
<1> DEFINE ds == Append0(docs, dpCnt, docNext)
           ps == Append0(pocs, dpCnt, poc)
           m  == Append0(pocOut, docNext, -1)
<1>1. /\ TypeOK /\ dpCnt \in Nat /\ docNext \in Nat /\ pocOutNext \in Nat
      /\ reorderMin \in Nat /\ mapSize \in Nat
      /\ dpCnt + 1 \in 1..DP_CNT_MAX
      /\ docs \in [0..(dpCnt - 1) -> 0..(docNext - 1)]
      /\ pocs \in [0..(dpCnt - 1) -> Pocs]
      /\ pocOut \in [0..(docNext - 1) -> {-1} \cup Nat]
  BY SMTT(30) DEF IInv, TypeOK, Fed
<1>2. /\ ds \in [0..((dpCnt + 1) - 1) -> 0..((docNext + 1) - 1)]
      /\ ps \in [0..((dpCnt + 1) - 1) -> Pocs]
      /\ m \in [0..((docNext + 1) - 1) -> {-1} \cup Nat]
  BY <1>1 DEF Append0
<1>3. WindowInv(ds, dpCnt + 1, pocOutNext, reorderMin, m, docNext + 1, mapSize)
  BY <1>1, AppendKeeps DEF IInv
<1>4. docNext' = docNext + 1 /\ dpCntMax' = max
  BY DEF Add
<1> HIDE DEF ds, ps, m
<1>5. CASE dpCnt + 1 < max
  <2>1. /\ dpCnt' = dpCnt + 1 /\ docs' = ds /\ pocs' = ps /\ pocOut' = m
        /\ UNCHANGED results
    BY <1>1, <1>5 DEF Add, ds, ps, m
  <2>2. WindowInvNow'
    BY <1>3, <1>4, <2>1 DEF WindowInvNow, results
  <2>3. WindowType'
    BY <1>1, <1>2, <1>4, <1>5, <2>1 DEF WindowType, results, TypeOK, Fed
  <2> QED BY <1>4, <1>5, <2>1, <2>2, <2>3
<1>6. CASE dpCnt + 1 >= max
  <2>1. OutputMin(ds, ps, dpCnt + 1, m)
    BY <1>1, <1>6 DEF Add, ds, ps, m
  <2> DEFINE n == dpCnt + 1
             total == docNext + 1
  <2>2. /\ TypeOK /\ n \in 1..DP_CNT_MAX /\ total \in Nat
        /\ ds \in [0..(n - 1) -> 0..(total - 1)]
        /\ ps \in [0..(n - 1) -> Pocs]
        /\ m \in [0..(total - 1) -> {-1} \cup Nat]
        /\ WindowInv(ds, n, pocOutNext, reorderMin, m, total, mapSize)
        /\ OutputMin(ds, ps, n, m)
        /\ docNext' = total
    BY <1>1, <1>2, <1>3, <1>4, <2>1
  <2>3. n - 1 = dpCnt
    BY <1>1
  <2> HIDE DEF n, total
  <2>4. /\ dpCnt' = n - 1 /\ WindowType' /\ WindowInvNow'
    BY <2>2, OutputStep
  <2> QED BY <1>4, <2>3, <2>4
<1> QED BY <1>1, <1>5, <1>6
-----------------------------------------------------------------------------
(* The rest of the state is typed once the stream grows with docNext.       *)
LEMMA StreamGrows ==
    ASSUME TypeOK, NEW entry \in [seq : Nat, depth : Depths, poc : Pocs],
           stream' = Append0(stream, docNext, entry), docNext' = docNext + 1
    PROVE  stream' \in [Fed' -> [seq : Nat, depth : Depths, poc : Pocs]]
BY DEF TypeOK, Fed, Append0

(* The invariant holds when the buffer is created.                          *)
LEMMA InitIInv == Init => IInv
<1> SUFFICES ASSUME Init PROVE IInv
  OBVIOUS
<1> USE ReorderAssumption
<1>1. TypeOK
  <2>1. DP_CNT_MAX \in Nat \ {0} /\ 0 \in 0..DP_CNT_MAX /\ 0 \in 0..(DP_CNT_MAX - 1)
    OBVIOUS
  <2>2. \A S : Empty \in [0..(0 - 1) -> S]
    <3>1. 0..(0 - 1) = {} /\ 0..-1 = {}
      OBVIOUS
    <3> QED BY <3>1 DEF Empty
  <2>3. docNext \in 0..MaxAu /\ pocOutNext \in 0..docNext
    BY DEF Init
  <2> QED BY <2>1, <2>2, <2>3 DEF Init, TypeOK, Fed
<1>2. WindowBelowDepth
  BY DEF Init, WindowBelowDepth
<1>3. WindowInv(docs, dpCnt, pocOutNext, reorderMin, pocOut, docNext, mapSize)
  BY DEF Init, WindowInv, Ordered, Unshown, DocsBounded, TailWhole, NeverEarly,
         SomeTight, OnePerPosition, MapCovers, ShownOf
<1>4. RoomForPending
  BY DEF Init, RoomForPending
<1> QED BY <1>1, <1>2, <1>3, <1>4 DEF IInv

(* Every call of the parser and every turn of apoc_flush keeps it.         *)
LEMMA NextIInv == IInv /\ [Next]_vars => IInv'
<1> SUFFICES ASSUME IInv, [Next]_vars PROVE IInv'
  OBVIOUS
<1> USE ReorderAssumption
<1>1. /\ TypeOK /\ WindowBelowDepth /\ RoomForPending
      /\ WindowInv(docs, dpCnt, pocOutNext, reorderMin, pocOut, docNext, mapSize)
  BY DEF IInv
<1>2. ASSUME NEW poc \in Pocs, AddPicture(poc) PROVE IInv'
  <2>1. /\ dpCntMax \in Nat \ {0} /\ dpCnt < dpCntMax /\ dpCnt < DP_CNT_MAX
        /\ Add(poc, dpCntMax) /\ docNext < MaxAu /\ 0 < docNext /\ docNext \in 0..MaxAu
    BY <1>1, <1>2 DEF AddPicture, TypeOK, WindowBelowDepth
  <2>2. /\ docNext' = docNext + 1 /\ dpCntMax' = dpCntMax /\ dpCnt' < dpCntMax
        /\ WindowType' /\ WindowInvNow'
    BY <2>1, AddStep
  <2>3. stream' \in [Fed' -> [seq : Nat, depth : Depths, poc : Pocs]]
    <3>1. stream[docNext - 1] \in [seq : Nat, depth : Depths, poc : Pocs]
      BY <1>1, <2>1 DEF TypeOK, Fed
    <3> DEFINE entry == [stream[docNext - 1] EXCEPT !.poc = poc]
    <3>2. entry \in [seq : Nat, depth : Depths, poc : Pocs]
      BY <3>1
    <3>3. stream' = Append0(stream, docNext, entry)
      BY <1>2 DEF AddPicture
    <3> HIDE DEF entry
    <3> QED BY <1>1, <2>2, <3>2, <3>3, StreamGrows
  <2>4. UNCHANGED <<pc, pending>> /\ docNext' \in 0..MaxAu
    BY <1>2, <2>1, <2>2 DEF AddPicture
  <2>5. TypeOK'
    BY <1>1, <2>1, <2>2, <2>3, <2>4 DEF TypeOK, WindowType
  <2>6. RoomForPending'
    BY <1>2, <2>4 DEF AddPicture, RoomForPending
  <2> QED BY <2>2, <2>5, <2>6 DEF IInv, WindowBelowDepth, WindowInvNow
<1>3. ASSUME NEW start \in SequenceStart, BeginSequence(start) PROVE IInv'
  BY <1>1, <1>3 DEF BeginSequence, IInv, RoomForPending, TypeOK, WindowBelowDepth, Fed, window, results
<1>4. CASE FlushOne
  <2>1. /\ dpCnt \in 1..DP_CNT_MAX /\ docNext \in Nat
        /\ docs \in [0..(dpCnt - 1) -> 0..(docNext - 1)]
        /\ pocs \in [0..(dpCnt - 1) -> Pocs]
        /\ pocOut \in [0..(docNext - 1) -> {-1} \cup Nat]
        /\ OutputMin(docs, pocs, dpCnt, pocOut)
    BY <1>1, <1>4 DEF FlushOne, TypeOK, Fed
  <2>2. UNCHANGED <<dpCntMax, docNext, pc, pending, stream>>
    BY <1>4 DEF FlushOne
  <2>3. /\ dpCnt' = dpCnt - 1 /\ WindowType' /\ WindowInvNow'
    BY <1>1, <2>1, <2>2, OutputStep
  <2>4. TypeOK'
    BY <1>1, <2>2, <2>3 DEF TypeOK, WindowType, Fed
  <2>5. WindowBelowDepth'
    BY <1>1, <2>1, <2>2, <2>3 DEF WindowBelowDepth, TypeOK
  <2>6. RoomForPending'
    BY <1>1, <2>2 DEF RoomForPending
  <2> QED BY <2>3, <2>4, <2>5, <2>6 DEF IInv, WindowInvNow
<1>5. CASE AddSequenceStart
  <2>1. /\ pending \in SequenceStart /\ dpCnt = 0
        /\ Add(pending.poc, pending.depth + 1)
        /\ docNext < MaxAu /\ docNext \in 0..MaxAu
    BY <1>1, <1>5 DEF AddSequenceStart, TypeOK, RoomForPending
  <2>2. pending.poc \in Pocs /\ pending.depth + 1 \in Nat \ {0} /\ dpCnt < DP_CNT_MAX
    <3>1. pending.poc \in Pocs /\ pending.depth \in Nat
      BY <2>1 DEF SequenceStart
    <3> QED BY <2>1, <3>1
  <2>3. /\ docNext' = docNext + 1 /\ dpCntMax' = pending.depth + 1
        /\ dpCnt' < pending.depth + 1
        /\ WindowType' /\ WindowInvNow'
    <3>1. \A n \in Nat \ {0} : 0 < n
      OBVIOUS
    <3>2. dpCnt < pending.depth + 1
      BY <2>1, <2>2, <3>1
    <3> QED BY <2>1, <2>2, <3>2, AddStep
  <2>4. stream' \in [Fed' -> [seq : Nat, depth : Depths, poc : Pocs]]
    <3>1. SeqNow + 1 \in Nat
      BY <1>1 DEF TypeOK, SeqNow, Fed
    <3> DEFINE entry == [seq |-> SeqNow + 1, depth |-> pending.depth, poc |-> pending.poc]
    <3>2. entry \in [seq : Nat, depth : Depths, poc : Pocs]
      BY <2>1, <2>2, <3>1 DEF SequenceStart
    <3>3. stream' = Append0(stream, docNext, entry)
      BY <1>5 DEF AddSequenceStart, StartSeq
    <3> HIDE DEF entry
    <3> QED BY <1>1, <2>3, <3>2, <3>3, StreamGrows
  <2>5. /\ pc' = "idle" /\ pending' = EndOfStream
        /\ docNext' \in 0..MaxAu /\ dpCntMax' \in Nat \ {0}
    BY <1>5, <2>1, <2>2, <2>3 DEF AddSequenceStart
  <2>6. TypeOK'
    BY <2>3, <2>4, <2>5 DEF TypeOK, WindowType
  <2>7. RoomForPending'
    BY <2>5 DEF RoomForPending
  <2> QED BY <2>3, <2>6, <2>7 DEF IInv, WindowBelowDepth, WindowInvNow
<1>6. CASE EndStream
  BY <1>1, <1>6 DEF EndStream, IInv, RoomForPending, TypeOK, WindowBelowDepth, Fed, window, results
<1>7. CASE StreamFlushed
  BY <1>1, <1>7 DEF StreamFlushed, IInv, RoomForPending, TypeOK, WindowBelowDepth, Fed, window, results
<1>8. CASE Overrun
  BY <1>1, <1>8 DEF Overrun, IInv, RoomForPending, TypeOK, WindowBelowDepth, Fed, window, results
<1>9. CASE UNCHANGED vars
  BY <1>1, <1>9 DEF vars, IInv, RoomForPending, TypeOK, WindowBelowDepth, Fed
<1> QED BY <1>2, <1>3, <1>4, <1>5, <1>6, <1>7, <1>8, <1>9 DEF Next
-----------------------------------------------------------------------------
(* The inductive invariant of the reordering buffer holds throughout.       *)
THEOREM Invariance == Spec => []IInv
<1>1. Init => IInv
  BY InitIInv
<1>2. IInv /\ [Next]_vars => IInv'
  BY NextIInv
<1> QED BY <1>1, <1>2, PTL DEF Spec

(* The two ways of writing the AUs displayed agree.                         *)
LEMMA DisplayedIsShown == Displayed = ShownOf(pocOut, docNext)
BY DEF Displayed, ShownOf, Fed

(* Every variable keeps its type; the arrays docs[] and pocs[] are never    *)
(* indexed at or past DP_CNT_MAX by a call other than Overrun.              *)
THEOREM TypeCorrect == Spec => []TypeOK
<1>1. IInv => TypeOK
  BY DEF IInv
<1> QED BY <1>1, Invariance, PTL

(* Whatever depth each sequence announces, the window is below it between   *)
(* calls.                                                                   *)
THEOREM WindowStaysBelowDepth == Spec => []WindowBelowDepth
<1>1. IInv => WindowBelowDepth
  BY DEF IInv
<1> QED BY <1>1, Invariance, PTL

(* No AU gets a composition time before its decoding time, conforming       *)
(* stream or not.                                                           *)
THEOREM CtsNotBeforeDts == Spec => []DisplayNotBeforeDecode
<1>1. IInv => DisplayNotBeforeDecode
  BY DisplayedIsShown DEF IInv, WindowInv, NeverEarly, DisplayNotBeforeDecode
<1> QED BY <1>1, Invariance, PTL

(* The delay reorder_min is the smallest that keeps CtsNotBeforeDts.        *)
THEOREM DelayIsSmallest == Spec => []DelayIsTight
<1>1. IInv => DelayIsTight
  <2> SUFFICES ASSUME IInv, Displayed # {} PROVE \E d \in Displayed : reorderMin + pocOut[d] - d = 0
    BY DEF DelayIsTight
  <2>1. SomeTight(pocOut, docNext, reorderMin, pocOutNext)
    BY DEF IInv, WindowInv
  <2>2. pocOutNext # 0
    <3>1. PICK d \in Displayed : TRUE
      OBVIOUS
    <3>2. d \in ShownOf(pocOut, docNext) /\ pocOut[d] < pocOutNext
      BY DisplayedIsShown DEF IInv, WindowInv, OnePerPosition
    <3>3. pocOut[d] \in Nat
      BY <3>2 DEF ShownOf, IInv, TypeOK, Fed
    <3> QED BY <3>2, <3>3
  <2> QED BY <2>1, <2>2, DisplayedIsShown DEF SomeTight
<1> QED BY <1>1, Invariance, PTL

(* Both at once: every offset handed to 'ctts' is possible, and none is     *)
(* larger than it has to be.                                                *)
THEOREM OffsetsStayTight == Spec => []OffsetsAreTight
<1>1. DisplayNotBeforeDecode /\ DelayIsTight => OffsetsAreTight
  BY DEF OffsetsAreTight
<1> QED BY <1>1, CtsNotBeforeDts, DelayIsSmallest, PTL

(* Display positions are a permutation of the AUs displayed.                *)
THEOREM PositionsAreAPermutation == Spec => []DisplayIsPermutation
<1>1. IInv => DisplayIsPermutation
  <2> SUFFICES ASSUME IInv PROVE DisplayIsPermutation
    OBVIOUS
  <2>1. OnePerPosition(pocOut, docNext, pocOutNext)
    BY DEF IInv, WindowInv
  <2>2. \A d \in Displayed : pocOut[d] \in 0..(pocOutNext - 1)
    <3>1. pocOut \in [Fed -> {-1} \cup Nat] /\ pocOutNext \in Nat
      BY DEF IInv, TypeOK
    <3> QED BY <2>1, <3>1, DisplayedIsShown DEF OnePerPosition, Displayed
  <2>3. \A p \in 0..(pocOutNext - 1) : \E d \in Displayed : pocOut[d] = p
    BY <2>1, DisplayedIsShown DEF OnePerPosition
  <2>4. {pocOut[d] : d \in Displayed} = 0..(pocOutNext - 1)
    BY <2>2, <2>3
  <2> QED BY <2>1, <2>4, DisplayedIsShown DEF OnePerPosition, DisplayIsPermutation
<1> QED BY <1>1, Invariance, PTL

(* No read or write of the two-level map leaves its allocated sections.     *)
THEOREM MapAccessesAllocated == Spec => []MapSectionsAllocated
<1>1. IInv => MapSectionsAllocated
  <2> SUFFICES ASSUME IInv PROVE MapSectionsAllocated
    OBVIOUS
  <2>1. MapCovers(docs, dpCnt, pocOut, docNext, mapSize) /\ dpCnt + pocOutNext = docNext
    BY DEF IInv, WindowInv
  <2>2. dpCnt \in Nat /\ docNext \in Nat /\ pocOutNext \in Nat /\ mapSize \in Nat
    BY DEF IInv, TypeOK
  <2> QED BY <2>1, <2>2, DisplayedIsShown DEF MapCovers, MapSectionsAllocated
<1> QED BY <1>1, Invariance, PTL
-----------------------------------------------------------------------------
(* Display positions already given out stay; reorder_min never shrinks and  *)
(* readiness is never taken back.                                           *)
Advances ==
    /\ \A d \in Displayed : d \in DOMAIN pocOut' /\ pocOut'[d] = pocOut[d]
    /\ reorderMin' \in Nat /\ reorderMin' >= reorderMin
    /\ pocOutNext' \in Nat /\ pocOutNext' >= pocOutNext
    /\ reorderMinReady => reorderMinReady'

(* An AU that has a display position keeps it when another is output.       *)
LEMMA OutputAdvances ==
    ASSUME IInv, NEW n \in Nat, NEW ds, NEW ps, NEW m, OutputMin(ds, ps, n, m),
           \A i \in 0..(n - 1) : ds[i] \notin Displayed,
           \A d \in Displayed : d \in DOMAIN m /\ m[d] = pocOut[d]
    PROVE  Advances
<1>1. PICK k \in 0..(n - 1) :
         /\ pocOut' = [m EXCEPT ![ds[k]] = pocOutNext]
         /\ pocOutNext' = pocOutNext + 1
         /\ reorderMin' = IF reorderMin < k THEN k ELSE reorderMin
         /\ reorderMinReady' = (reorderMinReady \/ RefsResolved(pocOut'))
  BY DEF OutputMin, MapSizeFor, GrownMin
<1>2. pocOutNext \in Nat /\ reorderMin \in Nat
  BY ReorderAssumption DEF IInv, TypeOK
<1>3. \A d \in Displayed : d \in DOMAIN pocOut' /\ pocOut'[d] = pocOut[d]
  BY <1>1
<1>4. reorderMinReady => reorderMinReady'
  BY <1>1
<1> QED BY <1>1, <1>2, <1>3, <1>4 DEF Advances

(* ... and when one is added ...                                            *)
LEMMA AddAdvances ==
    ASSUME IInv, NEW poc, NEW max \in Int, Add(poc, max)
    PROVE  Advances
<1> USE ReorderAssumption
<1> DEFINE ds == Append0(docs, dpCnt, docNext)
           ps == Append0(pocs, dpCnt, poc)
           m  == Append0(pocOut, docNext, -1)
<1>1. /\ dpCnt \in Nat /\ docNext \in Nat /\ reorderMin \in Nat /\ pocOutNext \in Nat
      /\ docs \in [0..(dpCnt - 1) -> Fed] /\ DOMAIN pocOut = Fed
  BY DEF IInv, TypeOK
<1>2. \A i \in 0..(dpCnt - 1) : docs[i] \notin Displayed
  BY DEF IInv, WindowInv, Unshown, Displayed
<1>3. \A i \in 0..((dpCnt + 1) - 1) : ds[i] \notin Displayed
  BY <1>1, <1>2 DEF Append0, Displayed, Fed
<1>4. \A d \in Displayed : d \in DOMAIN m /\ m[d] = pocOut[d]
  BY <1>1 DEF Append0, Displayed, Fed
<1> HIDE DEF ds, ps, m
<1>5. CASE pocOut' = m /\ UNCHANGED results
  BY <1>1, <1>4, <1>5 DEF Advances, results
<1>6. CASE OutputMin(ds, ps, dpCnt + 1, m)
  <2>1. dpCnt + 1 \in Nat
    BY <1>1
  <2> QED BY <1>3, <1>4, <1>6, <2>1, OutputAdvances
<1> QED BY <1>5, <1>6 DEF Add, ds, ps, m

(* ... hence in every step.                                                 *)
LEMMA NextAdvances == IInv /\ [Next]_vars => Advances
<1> SUFFICES ASSUME IInv, [Next]_vars PROVE Advances
  OBVIOUS
<1> USE ReorderAssumption
<1>1. /\ reorderMin \in Nat /\ pocOutNext \in Nat /\ dpCnt \in Nat /\ dpCntMax \in Int
      /\ DOMAIN pocOut = Fed
  BY DEF IInv, TypeOK
<1>2. CASE UNCHANGED <<results, pocOut>>
  BY <1>1, <1>2 DEF Advances, results, Displayed
<1>3. CASE FlushOne
  <2>1. \A i \in 0..(dpCnt - 1) : docs[i] \notin Displayed
    BY DEF IInv, WindowInv, Unshown, Displayed
  <2>2. \A d \in Displayed : d \in DOMAIN pocOut
    BY <1>1 DEF Displayed
  <2> QED BY <1>1, <1>3, <2>1, <2>2, OutputAdvances DEF FlushOne
<1>4. ASSUME NEW poc \in Pocs, AddPicture(poc) PROVE Advances
  BY <1>1, <1>4, AddAdvances DEF AddPicture
<1>5. CASE AddSequenceStart
  <2>1. pending \in SequenceStart
    BY <1>5 DEF AddSequenceStart, IInv, TypeOK
  <2>2. pending.depth \in Nat
    BY <2>1 DEF SequenceStart
  <2>3. pending.depth + 1 \in Int
    BY <2>2
  <2> QED BY <1>5, <2>3, AddAdvances DEF AddSequenceStart
<1> QED
  BY <1>2, <1>3, <1>4, <1>5
     DEF Next, Overrun, BeginSequence, EndStream, StreamFlushed, vars, results

(* An offset handed out stays handed out, and all of them move by the same  *)
(* amount.                                                                  *)
THEOREM OffsetsMoveTogether == Spec => OffsetsShiftTogether
<1> DEFINE A == \A d \in Fed : ReorderNum(d) >= 0 =>
                  /\ ReorderNum(d)' - ReorderNum(d) = reorderMin' - reorderMin
                  /\ reorderMin' >= reorderMin
<1>1. IInv /\ [Next]_vars => A
  <2> SUFFICES ASSUME IInv, [Next]_vars, NEW d \in Fed, ReorderNum(d) >= 0
               PROVE  /\ ReorderNum(d)' - ReorderNum(d) = reorderMin' - reorderMin
                      /\ reorderMin' >= reorderMin
    OBVIOUS
  <2>1. Advances
    BY NextAdvances
  <2>2. /\ d \in Nat /\ reorderMin \in Nat /\ pocOutNext \in Nat
        /\ pocOut[d] \in {-1} \cup Nat
    BY ReorderAssumption DEF IInv, TypeOK, Fed
  <2>3. /\ d < pocOutNext /\ reorderMinReady /\ pocOut[d] >= 0
        /\ ReorderNum(d) = reorderMin + pocOut[d] - d
    BY DEF ReorderNum
  <2>4. d \in Displayed
    BY <2>3 DEF Displayed
  <2>5. /\ pocOut'[d] = pocOut[d] /\ d \in DOMAIN pocOut'
        /\ d < pocOutNext' /\ reorderMinReady'
        /\ reorderMin' \in Nat /\ reorderMin' >= reorderMin
    BY <2>1, <2>2, <2>3, <2>4 DEF Advances
  <2>6. ReorderNum(d)' = reorderMin' + pocOut[d] - d
    BY <2>3, <2>5 DEF ReorderNum
  <2> QED BY <2>2, <2>3, <2>5, <2>6
<1>2. Spec => [][A]_vars
  BY <1>1, Invariance, PTL DEF Spec
<1> QED BY <1>2 DEF OffsetsShiftTogether
-----------------------------------------------------------------------------
(***************************************************************************)
(* The order.  First, the buffer implements DisplayOrder.  Two facts are   *)
(* added to the invariant above: the AUs not yet displayed are exactly     *)
(* those in the window, and the window holds AUs of one sequence only.     *)
(* The second is what the flush at a sequence start is for: the window     *)
(* compares POCs, which say nothing across sequences.                      *)
(*                                                                         *)
(* Second, the presentation that comes out is the one the POCs ask for,    *)
(* for every conforming stream.  The heart of it is a count: an AU that is *)
(* output although its sequence goes on leaves a window full of AUs that   *)
(* are no earlier than it; an AU that came later in decoding order and     *)
(* belonged before it in display order would be preceded by more AUs than  *)
(* the depth in force allows.                                              *)
(***************************************************************************)
(* Window entries carry the POCs of their AUs, all of sequence seq, and     *)
(* every AU without a display position is among them.                       *)
OneSequence(ds, ps, n, st, seq) ==
    \A i \in 0..(n - 1) : ps[i] = st[ds[i]].poc /\ st[ds[i]].seq = seq

AllHeld(ds, n, m, total) ==
    \A d \in 0..(total - 1) : m[d] < 0 => \E i \in 0..(n - 1) : ds[i] = d

(* The AUs of a map in the order of their positions.                        *)
InOrder(m, total, next) ==
    [p \in 1..next |-> CHOOSE d \in ShownOf(m, total) : m[d] = p - 1]

RInv ==
    /\ IInv
    /\ OneSequence(docs, pocs, dpCnt, stream, SeqNow)
    /\ AllHeld(docs, dpCnt, pocOut, docNext)
-----------------------------------------------------------------------------
(* A map whose positions are a permutation, read the other way round.       *)
LEMMA InOrderFacts ==
    ASSUME NEW total \in Nat, NEW next \in Nat,
           NEW m \in [0..(total - 1) -> {-1} \cup Nat],
           OnePerPosition(m, total, next)
    PROVE  LET s == InOrder(m, total, next)
           IN  /\ s \in Seq(0..(total - 1))
               /\ Len(s) = next
               /\ \A p \in 1..next : s[p] \in ShownOf(m, total) /\ m[s[p]] = p - 1
               /\ {s[p] : p \in 1..Len(s)} = ShownOf(m, total)
<1> DEFINE s == InOrder(m, total, next)
<1>1. \A p \in 1..next : s[p] \in ShownOf(m, total) /\ m[s[p]] = p - 1
  <2> SUFFICES ASSUME NEW p \in 1..next
               PROVE  s[p] \in ShownOf(m, total) /\ m[s[p]] = p - 1
    OBVIOUS
  <2>1. p - 1 \in 0..(next - 1)
    OBVIOUS
  <2>2. \E d \in ShownOf(m, total) : m[d] = p - 1
    BY <2>1 DEF OnePerPosition
  <2>3. s[p] = CHOOSE d \in ShownOf(m, total) : m[d] = p - 1
    BY DEF InOrder
  <2> QED BY <2>2, <2>3
<1>2. s \in [1..next -> 0..(total - 1)]
  <2>1. \A p \in 1..next : s[p] \in 0..(total - 1)
    BY <1>1 DEF ShownOf
  <2>2. s = [p \in 1..next |-> s[p]]
    BY DEF InOrder
  <2> HIDE DEF s
  <2> QED BY <2>1, <2>2
<1> HIDE DEF s
<1>3. s \in Seq(0..(total - 1))
  BY <1>2, SeqDef
<1>4. Len(s) = next
  BY <1>2, <1>3, LenProperties
<1>5. ASSUME NEW d \in ShownOf(m, total)
      PROVE  \E p \in 1..next : s[p] = d
  <2>1. m[d] \in 0..(next - 1)
    BY DEF OnePerPosition, ShownOf
  <2>2. m[d] + 1 \in 1..next /\ (m[d] + 1) - 1 = m[d]
    BY <2>1
  <2>3. s[m[d] + 1] \in ShownOf(m, total) /\ m[s[m[d] + 1]] = m[d]
    BY <1>1, <2>2
  <2> QED BY <2>2, <2>3 DEF OnePerPosition
<1>6. {s[p] : p \in 1..Len(s)} = ShownOf(m, total)
  BY <1>1, <1>4, <1>5
<1> QED BY <1>1, <1>3, <1>4, <1>6 DEF s

LEMMA ShownSetIsShownOf ==
    ASSUME NEW total \in Nat, NEW next \in Nat,
           NEW m \in [0..(total - 1) -> {-1} \cup Nat],
           OnePerPosition(m, total, next)
    PROVE  Abs!ShownSet(InOrder(m, total, next)) = ShownOf(m, total)
BY InOrderFacts DEF Abs!ShownSet

(* Appending an AU that is not displayed leaves the order alone ...         *)
LEMMA AppendSameOrder ==
    ASSUME NEW total \in Nat, NEW next \in Nat,
           NEW m \in [0..(total - 1) -> {-1} \cup Nat]
    PROVE  /\ ShownOf(Append0(m, total, -1), total + 1) = ShownOf(m, total)
           /\ InOrder(Append0(m, total, -1), total + 1, next) = InOrder(m, total, next)
<1> DEFINE w == Append0(m, total, -1)
<1>1. /\ \A d \in 0..(total - 1) : w[d] = m[d]
      /\ w[total] = -1
      /\ \A d \in 0..((total + 1) - 1) : d \in 0..(total - 1) \/ d = total
      /\ \A d \in 0..(total - 1) : d \in 0..((total + 1) - 1)
  BY DEF Append0
<1> HIDE DEF w
<1>2. ShownOf(w, total + 1) = ShownOf(m, total)
  BY <1>1 DEF ShownOf
<1>3. \A d \in ShownOf(m, total) : w[d] = m[d]
  BY <1>1 DEF ShownOf
<1>4. \A p \in 1..next : (CHOOSE d \in ShownOf(w, total + 1) : w[d] = p - 1)
                          = CHOOSE d \in ShownOf(m, total) : m[d] = p - 1
  <2> TAKE p \in 1..next
  <2>1. \A d : (d \in ShownOf(m, total) /\ w[d] = p - 1)
                  <=> (d \in ShownOf(m, total) /\ m[d] = p - 1)
    BY <1>3
  <2> QED BY <1>2, <2>1
<1>5. InOrder(w, total + 1, next) = InOrder(m, total, next)
  BY <1>4 DEF InOrder
<1> QED BY <1>2, <1>5 DEF w

(* ... and displaying AU d puts it at the end.                              *)
LEMMA DisplayAppends ==
    ASSUME NEW total \in Nat, NEW next \in Nat,
           NEW m \in [0..(total - 1) -> {-1} \cup Nat],
           NEW d \in 0..(total - 1), m[d] = -1,
           OnePerPosition(m, total, next),
           OnePerPosition([m EXCEPT ![d] = next], total, next + 1)
    PROVE  InOrder([m EXCEPT ![d] = next], total, next + 1)
             = Append(InOrder(m, total, next), d)
<1> DEFINE w == [m EXCEPT ![d] = next]
           s == InOrder(m, total, next)
           t == InOrder(w, total, next + 1)
           S == 0..(total - 1)
<1>1. w \in [S -> {-1} \cup Nat] /\ w[d] = next /\ \A e \in S : e # d => w[e] = m[e]
  OBVIOUS
<1> HIDE DEF w
<1>2. /\ s \in Seq(S) /\ Len(s) = next
      /\ \A p \in 1..next : s[p] \in ShownOf(m, total) /\ m[s[p]] = p - 1
  BY InOrderFacts
<1>3. /\ t \in Seq(S) /\ Len(t) = next + 1
      /\ \A p \in 1..(next + 1) : t[p] \in ShownOf(w, total) /\ w[t[p]] = p - 1
  <2>1. OnePerPosition(w, total, next + 1) /\ next + 1 \in Nat
    BY DEF w
  <2> QED BY SMTT(30), <1>1, <2>1, InOrderFacts
<1>4. \A e, f \in ShownOf(w, total) : w[e] = w[f] => e = f
  BY DEF w, OnePerPosition
<1> HIDE DEF s, t
<1>5. \A p \in 1..next : t[p] = s[p]
  <2> TAKE p \in 1..next
  <2>1. s[p] \in S /\ m[s[p]] >= 0 /\ m[s[p]] = p - 1
    BY <1>2 DEF ShownOf
  <2>2. w[s[p]] = p - 1
    BY <1>1, <2>1
  <2>3. s[p] \in ShownOf(w, total)
    BY <2>1, <2>2 DEF ShownOf
  <2>4. p \in 1..(next + 1)
    OBVIOUS
  <2> QED BY <1>3, <1>4, <2>2, <2>3, <2>4
<1>6. t[next + 1] = d
  <2>1. d \in ShownOf(w, total)
    BY <1>1 DEF ShownOf
  <2>2. t[next + 1] \in ShownOf(w, total) /\ w[t[next + 1]] = next
    <3>1. next + 1 \in 1..(next + 1) /\ (next + 1) - 1 = next
      OBVIOUS
    <3> QED BY <1>3, <3>1
  <2> QED BY <1>1, <1>4, <2>1, <2>2
<1>7. /\ Append(s, d) \in Seq(S) /\ Len(Append(s, d)) = next + 1
      /\ \A p \in 1..next : Append(s, d)[p] = s[p]
      /\ Append(s, d)[next + 1] = d
  BY <1>2, AppendProperties
<1>8. t \in [1..(next + 1) -> S] /\ Append(s, d) \in [1..(next + 1) -> S]
  BY <1>3, <1>7, LenProperties
<1>9. \A p \in 1..(next + 1) : t[p] = Append(s, d)[p]
  <2>1. \A p \in 1..(next + 1) : p \in 1..next \/ p = next + 1
    OBVIOUS
  <2> QED BY <1>5, <1>6, <1>7, <2>1
<1>10. t = Append(s, d)
  BY <1>8, <1>9
<1> QED BY <1>10 DEF s, t, w
-----------------------------------------------------------------------------
(* The entry apoc_update takes is before all the others that wait: POCs     *)
(* decide, and of equal ones the first in the window, which is the first in *)
(* decoding order.                                                          *)
LEMMA FirstIsNext ==
    ASSUME NEW n \in Nat, NEW total \in Nat, NEW st, NEW seq, NEW next,
           NEW ds \in [0..(n - 1) -> 0..(total - 1)],
           NEW ps \in [0..(n - 1) -> Pocs],
           NEW m \in [0..(total - 1) -> {-1} \cup Nat],
           NEW s, DOMAIN st = 0..(total - 1),
           Abs!ShownSet(s) = ShownOf(m, total),
           Ordered(ds, n), Unshown(ds, n, m),
           OneSequence(ds, ps, n, st, seq), AllHeld(ds, n, m, total),
           NEW k \in 0..(n - 1), FirstMin(ps, n, k)
    PROVE  Abs!ShowsNext(st, s, Append(s, ds[k]))
<1>1. Abs!Waiting(st, s) = (0..(total - 1)) \ ShownOf(m, total)
  BY DEF Abs!Waiting
<1>2. ds[k] \in Abs!Waiting(st, s)
  <2>1. ds[k] \in 0..(total - 1) /\ m[ds[k]] = -1
    BY DEF Unshown
  <2> QED BY <1>1, <2>1 DEF ShownOf
<1>3. ASSUME NEW e \in Abs!Waiting(st, s) \ {ds[k]}
      PROVE  Abs!Before(st, ds[k], e)
  <2>1. e \in 0..(total - 1) /\ m[e] < 0
    BY <1>1 DEF ShownOf
  <2>2. PICK i \in 0..(n - 1) : ds[i] = e
    BY <2>1 DEF AllHeld
  <2>3. i # k
    BY <2>2
  <2>4. /\ ps[k] \in Int /\ ps[i] \in Int /\ ps[k] <= ps[i]
        /\ i < k => ps[k] < ps[i]
        /\ k < i => ds[k] < ds[i]
    <3>1. ps[k] \in Pocs /\ ps[i] \in Pocs
      OBVIOUS
    <3>2. ps[k] \in Int /\ ps[i] \in Int
      BY <3>1, ReorderAssumption
    <3>3. ps[k] <= ps[i]
      BY DEF FirstMin
    <3>4. i < k => ps[k] < ps[i]
      <4>1. i < k => i \in 0..(k - 1)
        OBVIOUS
      <4> QED BY <4>1 DEF FirstMin
    <3>5. k < i => ds[k] < ds[i]
      BY DEF Ordered
    <3> QED BY <3>2, <3>3, <3>4, <3>5
  <2>5. /\ ps[k] = st[ds[k]].poc /\ ps[i] = st[e].poc
        /\ st[ds[k]].seq = st[e].seq
    BY <2>2 DEF OneSequence
  <2>6. ps[k] < ps[i] \/ (ps[k] = ps[i] /\ ds[k] < ds[i])
    BY <2>3, <2>4
  <2> QED BY <2>2, <2>5, <2>6 DEF Abs!Before
<1> QED BY <1>2, <1>3 DEF Abs!ShowsNext

(* The AUs waiting are no more than the entries of the window.              *)
LEMMA WaitingFits ==
    ASSUME NEW n \in Nat, NEW total \in Nat, NEW st, NEW s,
           NEW ds \in [0..(n - 1) -> 0..(total - 1)],
           NEW m \in [0..(total - 1) -> {-1} \cup Nat],
           DOMAIN st = 0..(total - 1), Abs!ShownSet(s) = ShownOf(m, total),
           Unshown(ds, n, m), AllHeld(ds, n, m, total)
    PROVE  /\ n = 0 => Abs!Waiting(st, s) = {}
           /\ Cardinality(Abs!Waiting(st, s)) \in Nat
           /\ Cardinality(Abs!Waiting(st, s)) <= n
<1> DEFINE W == Abs!Waiting(st, s)
<1>1. W = (0..(total - 1)) \ ShownOf(m, total)
  BY DEF Abs!Waiting
<1> HIDE DEF W
<1>2. \A d \in W : \E i \in 0..(n - 1) : ds[i] = d
  BY <1>1 DEF AllHeld, ShownOf
<1>3. \A i \in 0..(n - 1) : ds[i] \in W
  BY <1>1 DEF Unshown, ShownOf
<1>4. n = 0 => W = {}
  BY <1>2
<1>5. ds \in Surjection(0..(n - 1), W)
  BY <1>2, <1>3 DEF Surjection
<1>6. IsFiniteSet(0..(n - 1)) /\ Cardinality(0..(n - 1)) = n
  <2>1. 0 \in Int /\ n - 1 \in Int /\ (IF 0 > n - 1 THEN 0 ELSE (n - 1) - 0 + 1) = n
    OBVIOUS
  <2> QED BY <2>1, FS_Interval
<1>7. IsFiniteSet(W) /\ Cardinality(W) <= n
  BY <1>5, <1>6, FS_Surjection
<1>8. Cardinality(W) \in Nat
  BY <1>7, FS_CardinalityType
<1> QED BY <1>4, <1>7, <1>8 DEF W
-----------------------------------------------------------------------------
(* Adding AU total, of sequence seq2, keeps the window to one sequence if   *)
(* it was empty or if the sequence goes on.                                 *)
LEMMA AppendKeepsSequence ==
    ASSUME NEW n \in Nat, NEW total \in Nat, NEW poc, NEW seq, NEW seq2,
           NEW ds \in [0..(n - 1) -> 0..(total - 1)], NEW ps,
           NEW m \in [0..(total - 1) -> {-1} \cup Nat],
           NEW st, NEW st2,
           \A d \in 0..(total - 1) : st2[d] = st[d],
           st2[total].poc = poc, st2[total].seq = seq2,
           OneSequence(ds, ps, n, st, seq), AllHeld(ds, n, m, total),
           n = 0 \/ seq2 = seq
    PROVE  /\ OneSequence(Append0(ds, n, total), Append0(ps, n, poc), n + 1, st2, seq2)
           /\ AllHeld(Append0(ds, n, total), n + 1, Append0(m, total, -1), total + 1)
<1> DEFINE es == Append0(ds, n, total)
           qs == Append0(ps, n, poc)
           w  == Append0(m, total, -1)
<1>1. /\ \A i \in 0..(n - 1) : es[i] = ds[i] /\ qs[i] = ps[i]
      /\ es[n] = total /\ qs[n] = poc
      /\ \A i \in 0..((n + 1) - 1) : i \in 0..(n - 1) \/ i = n
      /\ \A d \in 0..(total - 1) : w[d] = m[d]
      /\ \A d \in 0..((total + 1) - 1) : d \in 0..(total - 1) \/ d = total
      /\ n \in 0..((n + 1) - 1)
      /\ \A i \in 0..(n - 1) : i \in 0..((n + 1) - 1)
  BY DEF Append0
<1> HIDE DEF es, qs, w
<1>2. ASSUME NEW i \in 0..((n + 1) - 1)
      PROVE  qs[i] = st2[es[i]].poc /\ st2[es[i]].seq = seq2
  <2>1. CASE i = n
    BY <1>1, <2>1
  <2>2. CASE i \in 0..(n - 1)
    <3>1. n # 0
      BY <2>2
    <3>2. ds[i] \in 0..(total - 1)
      BY <2>2
    <3>3. ps[i] = st[ds[i]].poc /\ st[ds[i]].seq = seq
      BY <2>2 DEF OneSequence
    <3> QED BY <1>1, <2>2, <3>1, <3>2, <3>3
  <2> QED BY <1>1, <2>1, <2>2
<1>3. ASSUME NEW d \in 0..((total + 1) - 1), w[d] < 0
      PROVE  \E i \in 0..((n + 1) - 1) : es[i] = d
  <2>1. CASE d = total
    BY <1>1, <2>1
  <2>2. CASE d \in 0..(total - 1)
    <3>1. PICK i \in 0..(n - 1) : ds[i] = d
      BY <1>1, <1>3, <2>2 DEF AllHeld
    <3> QED BY <1>1, <3>1
  <2> QED BY <1>1, <2>1, <2>2
<1> QED BY <1>2, <1>3 DEF OneSequence, AllHeld, es, qs, w

(* Outputting an entry keeps it too, and the AU is next in display order.   *)
LEMMA OutputShowsNext ==
    ASSUME NEW n \in 1..DP_CNT_MAX, NEW total \in Nat, NEW st, NEW seq,
           NEW ds \in [0..(n - 1) -> 0..(total - 1)],
           NEW ps \in [0..(n - 1) -> Pocs],
           NEW m \in [0..(total - 1) -> {-1} \cup Nat],
           DOMAIN st = 0..(total - 1),
           pocOutNext \in Nat, reorderMin \in Nat, mapSize \in Nat,
           WindowInv(ds, n, pocOutNext, reorderMin, m, total, mapSize),
           OneSequence(ds, ps, n, st, seq), AllHeld(ds, n, m, total),
           OutputMin(ds, ps, n, m)
    PROVE  /\ OneSequence(docs', pocs', dpCnt', st, seq)
           /\ AllHeld(docs', dpCnt', pocOut', total)
           /\ Abs!ShowsNext(st, InOrder(m, total, pocOutNext),
                             InOrder(pocOut', total, pocOutNext'))
<1> USE ReorderAssumption
<1>1. PICK k \in 0..(n - 1) :
         /\ FirstMin(ps, n, k)
         /\ pocOut' = [m EXCEPT ![ds[k]] = pocOutNext]
         /\ pocOutNext' = pocOutNext + 1
         /\ dpCnt' = n - 1
         /\ docs' = RemoveIdx(ds, n, k)
         /\ pocs' = RemoveIdx(ps, n, k)
  BY DEF OutputMin
<1> DEFINE es == RemoveIdx(ds, n, k)
           qs == RemoveIdx(ps, n, k)
           w  == [m EXCEPT ![ds[k]] = pocOutNext]
           at(i) == IF i < k THEN i ELSE i + 1
<1>2. \A i \in 0..((n - 1) - 1) :
         at(i) \in 0..(n - 1) /\ es[i] = ds[at(i)] /\ qs[i] = ps[at(i)]
  BY DEF RemoveIdx
<1>3. /\ ds[k] \in 0..(total - 1) /\ m[ds[k]] = -1 /\ w[ds[k]] = pocOutNext
      /\ \A d \in 0..(total - 1) : d # ds[k] => w[d] = m[d]
  BY DEF WindowInv, Unshown
<1>4. OneSequence(es, qs, n - 1, st, seq)
  BY <1>2 DEF OneSequence
<1>5. AllHeld(es, n - 1, w, total)
  <2> SUFFICES ASSUME NEW d \in 0..(total - 1), w[d] < 0
               PROVE  \E i \in 0..((n - 1) - 1) : es[i] = d
    BY DEF AllHeld
  <2>1. d # ds[k] /\ m[d] < 0
    BY <1>3
  <2>2. PICK j \in 0..(n - 1) : ds[j] = d
    BY <2>1 DEF AllHeld
  <2>3. j # k
    BY <2>1, <2>2
  <2>4. CASE j < k
    <3>1. j \in 0..((n - 1) - 1) /\ at(j) = j
      BY <2>4
    <3> QED BY <1>2, <2>2, <3>1
  <2>5. CASE j > k
    <3>1. j - 1 \in 0..((n - 1) - 1) /\ at(j - 1) = j
      BY <2>5
    <3> QED BY <1>2, <2>2, <3>1
  <2> QED BY <2>3, <2>4, <2>5
<1> HIDE DEF es, qs, w, at
<1>6. OnePerPosition(m, total, pocOutNext)
  BY DEF WindowInv
<1>7. OnePerPosition(w, total, pocOutNext + 1)
  <2>1. WindowInv(RemoveIdx(ds, n, k), n - 1, pocOutNext + 1,
                  IF reorderMin < k THEN k ELSE reorderMin, w, total,
                  IF ds[k] >= mapSize THEN mapSize + SecSize ELSE mapSize)
    BY OutputKeeps DEF w
  <2> QED BY <2>1 DEF WindowInv
<1>8. InOrder(w, total, pocOutNext + 1) = Append(InOrder(m, total, pocOutNext), ds[k])
  <2>1. OnePerPosition([m EXCEPT ![ds[k]] = pocOutNext], total, pocOutNext + 1)
    BY <1>7 DEF w
  <2>2. InOrder([m EXCEPT ![ds[k]] = pocOutNext], total, pocOutNext + 1)
          = Append(InOrder(m, total, pocOutNext), ds[k])
    BY ZenonT(60), <1>3, <1>6, <2>1, DisplayAppends
  <2> QED BY <2>2 DEF w
<1>9. Abs!ShownSet(InOrder(m, total, pocOutNext)) = ShownOf(m, total)
  BY <1>6, InOrderFacts DEF Abs!ShownSet
<1>10. Abs!ShowsNext(st, InOrder(m, total, pocOutNext),
                     Append(InOrder(m, total, pocOutNext), ds[k]))
  <2>1. n \in Nat /\ Ordered(ds, n) /\ Unshown(ds, n, m)
    BY DEF WindowInv
  <2> QED BY <1>1, <1>9, <2>1, FirstIsNext
<1>11. pocOut' = w /\ docs' = es /\ pocs' = qs
  BY <1>1 DEF w, es, qs
<1> QED BY <1>1, <1>4, <1>5, <1>8, <1>10, <1>11
-----------------------------------------------------------------------------
(* The refinement mapping in the terms above, now and after a step.         *)
LEMMA ShownIsInOrder ==
    /\ Shown = InOrder(pocOut, docNext, pocOutNext)
    /\ Shown' = InOrder(pocOut', docNext', pocOutNext')
BY DEF Shown, InOrder, Displayed, ShownOf, Fed

LEMMA SameCardinality == \A S : Abs!Cardinality(S) = Cardinality(S)
BY Zenon DEF Abs!Cardinality, Cardinality

(* What RInv says of the state, variable by variable.                       *)
RFacts ==
    /\ TypeOK /\ IInv /\ dpCnt \in Nat /\ docNext \in Nat /\ pocOutNext \in Nat
    /\ reorderMin \in Nat /\ mapSize \in Nat
    /\ dpCnt < DP_CNT_MAX => dpCnt + 1 \in 1..DP_CNT_MAX
    /\ dpCnt + 1 \in Nat /\ docNext + 1 \in Nat
    /\ (dpCnt + 1) - 1 = dpCnt /\ (docNext + 1) - 1 = docNext
    /\ docs \in [0..(dpCnt - 1) -> 0..(docNext - 1)]
    /\ pocs \in [0..(dpCnt - 1) -> Pocs]
    /\ pocOut \in [0..(docNext - 1) -> {-1} \cup Nat]
    /\ DOMAIN stream = 0..(docNext - 1)
    /\ OnePerPosition(pocOut, docNext, pocOutNext)
    /\ Unshown(docs, dpCnt, pocOut)
    /\ OneSequence(docs, pocs, dpCnt, stream, SeqNow)
    /\ AllHeld(docs, dpCnt, pocOut, docNext)

LEMMA RInvFacts == ASSUME RInv PROVE RFacts
<1> USE ReorderAssumption
<1>1. IInv /\ TypeOK /\ WindowInv(docs, dpCnt, pocOutNext, reorderMin, pocOut, docNext, mapSize)
  BY DEF RInv, IInv
<1>2. /\ dpCnt \in 0..DP_CNT_MAX /\ docNext \in Nat /\ pocOutNext \in Nat
      /\ reorderMin \in Nat /\ mapSize \in Nat
      /\ docs \in [0..(dpCnt - 1) -> 0..(docNext - 1)]
      /\ pocs \in [0..(dpCnt - 1) -> Pocs]
      /\ pocOut \in [0..(docNext - 1) -> {-1} \cup Nat]
      /\ DOMAIN stream = 0..(docNext - 1)
  BY <1>1 DEF TypeOK, Fed
<1>3. /\ dpCnt \in Nat /\ (dpCnt < DP_CNT_MAX => dpCnt + 1 \in 1..DP_CNT_MAX) /\ dpCnt + 1 \in Nat
      /\ (dpCnt + 1) - 1 = dpCnt
  BY <1>2
<1>4. docNext + 1 \in Nat /\ (docNext + 1) - 1 = docNext
  BY <1>2
<1>5. OnePerPosition(pocOut, docNext, pocOutNext) /\ Unshown(docs, dpCnt, pocOut)
  BY <1>1 DEF WindowInv
<1>6. OneSequence(docs, pocs, dpCnt, stream, SeqNow) /\ AllHeld(docs, dpCnt, pocOut, docNext)
  BY DEF RInv
<1> QED BY <1>1, <1>2, <1>3, <1>4, <1>5, <1>6 DEF RFacts

(* The window and the map in the middle of apoc_add, the AU appended and    *)
(* nothing output yet.                                                      *)
AddedDocs      == Append0(docs, dpCnt, docNext)
AddedPocs(poc) == Append0(pocs, dpCnt, poc)
AddedMap       == Append0(pocOut, docNext, -1)

LEMMA WindowAppended ==
    ASSUME RInv, NEW poc \in Pocs, NEW max \in Nat \ {0}, dpCnt < max, dpCnt < DP_CNT_MAX,
           Add(poc, max), NEW entry, entry.poc = poc,
           stream' = Append0(stream, docNext, entry),
           dpCnt = 0 \/ entry.seq = SeqNow,
           NEW n, n = dpCnt + 1, NEW total, total = docNext + 1
    PROVE  /\ AddedDocs \in [0..(n - 1) -> 0..(total - 1)]
           /\ AddedPocs(poc) \in [0..(n - 1) -> Pocs]
           /\ AddedMap \in [0..(total - 1) -> {-1} \cup Nat]
           /\ WindowInv(AddedDocs, n, pocOutNext, reorderMin, AddedMap, total, mapSize)
           /\ docNext' = total /\ dpCntMax' = max /\ dpCnt' < max
           /\ WindowType' /\ WindowInvNow'
           /\ DOMAIN stream' = 0..(total - 1)
           /\ \A d \in 0..(docNext - 1) : stream'[d] = stream[d]
           /\ stream'[docNext] = entry
           /\ SeqNow' = entry.seq
           /\ OneSequence(AddedDocs, AddedPocs(poc), n, stream', entry.seq)
           /\ AllHeld(AddedDocs, n, AddedMap, total)
<1> USE ReorderAssumption
<1> DEFINE ds == AddedDocs
           ps == AddedPocs(poc)
           m  == AddedMap
<1>1. RFacts
  BY RInvFacts
<1>2. /\ ds \in [0..(n - 1) -> 0..(total - 1)]
      /\ ps \in [0..(n - 1) -> Pocs]
      /\ m \in [0..(total - 1) -> {-1} \cup Nat]
  <2>1. ds \in [0..dpCnt -> 0..docNext]
    <3>1. /\ \A i \in 0..dpCnt : i # dpCnt => i \in 0..(dpCnt - 1)
          /\ docNext \in 0..docNext
          /\ \A d \in 0..(docNext - 1) : d \in 0..docNext
      BY <1>1 DEF RFacts
    <3>2. docs \in [0..(dpCnt - 1) -> 0..(docNext - 1)]
      BY <1>1 DEF RFacts
    <3> QED BY <3>1, <3>2 DEF Append0, AddedDocs
  <2>2. ps \in [0..dpCnt -> Pocs]
    BY SMTT(30), <1>1 DEF RFacts, Append0, AddedPocs
  <2>3. m \in [0..docNext -> {-1} \cup Nat]
    BY <1>1 DEF RFacts, Append0, AddedMap
  <2> QED BY <1>1, <2>1, <2>2, <2>3 DEF RFacts
<1>3. WindowInv(ds, n, pocOutNext, reorderMin, m, total, mapSize)
  BY <1>1, AppendKeeps DEF IInv, RFacts, AddedDocs, AddedMap
<1>4. /\ docNext' = total /\ dpCntMax' = max /\ dpCnt' < max
      /\ WindowType' /\ WindowInvNow'
  BY <1>1, AddStep DEF RFacts
<1>5. /\ DOMAIN stream' = 0..(total - 1)
      /\ \A d \in 0..(docNext - 1) : stream'[d] = stream[d]
      /\ stream'[docNext] = entry
  <2>1. stream' = [i \in 0..docNext |-> IF i = docNext THEN entry ELSE stream[i]]
    BY DEF Append0
  <2>2. \A d \in 0..(docNext - 1) : d \in 0..docNext /\ d # docNext
    BY <1>1 DEF RFacts
  <2>3. docNext \in 0..docNext
    BY <1>1 DEF RFacts
  <2> QED BY <1>1, <2>1, <2>2, <2>3 DEF RFacts
<1>6. SeqNow' = entry.seq
  <2>1. docNext' # 0 /\ docNext' - 1 = docNext
    BY <1>1, <1>4 DEF RFacts
  <2>2. SeqNow' = stream'[docNext' - 1].seq
    BY <2>1 DEF SeqNow
  <2> QED BY <1>5, <2>1, <2>2
<1>7. OneSequence(ds, ps, n, stream', entry.seq) /\ AllHeld(ds, n, m, total)
  BY <1>1, <1>5, AppendKeepsSequence DEF RFacts, AddedDocs, AddedPocs, AddedMap
<1> QED BY <1>2, <1>3, <1>4, <1>5, <1>6, <1>7

(* apoc_add accepts an AU and, with a full window, shows one.               *)
LEMMA AddAccepts ==
    ASSUME RInv, NEW poc \in Pocs, NEW max \in Nat \ {0}, dpCnt < max, dpCnt < DP_CNT_MAX,
           Add(poc, max), NEW entry, entry.poc = poc,
           stream' = Append0(stream, docNext, entry),
           dpCnt = 0 \/ (entry.seq = SeqNow /\ max = dpCntMax)
    PROVE  /\ OneSequence(docs', pocs', dpCnt', stream', SeqNow')
           /\ AllHeld(docs', dpCnt', pocOut', docNext')
           /\ Abs!Accept
<1> USE ReorderAssumption
<1> DEFINE ds == AddedDocs
           ps == AddedPocs(poc)
           m  == AddedMap
           n == dpCnt + 1
           total == docNext + 1
<1>1. /\ RFacts
      /\ n \in 1..DP_CNT_MAX /\ n \in Nat /\ total \in Nat /\ n - 1 = dpCnt /\ total - 1 = docNext
  BY RInvFacts DEF RFacts
<1>2. /\ ds \in [0..(n - 1) -> 0..(total - 1)]
      /\ ps \in [0..(n - 1) -> Pocs]
      /\ m \in [0..(total - 1) -> {-1} \cup Nat]
      /\ WindowInv(ds, n, pocOutNext, reorderMin, m, total, mapSize)
      /\ docNext' = total /\ dpCntMax' = max /\ dpCnt' < max
      /\ WindowType' /\ WindowInvNow'
      /\ DOMAIN stream' = 0..(total - 1)
      /\ \A d \in 0..(docNext - 1) : stream'[d] = stream[d]
      /\ stream'[docNext] = entry
      /\ SeqNow' = entry.seq
      /\ OneSequence(ds, ps, n, stream', entry.seq)
      /\ AllHeld(ds, n, m, total)
  BY WindowAppended
<1>3. /\ InOrder(m, total, pocOutNext) = Shown
      /\ ShownOf(m, total) = ShownOf(pocOut, docNext)
  BY <1>1, AppendSameOrder, ShownIsInOrder DEF RFacts, AddedMap
<1>4. Cardinality(DOMAIN stream) = docNext
  <2>1. 0 \in Int /\ docNext - 1 \in Int /\ (IF 0 > docNext - 1 THEN 0 ELSE (docNext - 1) - 0 + 1) = docNext
    BY <1>1 DEF RFacts
  <2> QED BY <1>1, <2>1, FS_Interval DEF RFacts
<1>5. dpCnt = 0 => Abs!Waiting(stream, Shown) = {}
  <2>1. Abs!ShownSet(Shown) = ShownOf(pocOut, docNext)
    <3>1. Abs!ShownSet(InOrder(pocOut, docNext, pocOutNext)) = ShownOf(pocOut, docNext)
      <4>1. /\ docNext \in Nat /\ pocOutNext \in Nat
            /\ pocOut \in [0..(docNext - 1) -> {-1} \cup Nat]
            /\ OnePerPosition(pocOut, docNext, pocOutNext)
        BY <1>1 DEF RFacts
      <4> QED BY <4>1, ShownSetIsShownOf
    <3> QED BY <3>1, ShownIsInOrder
  <2> QED
    <3>1. /\ docNext \in Nat /\ dpCnt \in Nat /\ DOMAIN stream = 0..(docNext - 1)
          /\ docs \in [0..(dpCnt - 1) -> 0..(docNext - 1)]
          /\ pocOut \in [0..(docNext - 1) -> {-1} \cup Nat]
          /\ Unshown(docs, dpCnt, pocOut) /\ AllHeld(docs, dpCnt, pocOut, docNext)
      BY <1>1 DEF RFacts
    <3> QED BY <2>1, <3>1, WaitingFits
<1> HIDE DEF ds, ps, m
<1>6. /\ OneSequence(docs', pocs', dpCnt', stream', entry.seq)
      /\ AllHeld(docs', dpCnt', pocOut', docNext')
      /\ Shown' = Shown \/ Abs!ShowsNext(stream', Shown, Shown')
  <2>1. CASE dpCnt + 1 < max
    <3>1. /\ dpCnt' = n /\ docs' = ds /\ pocs' = ps /\ pocOut' = m
          /\ pocOutNext' = pocOutNext
      BY <1>1, <2>1 DEF RFacts, Add, ds, ps, m, AddedDocs, AddedPocs, AddedMap, results
    <3>2. Shown' = Shown
      BY <1>2, <1>3, <3>1, ShownIsInOrder
    <3> QED BY <1>2, <3>1, <3>2
  <2>2. CASE dpCnt + 1 >= max
    <3>1. OutputMin(ds, ps, n, m)
      BY <1>1, <2>2 DEF RFacts, Add, ds, ps, m, AddedDocs, AddedPocs, AddedMap
    <3> HIDE DEF n, total
    <3>2. /\ OneSequence(docs', pocs', dpCnt', stream', entry.seq)
          /\ AllHeld(docs', dpCnt', pocOut', total)
          /\ Abs!ShowsNext(stream', InOrder(m, total, pocOutNext),
                            InOrder(pocOut', total, pocOutNext'))
      BY <1>1, <1>2, <3>1, OutputShowsNext DEF RFacts
    <3> QED BY <1>2, <1>3, <3>2, ShownIsInOrder
  <2> QED BY <1>1, <2>1, <2>2 DEF RFacts
<1>7. /\ Cardinality(Abs!Waiting(stream', Shown')) \in Nat
      /\ Cardinality(Abs!Waiting(stream', Shown')) <= dpCnt'
  <2>1. /\ dpCnt' \in Nat /\ pocOutNext' \in Nat
        /\ docs' \in [0..(dpCnt' - 1) -> 0..(total - 1)]
        /\ pocOut' \in [0..(total - 1) -> {-1} \cup Nat]
    <3>1. WindowType' /\ docNext' = total
      BY <1>2
    <3> HIDE DEF total
    <3>2. /\ dpCnt' \in 0..DP_CNT_MAX /\ pocOutNext' \in 0..total
          /\ docs' \in [0..(dpCnt' - 1) -> 0..(total - 1)]
          /\ pocOut' \in [0..(total - 1) -> {-1} \cup Nat]
      BY <3>1 DEF WindowType, Fed
    <3>3. dpCnt' \in Nat
      BY <3>2
    <3>4. total \in Nat
      BY <1>1 DEF RFacts
    <3>5. pocOutNext' \in Nat
      BY <3>2, <3>4
    <3> QED BY <3>2, <3>3, <3>5
  <2>2. /\ OnePerPosition(pocOut', total, pocOutNext')
        /\ Unshown(docs', dpCnt', pocOut')
    BY <1>2 DEF WindowInvNow, WindowInv
  <2>3. Abs!ShownSet(Shown') = ShownOf(pocOut', total)
    <3>1. Abs!ShownSet(InOrder(pocOut', total, pocOutNext')) = ShownOf(pocOut', total)
      <4>1. total \in Nat
        BY <1>1 DEF RFacts
      <4> QED BY <2>1, <2>2, <4>1, ShownSetIsShownOf
    <3> QED BY <1>2, <3>1, ShownIsInOrder
  <2>4. total \in Nat /\ DOMAIN stream' = 0..(total - 1) /\ docNext' = total
    BY <1>1, <1>2
  <2>5. AllHeld(docs', dpCnt', pocOut', total)
    BY <1>6, <2>4
  <2> HIDE DEF total
  <2> QED BY <2>1, <2>2, <2>3, <2>4, <2>5, WaitingFits
<1>8. Cardinality(Abs!Waiting(stream', Shown')) <= dpCntMax' - 1
  <2>1. dpCnt' \in Nat /\ dpCntMax' \in Nat /\ dpCnt' < dpCntMax'
    BY <1>2 DEF WindowType
  <2> QED BY <1>7, <2>1
<1>9. dpCntMax' - 1 = dpCntMax - 1 \/ Abs!Waiting(stream, Shown) = {}
  BY <1>2, <1>5
<1>10. Abs!Accept
  <2>1. DOMAIN stream' = 0..docNext
    BY <1>1, <1>2
  <2> QED BY <1>2, <1>4, <1>6, <1>8, <1>9, <2>1, SameCardinality DEF Abs!Accept
<1>11. SeqNow' = entry.seq
  BY <1>2
<1> QED BY <1>6, <1>10, <1>11
-----------------------------------------------------------------------------
(* The two additional facts are kept by every step, and every step is one   *)
(* of DisplayOrder's: a turn of apoc_flush shows the next AU, apoc_add      *)
(* accepts one, the other steps change nothing it can see.                  *)
LEMMA StepRefines ==
    ASSUME RInv, [Next]_vars
    PROVE  RInv' /\ [Abs!ANext]_(Abs!avars)
<1> USE ReorderAssumption
<1>1. IInv' /\ IInv /\ TypeOK
  BY NextIInv DEF RInv, IInv
<1>2. CASE UNCHANGED <<window, docNext, results, pocOut, stream>>
  <2>1. RInv'
    BY <1>1, <1>2 DEF RInv, OneSequence, AllHeld, SeqNow, window, results
  <2>2. UNCHANGED <<dpCntMax, docNext, pocOutNext, pocOut, stream>>
    BY <1>2 DEF window, results
  <2>3. Shown' = Shown
    BY <2>2, ShownIsInOrder
  <2> QED BY <2>1, <2>2, <2>3 DEF Abs!avars
<1>3. ASSUME NEW poc \in Pocs, AddPicture(poc) PROVE RInv' /\ Abs!ANext
  <2> DEFINE entry == [stream[docNext - 1] EXCEPT !.poc = poc]
  <2>1. /\ dpCntMax \in Nat \ {0} /\ dpCnt < dpCntMax /\ dpCnt < DP_CNT_MAX
        /\ Add(poc, dpCntMax)
        /\ 0 < docNext /\ docNext \in Nat
        /\ stream' = Append0(stream, docNext, entry)
    BY <1>1, <1>3 DEF AddPicture, TypeOK, IInv, WindowBelowDepth
  <2>2. stream[docNext - 1] \in [seq : Nat, depth : Depths, poc : Pocs]
    BY <1>1, <2>1 DEF TypeOK, Fed
  <2>3. entry.poc = poc /\ entry.seq = stream[docNext - 1].seq
    BY <2>2
  <2>4. SeqNow = stream[docNext - 1].seq
    BY <2>1 DEF SeqNow
  <2> HIDE DEF entry
  <2>5. /\ OneSequence(docs', pocs', dpCnt', stream', SeqNow')
        /\ AllHeld(docs', dpCnt', pocOut', docNext')
        /\ Abs!Accept
    BY <2>1, <2>3, <2>4, AddAccepts
  <2> QED BY <1>1, <2>5 DEF RInv, Abs!ANext
<1>4. CASE AddSequenceStart
  <2> DEFINE entry == [seq |-> SeqNow + 1, depth |-> pending.depth, poc |-> pending.poc]
  <2>1. /\ pending \in SequenceStart /\ dpCnt = 0
        /\ Add(pending.poc, pending.depth + 1)
        /\ stream' = Append0(stream, docNext, entry)
    BY <1>1, <1>4 DEF AddSequenceStart, TypeOK, StartSeq
  <2>2. pending.poc \in Pocs /\ pending.depth \in Nat
    BY <2>1 DEF SequenceStart
  <2>3. pending.depth + 1 \in Nat \ {0} /\ dpCnt < pending.depth + 1 /\ dpCnt < DP_CNT_MAX
    BY <2>1, <2>2
  <2>4. entry.poc = pending.poc
    OBVIOUS
  <2> HIDE DEF entry
  <2>5. /\ OneSequence(docs', pocs', dpCnt', stream', SeqNow')
        /\ AllHeld(docs', dpCnt', pocOut', docNext')
        /\ Abs!Accept
    BY <2>1, <2>2, <2>3, <2>4, AddAccepts
  <2> QED BY <1>1, <2>5 DEF RInv, Abs!ANext
<1>5. CASE FlushOne
  <2>1. /\ dpCnt \in 1..DP_CNT_MAX /\ docNext \in Nat /\ pocOutNext \in Nat
        /\ reorderMin \in Nat /\ mapSize \in Nat
        /\ docs \in [0..(dpCnt - 1) -> 0..(docNext - 1)]
        /\ pocs \in [0..(dpCnt - 1) -> Pocs]
        /\ pocOut \in [0..(docNext - 1) -> {-1} \cup Nat]
        /\ DOMAIN stream = 0..(docNext - 1)
        /\ OutputMin(docs, pocs, dpCnt, pocOut)
    BY <1>1, <1>5 DEF FlushOne, TypeOK, Fed
  <2>2. UNCHANGED <<dpCntMax, docNext, stream>>
    BY <1>5 DEF FlushOne
  <2>3. /\ WindowInv(docs, dpCnt, pocOutNext, reorderMin, pocOut, docNext, mapSize)
        /\ OneSequence(docs, pocs, dpCnt, stream, SeqNow)
        /\ AllHeld(docs, dpCnt, pocOut, docNext)
    BY DEF RInv, IInv
  <2>4. /\ OneSequence(docs', pocs', dpCnt', stream, SeqNow)
        /\ AllHeld(docs', dpCnt', pocOut', docNext)
        /\ Abs!ShowsNext(stream, InOrder(pocOut, docNext, pocOutNext),
                          InOrder(pocOut', docNext, pocOutNext'))
    BY <2>1, <2>3, OutputShowsNext
  <2>5. SeqNow' = SeqNow
    BY <2>2 DEF SeqNow
  <2>6. RInv'
    BY <1>1, <2>2, <2>4, <2>5 DEF RInv
  <2>7. Abs!ShowsNext(stream, Shown, Shown')
    BY <2>2, <2>4, ShownIsInOrder
  <2>8. Abs!Show
    BY <2>2, <2>7 DEF Abs!Show
  <2> QED BY <2>6, <2>8 DEF Abs!ANext
<1> QED
  BY <1>2, <1>3, <1>4, <1>5
     DEF Next, Overrun, BeginSequence, EndStream, StreamFlushed, vars, window, results

(* The initial state is one of DisplayOrder's.                              *)
LEMMA InitRefines == Init => RInv /\ Abs!AInit
<1> SUFFICES ASSUME Init PROVE RInv /\ Abs!AInit
  OBVIOUS
<1> USE ReorderAssumption
<1>1. dpCnt = 0 /\ docNext = 0 /\ pocOutNext = 0 /\ stream = Empty /\ dpCntMax = DP_CNT_MAX
  BY DEF Init
<1>2. RInv
  <2>1. 0..(0 - 1) = {}
    OBVIOUS
  <2> QED BY <1>1, <2>1, InitIInv DEF RInv, OneSequence, AllHeld
<1>3. Shown = << >>
  <2>1. 1..0 = {}
    OBVIOUS
  <2>2. Shown = [p \in {} |-> CHOOSE d \in Displayed : pocOut[d] = p - 1]
    BY <1>1, <2>1 DEF Shown
  <2> QED BY <2>2
<1>4. dpCntMax - 1 \in Nat
  BY <1>1
<1> QED BY <1>1, <1>2, <1>3, <1>4 DEF Abs!AInit, Empty

(* The reordering buffer of parser_avc_dpb.c keeps the promise of           *)
(* DisplayOrder: it shows the AUs one by one, each time the first in        *)
(* display order of those that wait, keeps at most the announced number     *)
(* waiting, and never mixes two sequences.                                  *)
THEOREM BufferImplementsDisplayOrder == Spec => ImplementsDisplayOrder
<1>1. Init => RInv /\ Abs!AInit
  BY InitRefines
<1>2. RInv /\ [Next]_vars => RInv' /\ [Abs!ANext]_(Abs!avars)
  BY StepRefines
<1>3. Spec => Abs!ASpec
  BY <1>1, <1>2, PTL DEF Spec, Abs!ASpec
<1> QED BY <1>3 DEF ImplementsDisplayOrder
-----------------------------------------------------------------------------

(* Reorder's definitions as predicates of a stream st of total AUs.         *)
Prec(st, d, e) ==
    \/ st[d].seq < st[e].seq
    \/ st[d].seq = st[e].seq /\ st[d].poc < st[e].poc

Later(st, d) == {e \in 0..(d - 1) : st[e].seq = st[d].seq /\ st[e].poc > st[d].poc}

ConformsIn(st, total) ==
    \A d \in 0..(total - 1) : Cardinality(Later(st, d)) <= st[d].depth

(* No AU that waits belongs before one that is displayed, and those that    *)
(* are displayed are in order.                                              *)
NoneLeftBehind(m, total, st) ==
    \A e \in ShownOf(m, total), d \in 0..(total - 1) : m[d] < 0 => ~Prec(st, d, e)

PocOrder(m, total, st) ==
    \A d, e \in ShownOf(m, total) : Prec(st, d, e) => m[d] < m[e]

(* The AUs of a sequence that are not before POC p.                         *)
Crowd(st, total, seq, p) ==
    {x \in 0..(total - 1) : st[x].seq = seq /\ st[x].poc >= p}

Crowded(m, total, st, seq, max) ==
    \A e \in ShownOf(m, total) :
        st[e].seq = seq => Cardinality(Crowd(st, total, seq, st[e].poc)) >= max

StreamSet == [seq : Nat, depth : Depths, poc : Pocs]

SeqsUpTo(st, total, seq)   == \A d \in 0..(total - 1) : st[d].seq <= seq
DepthIs(st, total, seq, max) ==
    \A d \in 0..(total - 1) : st[d].seq = seq => st[d].depth + 1 = max

(* reorder_min is known to be final as soon as the reference AUs are shown, *)
(* and the AU shown first is remembered.                                    *)
ReadyInTime == RefsResolved(pocOut) => reorderMinReady
FirstKnown  == pocOutNext > 0 => docAtPocMin \in Displayed /\ pocOut[docAtPocMin] = 0
DoneEmpty   == pc = "done" => dpCnt = 0

OInv ==
    /\ RInv
    /\ SeqsUpTo(stream, docNext, SeqNow)
    /\ DepthIs(stream, docNext, SeqNow, dpCntMax)
    /\ pc = "idle" => Crowded(pocOut, docNext, stream, SeqNow, dpCntMax)
    /\ ConformsIn(stream, docNext) =>
          /\ NoneLeftBehind(pocOut, docNext, stream)
          /\ PocOrder(pocOut, docNext, stream)
    /\ ReadyInTime /\ FirstKnown /\ DoneEmpty
-----------------------------------------------------------------------------
(* Fields of a stream entry, kept apart from the record set they come from. *)
LEMMA EntryFields ==
    ASSUME NEW S, NEW st \in [S -> StreamSet], NEW d \in S
    PROVE  st[d].seq \in Nat /\ st[d].depth \in Nat /\ st[d].poc \in Int
<1>1. st[d] \in StreamSet
  OBVIOUS
<1>2. st[d].seq \in Nat /\ st[d].depth \in Depths /\ st[d].poc \in Pocs
  BY <1>1 DEF StreamSet
<1>3. st[d].poc \in Int
  BY <1>2, ReorderAssumption
<1>4. st[d].depth \in Nat
  BY <1>2, ReorderAssumption
<1> QED BY <1>2, <1>3, <1>4

(* Finite sets of docs.                                                     *)
LEMMA CrowdIsFinite ==
    ASSUME NEW total \in Nat, NEW st, NEW seq, NEW p
    PROVE  /\ IsFiniteSet(Crowd(st, total, seq, p))
           /\ Cardinality(Crowd(st, total, seq, p)) \in Nat
<1>1. IsFiniteSet(0..(total - 1))
  <2>1. 0 \in Int /\ total - 1 \in Int
    OBVIOUS
  <2> QED BY <2>1, FS_Interval
<1>2. Crowd(st, total, seq, p) \in SUBSET (0..(total - 1))
  BY DEF Crowd
<1>3. IsFiniteSet(Crowd(st, total, seq, p))
  BY <1>1, <1>2, FS_Subset
<1> QED BY <1>3, FS_CardinalityType

(* A crowd grows with the stream.                                           *)
LEMMA CrowdGrows ==
    ASSUME NEW total \in Nat, NEW st, NEW st2, NEW seq, NEW p,
           \A d \in 0..(total - 1) : st2[d] = st[d]
    PROVE  Cardinality(Crowd(st, total, seq, p))
             <= Cardinality(Crowd(st2, total + 1, seq, p))
<1>1. Crowd(st, total, seq, p) \in SUBSET Crowd(st2, total + 1, seq, p)
  BY DEF Crowd
<1>2. IsFiniteSet(Crowd(st2, total + 1, seq, p))
  <2>1. total + 1 \in Nat
    OBVIOUS
  <2> QED BY <2>1, CrowdIsFinite
<1> QED BY <1>1, <1>2, FS_Subset

(* A window whose smallest POC is at k is a crowd of n.                     *)
LEMMA WindowIsCrowd ==
    ASSUME NEW n \in Nat, NEW total \in Nat, NEW st, NEW seq,
           NEW ds \in [0..(n - 1) -> 0..(total - 1)],
           NEW ps \in [0..(n - 1) -> Pocs],
           Ordered(ds, n), OneSequence(ds, ps, n, st, seq),
           NEW k \in 0..(n - 1), FirstMin(ps, n, k)
    PROVE  n <= Cardinality(Crowd(st, total, seq, st[ds[k]].poc))
<1> DEFINE C == Crowd(st, total, seq, st[ds[k]].poc)
<1>1. \A i \in 0..(n - 1) : ds[i] \in C
  <2> TAKE i \in 0..(n - 1)
  <2>1. /\ ps[i] = st[ds[i]].poc /\ st[ds[i]].seq = seq
        /\ ps[k] = st[ds[k]].poc /\ ps[k] <= ps[i]
    BY DEF OneSequence, FirstMin
  <2>2. ps[k] \in Int /\ ps[i] \in Int
    <3>1. ps[k] \in Pocs /\ ps[i] \in Pocs
      OBVIOUS
    <3> QED BY <3>1, ReorderAssumption
  <2>3. st[ds[i]].poc >= st[ds[k]].poc
    BY <2>1, <2>2
  <2>4. ds[i] \in 0..(total - 1)
    OBVIOUS
  <2> QED BY <2>1, <2>3, <2>4 DEF Crowd
<1>2. \A i, j \in 0..(n - 1) : ds[i] = ds[j] => i = j
  BY DEF Ordered
<1>3. IsFiniteSet(C)
  BY CrowdIsFinite
<1> HIDE DEF C
<1>4. ds \in Injection(0..(n - 1), C)
  BY <1>1, <1>2 DEF Injection, IsInjective
<1>5. Cardinality(0..(n - 1)) <= Cardinality(C)
  BY <1>3, <1>4, FS_Injection
<1>6. Cardinality(0..(n - 1)) = n
  <2>1. 0 \in Int /\ n - 1 \in Int /\ (IF 0 > n - 1 THEN 0 ELSE (n - 1) - 0 + 1) = n
    OBVIOUS
  <2> QED BY <2>1, FS_Interval
<1> QED BY <1>5, <1>6 DEF C

(* What a stream conformed to it has conformed to before.                   *)
LEMMA PrefixConforms ==
    ASSUME NEW total \in Nat, NEW st, NEW st2,
           \A d \in 0..(total - 1) : st2[d] = st[d],
           ConformsIn(st2, total + 1)
    PROVE  ConformsIn(st, total)
<1> SUFFICES ASSUME NEW d \in 0..(total - 1)
             PROVE  Cardinality(Later(st, d)) <= st[d].depth
  BY DEF ConformsIn
<1>1. Later(st2, d) = Later(st, d)
  BY DEF Later
<1>2. d \in 0..((total + 1) - 1)
  OBVIOUS
<1> QED BY <1>1, <1>2 DEF ConformsIn

(* An AU that belongs before a displayed one of its sequence and comes      *)
(* after a crowd of max of them breaks the depth max - 1.                   *)
LEMMA CrowdForbidsOvertaking ==
    ASSUME NEW total \in Nat, NEW st2 \in [0..total -> StreamSet],
           NEW max \in Nat, NEW p \in Int,
           ConformsIn(st2, total + 1), st2[total].depth + 1 = max,
           Cardinality(Crowd(st2, total, st2[total].seq, p)) >= max
    PROVE  ~(st2[total].poc < p)
<1> SUFFICES ASSUME st2[total].poc < p PROVE FALSE
  OBVIOUS
<1> DEFINE C == Crowd(st2, total, st2[total].seq, p)
           L == Later(st2, total)
<1>1. \A x \in 0..total : st2[x].poc \in Int /\ st2[x].depth \in Nat
  BY EntryFields
<1>2. total \in 0..total /\ \A x \in 0..(total - 1) : x \in 0..total
  OBVIOUS
<1>3. C \in SUBSET L
  BY <1>1, <1>2 DEF Crowd, Later
<1>4. IsFiniteSet(L)
  <2>1. 0 \in Int /\ total - 1 \in Int
    OBVIOUS
  <2>2. IsFiniteSet(0..(total - 1))
    BY <2>1, FS_Interval
  <2>3. L \in SUBSET (0..(total - 1))
    BY DEF Later
  <2> QED BY <2>2, <2>3, FS_Subset
<1>5. Cardinality(C) \in Nat
  BY CrowdIsFinite
<1>6. Cardinality(L) \in Nat
  BY <1>4, FS_CardinalityType
<1>7. Cardinality(L) <= st2[total].depth
  <2>1. total \in 0..((total + 1) - 1)
    OBVIOUS
  <2> QED BY <2>1 DEF ConformsIn
<1>8. Cardinality(C) <= Cardinality(L)
  BY <1>3, <1>4, FS_Subset
<1>9. st2[total].depth \in Nat
  BY <1>1, <1>2
<1> HIDE DEF C, L
<1>10. Cardinality(C) >= max
  BY DEF C
<1> QED BY <1>5, <1>6, <1>7, <1>8, <1>9, <1>10
-----------------------------------------------------------------------------
(* Outputting the first of the window leaves nothing behind.                *)
LEMMA OutputKeepsOrder ==
    ASSUME NEW n \in 1..DP_CNT_MAX, NEW total \in Nat, NEW next \in Nat, NEW seq,
           NEW st \in [0..(total - 1) -> StreamSet],
           NEW ds \in [0..(n - 1) -> 0..(total - 1)],
           NEW ps \in [0..(n - 1) -> Pocs],
           NEW m \in [0..(total - 1) -> {-1} \cup Nat],
           Unshown(ds, n, m), OnePerPosition(m, total, next),
           OneSequence(ds, ps, n, st, seq), AllHeld(ds, n, m, total),
           NoneLeftBehind(m, total, st), PocOrder(m, total, st),
           NEW k \in 0..(n - 1), FirstMin(ps, n, k)
    PROVE  /\ NoneLeftBehind([m EXCEPT ![ds[k]] = next], total, st)
           /\ PocOrder([m EXCEPT ![ds[k]] = next], total, st)
<1> DEFINE w == [m EXCEPT ![ds[k]] = next]
           D == ds[k]
<1>1. /\ D \in 0..(total - 1) /\ m[D] = -1 /\ w[D] = next
      /\ \A d \in 0..(total - 1) : d # D => w[d] = m[d]
  BY DEF Unshown
<1>2. \A d \in 0..(total - 1) : st[d].seq \in Nat /\ st[d].poc \in Int
  BY EntryFields
<1>3. ~Prec(st, D, D)
  BY <1>1, <1>2 DEF Prec
<1>4. ASSUME NEW d \in 0..(total - 1), m[d] < 0
      PROVE  ~Prec(st, d, D)
  <2>1. PICK i \in 0..(n - 1) : ds[i] = d
    BY <1>4 DEF AllHeld
  <2>2. /\ ps[i] = st[d].poc /\ ps[k] = st[D].poc
        /\ st[d].seq = st[D].seq
    BY <2>1 DEF OneSequence
  <2>3. ps[k] <= ps[i]
    BY DEF FirstMin
  <2>4. /\ st[d].seq \in Nat /\ st[d].poc \in Int
        /\ st[D].seq \in Nat /\ st[D].poc \in Int
    BY <1>1, <1>2
  <2> HIDE DEF D
  <2> QED BY <2>2, <2>3, <2>4 DEF Prec
<1>5. ShownOf(w, total) = ShownOf(m, total) \cup {D}
  BY <1>1 DEF ShownOf
<1>6. \A d \in ShownOf(m, total) : d \in 0..(total - 1) /\ d # D /\ w[d] = m[d] /\ m[d] < next
  BY <1>1 DEF ShownOf, OnePerPosition
<1> HIDE DEF w, D
<1>7. ASSUME NEW e \in ShownOf(w, total), NEW d \in 0..(total - 1), w[d] < 0
      PROVE  ~Prec(st, d, e)
  <2>1. d # D /\ m[d] < 0
    BY <1>1, <1>7
  <2>2. CASE e = D
    BY <1>4, <2>1, <2>2
  <2>3. CASE e \in ShownOf(m, total)
    BY <2>1, <2>3 DEF NoneLeftBehind
  <2> QED BY <1>5, <2>2, <2>3
<1>8. ASSUME NEW d \in ShownOf(w, total), NEW e \in ShownOf(w, total), Prec(st, d, e)
      PROVE  w[d] < w[e]
  <2>1. CASE e = D
    <3>1. d # D
      BY <1>3, <1>8, <2>1
    <3> QED BY <1>1, <1>5, <1>6, <2>1, <3>1
  <2>2. CASE e # D /\ d = D
    <3>1. e \in ShownOf(m, total)
      BY <1>5, <2>2
    <3>2. m[D] < 0
      BY <1>1
    <3>3. ~Prec(st, D, e)
      BY <1>1, <3>1, <3>2 DEF NoneLeftBehind
    <3> QED BY <1>8, <2>2, <3>3
  <2>3. CASE e # D /\ d # D
    <3>1. d \in ShownOf(m, total) /\ e \in ShownOf(m, total)
      BY <1>5, <2>3
    <3>2. m[d] < m[e]
      BY <1>8, <3>1 DEF PocOrder
    <3> QED BY <1>6, <3>1, <3>2
  <2> QED BY <2>1, <2>2, <2>3
<1> QED BY <1>7, <1>8 DEF NoneLeftBehind, PocOrder, w, D

(* Adding an AU does not either, for its sequence is the last, and if it    *)
(* goes on, every AU of it that is displayed has its crowd.                 *)
LEMMA AppendKeepsOrder ==
    ASSUME NEW total \in Nat, NEW seq, NEW max \in Nat,
           NEW st \in [0..(total - 1) -> StreamSet],
           NEW st2 \in [0..total -> StreamSet],
           NEW m \in [0..(total - 1) -> {-1} \cup Nat],
           \A d \in 0..(total - 1) : st2[d] = st[d],
           ConformsIn(st2, total + 1), st2[total].depth + 1 = max,
           \A d \in 0..(total - 1) : st[d].seq <= st2[total].seq,
           Crowded(m, total, st, st2[total].seq, max),
           NoneLeftBehind(m, total, st), PocOrder(m, total, st)
    PROVE  /\ NoneLeftBehind(Append0(m, total, -1), total + 1, st2)
           /\ PocOrder(Append0(m, total, -1), total + 1, st2)
<1> DEFINE w == Append0(m, total, -1)
<1>1. /\ \A d \in 0..(total - 1) : w[d] = m[d]
      /\ w[total] = -1
      /\ \A d \in 0..((total + 1) - 1) : d \in 0..(total - 1) \/ d = total
  BY DEF Append0
<1>2. ShownOf(w, total + 1) = ShownOf(m, total)
  BY AppendSameOrder
<1> HIDE DEF w
<1>3. \A d \in ShownOf(m, total) : d \in 0..(total - 1)
  BY DEF ShownOf
<1>4. \A d \in 0..(total - 1) : \A e \in 0..(total - 1) : Prec(st2, d, e) <=> Prec(st, d, e)
  BY DEF Prec
<1>5. ASSUME NEW e \in ShownOf(m, total)
      PROVE  ~Prec(st2, total, e)
  <2>1. e \in 0..(total - 1) /\ e \in 0..total /\ total \in 0..total
    BY <1>3
  <2>2. /\ st2[e].seq \in Nat /\ st2[e].poc \in Int
        /\ st2[total].seq \in Nat /\ st2[total].poc \in Int
    <3>1. \A x \in 0..total : st2[x].seq \in Nat /\ st2[x].poc \in Int
      BY EntryFields
    <3> QED BY <2>1, <3>1
  <2>3. st2[e] = st[e] /\ st[e].seq <= st2[total].seq
    BY <2>1
  <2>4. ~(st2[total].seq < st2[e].seq)
    BY <2>2, <2>3
  <2>5. ASSUME st2[total].seq = st2[e].seq
        PROVE  ~(st2[total].poc < st2[e].poc)
    <3> DEFINE p == st2[e].poc
               s == st2[total].seq
    <3>1. Cardinality(Crowd(st, total, s, p)) >= max
      BY <2>3, <2>5 DEF Crowded
    <3>2. Crowd(st2, total, s, p) = Crowd(st, total, s, p)
      BY DEF Crowd
    <3>3. p \in Int /\ Cardinality(Crowd(st2, total, st2[total].seq, p)) >= max
      BY <2>2, <3>1, <3>2
    <3> HIDE DEF p, s
    <3>4. ~(st2[total].poc < p)
      BY <3>3, CrowdForbidsOvertaking
    <3> QED BY <3>4 DEF p
  <2> QED BY <2>4, <2>5 DEF Prec
<1>6. ASSUME NEW e \in ShownOf(w, total + 1), NEW d \in 0..((total + 1) - 1), w[d] < 0
      PROVE  ~Prec(st2, d, e)
  <2>1. CASE d = total
    BY <1>2, <1>5, <2>1
  <2>2. CASE d \in 0..(total - 1)
    <3>1. m[d] < 0 /\ e \in ShownOf(m, total)
      BY <1>1, <1>2, <1>6, <2>2
    <3>2. ~Prec(st, d, e)
      BY <2>2, <3>1 DEF NoneLeftBehind
    <3> QED BY <1>3, <1>4, <2>2, <3>1, <3>2
  <2> QED BY <1>1, <2>1, <2>2
<1>7. ASSUME NEW d \in ShownOf(w, total + 1), NEW e \in ShownOf(w, total + 1), Prec(st2, d, e)
      PROVE  w[d] < w[e]
  <2>1. d \in ShownOf(m, total) /\ e \in ShownOf(m, total)
    BY <1>2
  <2>2. Prec(st, d, e)
    BY <1>3, <1>4, <1>7, <2>1
  <2>3. m[d] < m[e]
    BY <2>1, <2>2 DEF PocOrder
  <2> QED BY <1>1, <1>3, <2>1, <2>3
<1> QED BY <1>6, <1>7 DEF NoneLeftBehind, PocOrder, w
-----------------------------------------------------------------------------
(* The same of apoc_update: order, crowds, readiness, the first AU shown.   *)
First(m, total, next, d) == next > 0 => d \in ShownOf(m, total) /\ m[d] = 0

LEMMA OutputOrders ==
    ASSUME NEW n \in 1..DP_CNT_MAX, NEW total \in Nat, NEW seq,
           NEW st \in [0..(total - 1) -> StreamSet],
           NEW ds \in [0..(n - 1) -> 0..(total - 1)],
           NEW ps \in [0..(n - 1) -> Pocs],
           NEW m \in [0..(total - 1) -> {-1} \cup Nat],
           pocOutNext \in Nat,
           WindowInv(ds, n, pocOutNext, reorderMin, m, total, mapSize),
           OneSequence(ds, ps, n, st, seq), AllHeld(ds, n, m, total),
           OutputMin(ds, ps, n, m),
           First(m, total, pocOutNext, docAtPocMin)
    PROVE  /\ NoneLeftBehind(m, total, st) /\ PocOrder(m, total, st)
                => NoneLeftBehind(pocOut', total, st) /\ PocOrder(pocOut', total, st)
           /\ \A max \in Nat : n >= max /\ Crowded(m, total, st, seq, max)
                => Crowded(pocOut', total, st, seq, max)
           /\ ReadyInTime'
           /\ First(pocOut', total, pocOutNext', docAtPocMin')
<1>1. PICK k \in 0..(n - 1) :
         /\ FirstMin(ps, n, k)
         /\ docAtPocMin' = IF pocOutNext = 0 THEN ds[k] ELSE docAtPocMin
         /\ pocOut' = [m EXCEPT ![ds[k]] = pocOutNext]
         /\ pocOutNext' = pocOutNext + 1
         /\ reorderMinReady' = (reorderMinReady \/ RefsResolved(pocOut'))
  BY DEF OutputMin
<1>2. /\ Unshown(ds, n, m) /\ Ordered(ds, n) /\ OnePerPosition(m, total, pocOutNext)
  BY DEF WindowInv
<1> DEFINE w == [m EXCEPT ![ds[k]] = pocOutNext]
<1>3. /\ ds[k] \in 0..(total - 1) /\ m[ds[k]] = -1 /\ w[ds[k]] = pocOutNext
      /\ \A d \in 0..(total - 1) : d # ds[k] => w[d] = m[d]
  BY <1>2 DEF Unshown
<1>4. NoneLeftBehind(m, total, st) /\ PocOrder(m, total, st)
        => NoneLeftBehind(w, total, st) /\ PocOrder(w, total, st)
  BY <1>1, <1>2, OutputKeepsOrder
<1> HIDE DEF w
<1>5. ShownOf(w, total) = ShownOf(m, total) \cup {ds[k]}
  BY <1>3 DEF ShownOf
<1>6. ASSUME NEW max \in Nat, n >= max, Crowded(m, total, st, seq, max)
      PROVE  Crowded(w, total, st, seq, max)
  <2> SUFFICES ASSUME NEW e \in ShownOf(w, total), st[e].seq = seq
               PROVE  Cardinality(Crowd(st, total, seq, st[e].poc)) >= max
    BY DEF Crowded
  <2>1. CASE e \in ShownOf(m, total)
    BY <1>6, <2>1 DEF Crowded
  <2>2. CASE e = ds[k]
    <3>1. n \in Nat
      OBVIOUS
    <3>2. n <= Cardinality(Crowd(st, total, seq, st[ds[k]].poc))
      BY <1>1, <1>2, <3>1, WindowIsCrowd
    <3>3. Cardinality(Crowd(st, total, seq, st[ds[k]].poc)) \in Nat
      BY CrowdIsFinite
    <3> QED BY <1>6, <2>2, <3>1, <3>2, <3>3
  <2> QED BY <1>5, <2>1, <2>2
<1>7. ReadyInTime'
  BY <1>1 DEF ReadyInTime
<1>8. First(w, total, pocOutNext', docAtPocMin')
  <2>1. CASE pocOutNext = 0
    BY <1>1, <1>3, <1>5, <2>1 DEF First
  <2>2. CASE pocOutNext # 0
    <3>1. docAtPocMin \in ShownOf(m, total) /\ m[docAtPocMin] = 0
      BY <2>2 DEF First
    <3>2. docAtPocMin \in 0..(total - 1) /\ docAtPocMin # ds[k]
      BY <1>3, <3>1 DEF ShownOf
    <3>3. docAtPocMin' = docAtPocMin
      BY <1>1, <2>2
    <3> QED BY <1>3, <1>5, <3>1, <3>2, <3>3 DEF First
  <2> QED BY <2>1, <2>2
<1> QED BY <1>1, <1>4, <1>6, <1>7, <1>8 DEF w

(* FirstKnown in these terms.                                               *)
LEMMA FirstIsFirstKnown ==
    /\ FirstKnown <=> First(pocOut, docNext, pocOutNext, docAtPocMin)
    /\ FirstKnown' <=> First(pocOut', docNext', pocOutNext', docAtPocMin')
BY DEF FirstKnown, First, Displayed, Fed, ShownOf

(* The same of apoc_add.                                                    *)
LEMMA AddOrders ==
    ASSUME OInv, NEW poc \in Pocs, NEW max \in Nat \ {0}, dpCnt < max, dpCnt < DP_CNT_MAX,
           Add(poc, max), NEW entry \in StreamSet, entry.poc = poc,
           stream' = Append0(stream, docNext, entry), entry.depth + 1 = max,
           \/ pc = "idle" /\ entry.seq = SeqNow /\ max = dpCntMax
           \/ dpCnt = 0 /\ entry.seq = SeqNow + 1
    PROVE  /\ SeqsUpTo(stream', docNext', SeqNow')
           /\ DepthIs(stream', docNext', SeqNow', dpCntMax')
           /\ Crowded(pocOut', docNext', stream', SeqNow', dpCntMax')
           /\ ConformsIn(stream', docNext') =>
                 /\ NoneLeftBehind(pocOut', docNext', stream')
                 /\ PocOrder(pocOut', docNext', stream')
           /\ ReadyInTime' /\ FirstKnown'
<1> USE ReorderAssumption
<1> DEFINE ds == AddedDocs
           ps == AddedPocs(poc)
           m  == AddedMap
           n == dpCnt + 1
           total == docNext + 1
<1>1. /\ RFacts /\ RInv
      /\ n \in 1..DP_CNT_MAX /\ n \in Nat /\ total \in Nat /\ n - 1 = dpCnt /\ total - 1 = docNext
      /\ docNext \in Nat /\ pocOutNext \in Nat
      /\ pocOut \in [0..(docNext - 1) -> {-1} \cup Nat]
  BY RInvFacts DEF RFacts, OInv
<1>2. dpCnt = 0 \/ entry.seq = SeqNow
  OBVIOUS
<1>3. /\ ds \in [0..(n - 1) -> 0..(total - 1)]
      /\ ps \in [0..(n - 1) -> Pocs]
      /\ m \in [0..(total - 1) -> {-1} \cup Nat]
      /\ WindowInv(ds, n, pocOutNext, reorderMin, m, total, mapSize)
      /\ docNext' = total /\ dpCntMax' = max
      /\ \A d \in 0..(docNext - 1) : stream'[d] = stream[d]
      /\ stream'[docNext] = entry
      /\ SeqNow' = entry.seq
      /\ OneSequence(ds, ps, n, stream', entry.seq)
      /\ AllHeld(ds, n, m, total)
  <2> HIDE DEF ds, ps, m
  <2>1. n = dpCnt + 1 /\ total = docNext + 1
    OBVIOUS
  <2> HIDE DEF n, total
  <2>2. /\ AddedDocs \in [0..(n - 1) -> 0..(total - 1)]
        /\ AddedPocs(poc) \in [0..(n - 1) -> Pocs]
        /\ AddedMap \in [0..(total - 1) -> {-1} \cup Nat]
        /\ WindowInv(AddedDocs, n, pocOutNext, reorderMin, AddedMap, total, mapSize)
        /\ docNext' = total /\ dpCntMax' = max
        /\ \A d \in 0..(docNext - 1) : stream'[d] = stream[d]
        /\ stream'[docNext] = entry
        /\ SeqNow' = entry.seq
        /\ OneSequence(AddedDocs, AddedPocs(poc), n, stream', entry.seq)
        /\ AllHeld(AddedDocs, n, AddedMap, total)
    BY <1>1, <1>2, <2>1, WindowAppended
  <2> QED BY <2>2 DEF ds, ps, m
<1> HIDE DEF ds, ps, m
<1>4. stream \in [0..(docNext - 1) -> StreamSet] /\ stream' \in [0..docNext -> StreamSet]
  <2>1. stream \in [0..(docNext - 1) -> StreamSet]
    BY <1>1 DEF RFacts, TypeOK, Fed, StreamSet
  <2>2. \A i \in 0..docNext : i # docNext => i \in 0..(docNext - 1)
    BY <1>1
  <2> QED BY <2>1, <2>2 DEF Append0
<1>5. SeqNow \in Nat /\ entry.seq \in Nat /\ SeqNow <= entry.seq
  <2>1. SeqNow \in Nat
    <3>1. docNext # 0 => docNext - 1 \in 0..(docNext - 1)
      BY <1>1
    <3>2. docNext # 0 => stream[docNext - 1].seq \in Nat
      BY <1>4, <3>1, EntryFields
    <3> QED BY <3>2 DEF SeqNow
  <2>2. entry.seq \in Nat
    BY DEF StreamSet
  <2> QED BY <2>1, <2>2
<1>6. \A d \in 0..(docNext - 1) : stream[d].seq \in Nat /\ stream[d].seq <= SeqNow /\ stream[d].seq <= entry.seq
  <2>1. \A d \in 0..(docNext - 1) : stream[d].seq \in Nat
    BY <1>4, EntryFields
  <2>2. \A d \in 0..(docNext - 1) : stream[d].seq <= SeqNow
    BY DEF OInv, SeqsUpTo
  <2> QED BY <1>5, <2>1, <2>2
<1>7. \A d \in 0..(total - 1) : d \in 0..(docNext - 1) \/ d = docNext
  BY <1>1
<1>8. SeqsUpTo(stream', docNext', SeqNow')
  <2> HIDE DEF total
  <2> QED BY <1>3, <1>5, <1>6, <1>7 DEF SeqsUpTo
<1>9. ASSUME NEW d \in 0..(docNext - 1), stream[d].seq = entry.seq
      PROVE  pc = "idle" /\ entry.seq = SeqNow /\ max = dpCntMax
  <2>1. ~(entry.seq = SeqNow + 1)
    BY <1>5, <1>6, <1>9
  <2> QED BY <2>1
<1>10. DepthIs(stream', docNext', SeqNow', dpCntMax')
  <2> HIDE DEF total
  <2> SUFFICES ASSUME NEW d \in 0..(total - 1), stream'[d].seq = entry.seq
               PROVE  stream'[d].depth + 1 = max
    BY <1>3 DEF DepthIs
  <2>1. CASE d = docNext
    BY <1>3, <2>1
  <2>2. CASE d \in 0..(docNext - 1)
    BY <1>3, <1>9, <2>2 DEF OInv, DepthIs
  <2> QED BY <1>7, <2>1, <2>2
<1>11. ShownOf(m, total) = ShownOf(pocOut, docNext)
  BY <1>1, AppendSameOrder DEF AddedMap, m
<1>12. Crowded(pocOut, docNext, stream, entry.seq, max)
  <2> SUFFICES ASSUME NEW e \in ShownOf(pocOut, docNext), stream[e].seq = entry.seq
               PROVE  Cardinality(Crowd(stream, docNext, entry.seq, stream[e].poc)) >= max
    BY DEF Crowded
  <2>1. e \in 0..(docNext - 1)
    BY DEF ShownOf
  <2>2. pc = "idle" /\ entry.seq = SeqNow /\ max = dpCntMax
    BY <1>9, <2>1
  <2> QED BY <2>2 DEF OInv, Crowded
<1>13. Crowded(m, total, stream', entry.seq, max)
  <2> SUFFICES ASSUME NEW e \in ShownOf(pocOut, docNext), stream'[e].seq = entry.seq
               PROVE  Cardinality(Crowd(stream', total, entry.seq, stream'[e].poc)) >= max
    BY <1>11 DEF Crowded
  <2>1. e \in 0..(docNext - 1)
    BY DEF ShownOf
  <2>2. stream'[e] = stream[e]
    BY <1>3, <2>1
  <2> DEFINE p == stream[e].poc
  <2>3. Cardinality(Crowd(stream, docNext, entry.seq, p)) >= max
    BY <1>12, <2>2 DEF Crowded
  <2> HIDE DEF p
  <2>4. Cardinality(Crowd(stream, docNext, entry.seq, p))
          <= Cardinality(Crowd(stream', docNext + 1, entry.seq, p))
    BY <1>1, <1>3, CrowdGrows
  <2>5. /\ Cardinality(Crowd(stream, docNext, entry.seq, p)) \in Nat
        /\ Cardinality(Crowd(stream', docNext + 1, entry.seq, p)) \in Nat
    BY <1>1, CrowdIsFinite
  <2>6. Cardinality(Crowd(stream', total, entry.seq, p)) >= max
    BY <2>3, <2>4, <2>5
  <2> QED BY <2>2, <2>6 DEF p
<1>14. ASSUME ConformsIn(stream', total)
       PROVE  NoneLeftBehind(m, total, stream') /\ PocOrder(m, total, stream')
  <2>1. ConformsIn(stream, docNext)
    BY <1>1, <1>3, <1>14, PrefixConforms
  <2>2. NoneLeftBehind(pocOut, docNext, stream) /\ PocOrder(pocOut, docNext, stream)
    BY <2>1 DEF OInv
  <2>3. /\ stream'[docNext].depth + 1 = max /\ max \in Nat
        /\ \A d \in 0..(docNext - 1) : stream[d].seq <= stream'[docNext].seq
        /\ Crowded(pocOut, docNext, stream, stream'[docNext].seq, max)
    BY <1>3, <1>6, <1>12
  <2> QED BY <1>1, <1>3, <1>4, <1>14, <2>2, <2>3, AppendKeepsOrder DEF m, AddedMap
<1>15. First(m, total, pocOutNext, docAtPocMin)
  <2>1. First(pocOut, docNext, pocOutNext, docAtPocMin)
    BY FirstIsFirstKnown DEF OInv
  <2>2. \A d \in ShownOf(pocOut, docNext) : m[d] = pocOut[d]
    BY <1>1 DEF m, AddedMap, Append0, ShownOf
  <2> QED BY <1>11, <2>1, <2>2 DEF First
<1>16. CASE dpCnt + 1 < max
  <2>1. pocOut' = m /\ UNCHANGED results
    BY <1>1, <1>16 DEF Add, m, AddedMap
  <2>2. ReadyInTime'
    <3>1. RefsResolved(m) => RefsResolved(pocOut)
      <4> SUFFICES ASSUME RefsResolved(m), NEW d \in 0..RefAuMax
                   PROVE  d \in DOMAIN pocOut /\ pocOut[d] >= 0
        BY DEF RefsResolved
      <4>1. d \in 0..docNext /\ m[d] >= 0
        BY DEF RefsResolved, m, AddedMap, Append0
      <4>2. d # docNext
        BY <1>1, <4>1 DEF m, AddedMap, Append0
      <4> QED BY <1>1, <4>1, <4>2 DEF m, AddedMap, Append0
    <3>2. ReadyInTime
      BY DEF OInv
    <3> QED BY <2>1, <3>1, <3>2 DEF ReadyInTime, results
  <2>3. FirstKnown'
    BY <1>3, <1>15, <2>1, FirstIsFirstKnown DEF results
  <2> QED BY <1>3, <1>8, <1>10, <1>13, <1>14, <2>1, <2>2, <2>3
<1>17. CASE dpCnt + 1 >= max
  <2>1. OutputMin(ds, ps, n, m)
    BY <1>1, <1>17 DEF Add, ds, ps, m, AddedDocs, AddedPocs, AddedMap
  <2>2. stream' \in [0..(total - 1) -> StreamSet]
    BY <1>1, <1>4
  <2>3. n >= max
    BY <1>17
  <2> HIDE DEF n, total
  <2>4. /\ NoneLeftBehind(m, total, stream') /\ PocOrder(m, total, stream')
             => NoneLeftBehind(pocOut', total, stream') /\ PocOrder(pocOut', total, stream')
        /\ \A x \in Nat : n >= x /\ Crowded(m, total, stream', entry.seq, x)
             => Crowded(pocOut', total, stream', entry.seq, x)
        /\ ReadyInTime'
        /\ First(pocOut', total, pocOutNext', docAtPocMin')
    BY <1>1, <1>3, <1>15, <2>1, <2>2, OutputOrders
  <2>5. max \in Nat
    OBVIOUS
  <2>6. Crowded(pocOut', total, stream', entry.seq, max)
    BY <1>13, <2>3, <2>4, <2>5
  <2>7. FirstKnown'
    BY <1>3, <2>4, FirstIsFirstKnown
  <2> QED BY <1>3, <1>8, <1>10, <1>14, <2>4, <2>6, <2>7
<1> QED BY <1>1, <1>16, <1>17 DEF RFacts
-----------------------------------------------------------------------------
(* The order is kept by every step ...                                      *)
LEMMA NextOInv ==
    ASSUME OInv, [Next]_vars
    PROVE  OInv'
<1> USE ReorderAssumption
<1>1. RInv' /\ RFacts /\ IInv
  BY StepRefines, RInvFacts DEF OInv, RInv
<1>2. CASE UNCHANGED <<window, docNext, results, pocOut, stream>>
           /\ (pc' = "idle" => pc = "idle") /\ (pc' = "done" => pc = "done" \/ dpCnt = 0)
  <2>1. UNCHANGED <<dpCnt, dpCntMax, docNext, reorderMin, reorderMinReady, docAtPocMin,
                    pocOutNext, pocOut, stream, SeqNow>>
    BY <1>2 DEF window, results, SeqNow
  <2>2. ReadyInTime' /\ FirstKnown' /\ DoneEmpty'
    BY <1>2, <2>1 DEF OInv, ReadyInTime, FirstKnown, DoneEmpty, RefsResolved, Displayed, Fed
  <2>3. pc' = "idle" => Crowded(pocOut', docNext', stream', SeqNow', dpCntMax')
    BY <1>2, <2>1 DEF OInv
  <2> QED BY <1>1, <2>1, <2>2, <2>3 DEF OInv
<1>3. ASSUME NEW poc \in Pocs, AddPicture(poc) PROVE OInv'
  <2> DEFINE entry == [stream[docNext - 1] EXCEPT !.poc = poc]
  <2>1. /\ dpCntMax \in Nat \ {0} /\ dpCnt < dpCntMax /\ dpCnt < DP_CNT_MAX
        /\ Add(poc, dpCntMax)
        /\ 0 < docNext /\ docNext \in Nat /\ pc = "idle" /\ pc' = pc
        /\ stream' = Append0(stream, docNext, entry)
    BY <1>1, <1>3 DEF AddPicture, TypeOK, IInv, WindowBelowDepth
  <2>2. docNext - 1 \in 0..(docNext - 1) /\ stream[docNext - 1] \in StreamSet
    BY SMTT(30), <1>1, <2>1 DEF IInv, TypeOK, Fed, StreamSet
  <2>3. entry \in StreamSet
    BY <2>2 DEF StreamSet
  <2>4. entry.poc = poc /\ entry.seq = stream[docNext - 1].seq
        /\ entry.depth = stream[docNext - 1].depth
    BY <2>2 DEF StreamSet
  <2>5. SeqNow = stream[docNext - 1].seq
    BY <2>1 DEF SeqNow
  <2>6. stream[docNext - 1].depth + 1 = dpCntMax
    BY <2>2, <2>5 DEF OInv, DepthIs
  <2> HIDE DEF entry
  <2>7. entry.depth + 1 = dpCntMax /\ entry.seq = SeqNow
    BY <2>4, <2>5, <2>6
  <2>8. /\ SeqsUpTo(stream', docNext', SeqNow')
        /\ DepthIs(stream', docNext', SeqNow', dpCntMax')
        /\ Crowded(pocOut', docNext', stream', SeqNow', dpCntMax')
        /\ ConformsIn(stream', docNext') =>
              /\ NoneLeftBehind(pocOut', docNext', stream')
              /\ PocOrder(pocOut', docNext', stream')
        /\ ReadyInTime' /\ FirstKnown'
    BY <2>1, <2>3, <2>4, <2>7, AddOrders
  <2>9. DoneEmpty'
    BY <2>1 DEF DoneEmpty
  <2> QED BY <1>1, <2>8, <2>9 DEF OInv
<1>4. CASE AddSequenceStart
  <2> DEFINE entry == [seq |-> SeqNow + 1, depth |-> pending.depth, poc |-> pending.poc]
  <2>1. /\ pending \in SequenceStart /\ dpCnt = 0 /\ pc' = "idle"
        /\ Add(pending.poc, pending.depth + 1)
        /\ stream' = Append0(stream, docNext, entry)
    BY <1>1, <1>4 DEF AddSequenceStart, IInv, TypeOK, StartSeq
  <2>2. pending.poc \in Pocs /\ pending.depth \in Nat /\ pending.depth \in Depths
    BY <2>1 DEF SequenceStart
  <2>3. pending.depth + 1 \in Nat \ {0} /\ dpCnt < pending.depth + 1 /\ dpCnt < DP_CNT_MAX
    BY <2>1, <2>2
  <2>4. SeqNow \in Nat
    BY <1>1 DEF IInv, TypeOK, SeqNow, Fed
  <2>5. entry \in StreamSet
    BY <2>2, <2>4 DEF StreamSet
  <2>6. entry.poc = pending.poc /\ entry.depth = pending.depth /\ entry.seq = SeqNow + 1
    OBVIOUS
  <2> HIDE DEF entry
  <2>7. entry.depth + 1 = pending.depth + 1
    BY <2>6
  <2>8. /\ SeqsUpTo(stream', docNext', SeqNow')
        /\ DepthIs(stream', docNext', SeqNow', dpCntMax')
        /\ Crowded(pocOut', docNext', stream', SeqNow', dpCntMax')
        /\ ConformsIn(stream', docNext') =>
              /\ NoneLeftBehind(pocOut', docNext', stream')
              /\ PocOrder(pocOut', docNext', stream')
        /\ ReadyInTime' /\ FirstKnown'
    BY <2>1, <2>2, <2>3, <2>5, <2>6, <2>7, AddOrders
  <2>9. DoneEmpty'
    BY <2>1 DEF DoneEmpty
  <2> QED BY <1>1, <2>8, <2>9 DEF OInv
<1>5. CASE FlushOne
  <2>1. /\ dpCnt \in 1..DP_CNT_MAX /\ docNext \in Nat /\ pocOutNext \in Nat
        /\ docs \in [0..(dpCnt - 1) -> 0..(docNext - 1)]
        /\ pocs \in [0..(dpCnt - 1) -> Pocs]
        /\ pocOut \in [0..(docNext - 1) -> {-1} \cup Nat]
        /\ stream \in [0..(docNext - 1) -> StreamSet]
        /\ OutputMin(docs, pocs, dpCnt, pocOut)
    BY SMTT(30), <1>1, <1>5 DEF FlushOne, IInv, TypeOK, Fed, StreamSet
  <2>2. UNCHANGED <<dpCntMax, docNext, stream, pc>> /\ pc = "flush"
    BY <1>5 DEF FlushOne
  <2>3. /\ WindowInv(docs, dpCnt, pocOutNext, reorderMin, pocOut, docNext, mapSize)
        /\ OneSequence(docs, pocs, dpCnt, stream, SeqNow)
        /\ AllHeld(docs, dpCnt, pocOut, docNext)
        /\ First(pocOut, docNext, pocOutNext, docAtPocMin)
    BY FirstIsFirstKnown DEF OInv, RInv, IInv
  <2>4. /\ NoneLeftBehind(pocOut, docNext, stream) /\ PocOrder(pocOut, docNext, stream)
             => NoneLeftBehind(pocOut', docNext, stream) /\ PocOrder(pocOut', docNext, stream)
        /\ ReadyInTime'
        /\ First(pocOut', docNext, pocOutNext', docAtPocMin')
    BY <2>1, <2>3, OutputOrders
  <2>5. SeqNow' = SeqNow
    BY <2>2 DEF SeqNow
  <2>6. FirstKnown'
    BY <2>2, <2>4, FirstIsFirstKnown
  <2>7. DoneEmpty' /\ pc' # "idle"
    BY <2>2 DEF DoneEmpty
  <2> QED BY <1>1, <2>2, <2>4, <2>5, <2>6, <2>7 DEF OInv
<1>6. ASSUME NEW start \in SequenceStart, BeginSequence(start) PROVE OInv'
  BY <1>2, <1>6 DEF BeginSequence
<1>7. CASE EndStream
  BY <1>2, <1>7 DEF EndStream
<1>8. CASE StreamFlushed
  BY <1>2, <1>8 DEF StreamFlushed
<1>9. CASE Overrun
  BY <1>2, <1>9 DEF Overrun
<1>10. CASE UNCHANGED vars
  BY <1>2, <1>10 DEF vars, window, results
<1> QED BY <1>3, <1>4, <1>5, <1>6, <1>7, <1>8, <1>9, <1>10 DEF Next

(* ... and holds of the empty buffer.                                       *)
LEMMA InitOInv == Init => OInv
<1> SUFFICES ASSUME Init PROVE OInv
  OBVIOUS
<1> USE ReorderAssumption
<1>1. docNext = 0 /\ pocOutNext = 0 /\ pocOut = Empty /\ pc = "idle" /\ 0..(0 - 1) = {}
  BY DEF Init
<1>2. RInv
  BY InitRefines
<1>3. ShownOf(pocOut, docNext) = {}
  BY <1>1 DEF ShownOf
<1>4. /\ SeqsUpTo(stream, docNext, SeqNow)
      /\ DepthIs(stream, docNext, SeqNow, dpCntMax)
      /\ Crowded(pocOut, docNext, stream, SeqNow, dpCntMax)
      /\ NoneLeftBehind(pocOut, docNext, stream)
      /\ PocOrder(pocOut, docNext, stream)
  BY <1>1, <1>3 DEF SeqsUpTo, DepthIs, Crowded, NoneLeftBehind, PocOrder
<1>5. ReadyInTime
  <2>1. 0 \in 0..RefAuMax
    OBVIOUS
  <2>2. 0 \notin DOMAIN pocOut
    BY <1>1 DEF Empty
  <2> QED BY <2>1, <2>2 DEF ReadyInTime, RefsResolved
<1>6. FirstKnown /\ DoneEmpty
  BY <1>1 DEF FirstKnown, DoneEmpty
<1> QED BY <1>2, <1>4, <1>5, <1>6 DEF OInv

(* The condition on the stream, as Reorder states it.                       *)
LEMMA ConformsAsIn == Conforms => ConformsIn(stream, docNext)
<1> SUFFICES ASSUME Conforms, NEW d \in 0..(docNext - 1)
             PROVE  Cardinality(Later(stream, d)) <= stream[d].depth
  BY DEF ConformsIn
<1> DEFINE mates == {e \in 0..(d - 1) : stream[e].seq = stream[d].seq}
<1>1. Cardinality({e \in mates : stream[e].poc > stream[d].poc}) <= stream[d].depth
  BY DEF Conforms, Fed
<1>2. {e \in mates : stream[e].poc > stream[d].poc} = Later(stream, d)
  BY DEF Later
<1> QED BY <1>1, <1>2

LEMMA OInvOrders == OInv => InPocOrder
<1> SUFFICES ASSUME OInv, Conforms, NEW d \in Displayed, NEW e \in Displayed, Precedes(d, e)
             PROVE  pocOut[d] < pocOut[e]
  BY DEF InPocOrder
<1>1. PocOrder(pocOut, docNext, stream)
  BY ConformsAsIn DEF OInv
<1>2. Prec(stream, d, e)
  BY DEF Precedes, Prec
<1> QED BY <1>1, <1>2, DisplayedIsShown DEF PocOrder

LEMMA OInvResolves == OInv => AllResolvedAtEnd
<1> SUFFICES ASSUME OInv, pc = "done", docNext > RefAuMax
             PROVE  /\ \A d \in Fed : ReorderNum(d) >= 0
                    /\ \A d \in Fed : MinCts <= d + ReorderNum(d)
                    /\ \E d \in Fed : MinCts = d + ReorderNum(d)
  BY DEF AllResolvedAtEnd
<1> USE ReorderAssumption
<1>1. /\ dpCnt = 0 /\ docNext \in Nat /\ pocOutNext \in Nat /\ reorderMin \in Nat
      /\ pocOut \in [Fed -> {-1} \cup Nat]
      /\ AllHeld(docs, dpCnt, pocOut, docNext)
  BY RInvFacts DEF OInv, RFacts, DoneEmpty, Fed
<1>2. WindowInv(docs, dpCnt, pocOutNext, reorderMin, pocOut, docNext, mapSize)
  BY DEF OInv, RInv, IInv
<1>3. pocOutNext = docNext
  BY <1>1, <1>2 DEF WindowInv
<1>4. \A d \in Fed : pocOut[d] \in Nat
  <2>1. 0..(dpCnt - 1) = {}
    BY <1>1
  <2>2. \A d \in Fed : ~(pocOut[d] < 0)
    BY <1>1, <2>1 DEF AllHeld, Fed
  <2> QED BY <1>1, <2>2
<1>5. reorderMinReady
  <2>1. \A d \in 0..RefAuMax : d \in Fed
    BY <1>1 DEF Fed
  <2>2. RefsResolved(pocOut)
    BY <1>1, <1>4, <2>1 DEF RefsResolved
  <2> QED BY <2>2 DEF OInv, ReadyInTime
<1>6. ASSUME NEW d \in Fed
      PROVE  /\ d \in Nat /\ pocOut[d] \in Nat
             /\ ReorderNum(d) = reorderMin + pocOut[d] - d
             /\ reorderMin + pocOut[d] - d >= 0
  <2>1. d \in Nat /\ d < pocOutNext /\ d \in DOMAIN pocOut /\ pocOut[d] >= 0 /\ pocOut[d] \in Nat
    BY <1>1, <1>3, <1>4 DEF Fed
  <2>2. d \in ShownOf(pocOut, docNext)
    BY <2>1 DEF ShownOf, Fed
  <2> QED BY <1>2, <1>5, <2>1, <2>2 DEF ReorderNum, WindowInv, NeverEarly
<1>7. docAtPocMin \in Fed /\ pocOut[docAtPocMin] = 0
  <2>1. pocOutNext > 0
    BY <1>1, <1>3
  <2> QED BY <2>1 DEF OInv, FirstKnown, Displayed
<1>8. MinCts = reorderMin
  <2> DEFINE r == ReorderNum(docAtPocMin)
  <2>1. /\ docAtPocMin \in Nat /\ r = reorderMin + 0 - docAtPocMin /\ r >= 0
    BY <1>6, <1>7
  <2>2. MinCts = docAtPocMin + r
    <3>1. ~(r < 0)
      BY <1>1, <2>1
    <3> QED BY <3>1 DEF MinCts
  <2> QED BY <1>1, <2>1, <2>2
<1>9. \A d \in Fed : d + ReorderNum(d) = reorderMin + pocOut[d]
  BY <1>1, <1>6
<1>10. \A d \in Fed : ReorderNum(d) >= 0
  BY <1>6
<1>11. \A d \in Fed : MinCts <= d + ReorderNum(d)
  BY <1>1, <1>4, <1>8, <1>9
<1>12. MinCts = docAtPocMin + ReorderNum(docAtPocMin)
  BY <1>1, <1>7, <1>8, <1>9
<1> QED BY <1>7, <1>10, <1>11, <1>12

(* Every conforming stream is presented sequence by sequence and, within a  *)
(* sequence, by POC; and when the last flush is over, every AU has an       *)
(* offset and apoc_min_cts is the earliest presentation time.               *)
THEOREM PresentationFollowsPoc == Spec => []DisplayFollowsPoc
<1>1. Init => OInv
  BY InitOInv
<1>2. OInv /\ [Next]_vars => OInv'
  BY NextOInv
<1>3. OInv => DisplayFollowsPoc
  BY OInvOrders, OInvResolves DEF DisplayFollowsPoc
<1> QED BY <1>1, <1>2, <1>3, PTL DEF Spec
-----------------------------------------------------------------------------
(* The overrun, if there is one: both arrays are full, and the rest follows *)
(* from what holds of every window, that it is of the sequence at hand and  *)
(* below the depth of that sequence.                                        *)
FullAtOverrun == pc = "overrun" => dpCnt >= DP_CNT_MAX /\ docNext > 0

LEMMA NextFull ==
    ASSUME FullAtOverrun, [Next]_vars
    PROVE  FullAtOverrun'
<1>1. CASE Overrun
  BY <1>1 DEF Overrun, FullAtOverrun, window
<1>2. CASE UNCHANGED vars
  BY <1>2 DEF vars, FullAtOverrun
<1>3. CASE pc # "overrun" /\ pc' # "overrun"
  BY <1>3 DEF FullAtOverrun
<1> QED BY <1>1, <1>2, <1>3 DEF Next, AddPicture, BeginSequence, FlushOne, AddSequenceStart,
                              EndStream, StreamFlushed

LEMMA OverrunIsOwn ==
    ASSUME OInv, FullAtOverrun
    PROVE  OverrunByOwnDepth
<1> SUFFICES ASSUME pc = "overrun"
             PROVE  /\ stream[docNext - 1].depth >= DP_CNT_MAX
                    /\ \A i \in 0..(DP_CNT_MAX - 1) : stream[docs[i]].seq = SeqNow
  BY DEF OverrunByOwnDepth
<1> USE ReorderAssumption
<1>1. /\ dpCnt >= DP_CNT_MAX /\ docNext > 0 /\ dpCnt \in Nat /\ docNext \in Nat
      /\ dpCntMax \in Nat /\ dpCnt < dpCntMax
  BY DEF FullAtOverrun, OInv, RInv, IInv, TypeOK, WindowBelowDepth
<1>2. docNext - 1 \in 0..(docNext - 1) /\ SeqNow = stream[docNext - 1].seq
  BY <1>1 DEF SeqNow
<1>3. stream[docNext - 1].depth + 1 = dpCntMax
  BY <1>2 DEF OInv, DepthIs
<1>4. stream[docNext - 1].depth \in Nat
  BY <1>2, EntryFields DEF OInv, RInv, IInv, TypeOK, Fed, StreamSet
<1>5. \A i \in 0..(DP_CNT_MAX - 1) : i \in 0..(dpCnt - 1)
  BY <1>1
<1>6. \A i \in 0..(dpCnt - 1) : stream[docs[i]].seq = SeqNow
  BY DEF OInv, RInv, OneSequence
<1>7. stream[docNext - 1].depth >= DP_CNT_MAX
  BY <1>1, <1>3, <1>4
<1> QED BY <1>5, <1>6, <1>7

(* For every stream, depth and array size: docs[] and pocs[] are left only  *)
(* by an append to a window of DP_CNT_MAX AUs of one sequence, whose own    *)
(* SPS announces that many or more.  Depths below DP_CNT_MAX are safe, in   *)
(* whatever order they follow one another.                                  *)
THEOREM BoundsAreKept == Spec => []WithinBounds
<1>1. Init => OInv /\ FullAtOverrun
  BY InitOInv DEF Init, FullAtOverrun
<1>2. OInv /\ FullAtOverrun /\ [Next]_vars => OInv' /\ FullAtOverrun'
  BY NextOInv, NextFull
<1>3. OInv /\ FullAtOverrun => OverrunByOwnDepth
  BY OverrunIsOwn
<1>4. Spec => []OverrunByOwnDepth
  BY <1>1, <1>2, <1>3, PTL DEF Spec
<1>5. TypeOK /\ WindowBelowDepth /\ OverrunByOwnDepth => WithinBounds
  BY DEF WithinBounds
<1> QED BY <1>4, <1>5, TypeCorrect, WindowStaysBelowDepth, PTL
=============================================================================
