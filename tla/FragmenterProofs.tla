-------------------------- MODULE FragmenterProofs --------------------------
(***************************************************************************)
(* What the cutting of a track promises, for every track, range and style: *)
(* for any number of samples, at any times, with any sync samples and      *)
(* sample descriptions.  The argument is about one cut: where it stops     *)
(* relative to DtsMax (CutStops); the rest follows from where the loop's   *)
(* cursors stand between two cuts (CutInv).                                *)
(***************************************************************************)
EXTENDS Fragmenter, WellFoundedInduction, TLAPS

(* A set of naturals has a least element, and if bounded a greatest.        *)
LEMMA LeastElement ==
    ASSUME NEW S, S \subseteq Nat, S # {}
    PROVE  Min(S) \in S /\ \A y \in S : Min(S) <= y
<1>1. PICK x \in S : \A y \in S : ~(<<y, x>> \in OpToRel(<, Nat))
  BY NatLessThanWellFounded, WFMin
<1>2. \A y \in S : ~(y < x)
  BY <1>1 DEF OpToRel
<1>3. \A y \in S : x =< y
  BY <1>2
<1> QED BY <1>3 DEF Min

Below(n, S) == {x \in 0..n : n - x \in S}

LEMMA GreatestElement ==
    ASSUME NEW n \in Nat, NEW S, S \subseteq 0..n, S # {}
    PROVE  Max(S) \in S /\ \A y \in S : y <= Max(S)
<1>1. Below(n, S) \subseteq Nat
  BY DEF Below
<1>2. PICK z \in S : TRUE
  OBVIOUS
<1>3. n - z \in Below(n, S)
  BY <1>2 DEF Below
<1>4. PICK x \in Below(n, S) : \A y \in Below(n, S) : x <= y
  BY <1>1, <1>3, LeastElement
<1>5. n - x \in S /\ x \in 0..n
  BY <1>4 DEF Below
<1>6. ASSUME NEW y \in S PROVE n - x >= y
  <2>1. n - y \in Below(n, S)
    BY <1>6 DEF Below
  <2> QED BY <2>1, <1>4, <1>5
<1> QED BY <1>5, <1>6 DEF Max

-----------------------------------------------------------------------------
(* Decode times grow to the end of the track.                               *)
LEMMA TimesGrow ==
    ASSUME IsTrack(track)
    PROVE  /\ Num \in Nat /\ Num > 0
           /\ \A i \in 0..Num : DtsAt(i) \in Nat
           /\ \A i, j \in 0..Num : i < j => DtsAt(i) < DtsAt(j)
           /\ \A i \in 0..(Num - 1) : Dts(i) = DtsAt(i)
           /\ DtsAt(Num) = track.duration /\ Dts(0) = 0
<1> DEFINE d == track.dts
<1>1. d \in Seq(Nat) /\ d # << >> /\ d[1] = 0 /\ Len(d) \in Nat /\ Len(d) > 0
  BY DEF IsTrack
<1>2. \A i \in 1..Len(d) : d[i] \in Nat
  BY <1>1
<1>3. \A i, j \in 1..Len(d) : i < j => d[i] < d[j]
  BY DEF IsTrack
<1>4. track.duration \in Nat /\ track.duration > d[Len(d)]
  BY DEF IsTrack
<1>5. \A i \in 1..Len(d) : d[i] < track.duration
  BY SMTT(30), <1>1, <1>2, <1>3, <1>4
<1> HIDE DEF d
<1>6. Num = Len(d) /\ \A i : Dts(i) = d[i + 1]
  BY DEF Num, Dts, d
<1>7. \A i \in 0..(Num - 1) : i + 1 \in 1..Len(d)
  BY <1>1, <1>6
<1>8. \A i, j \in 0..Num : i < j => DtsAt(i) < DtsAt(j)
  <2> SUFFICES ASSUME NEW i \in 0..Num, NEW j \in 0..Num, i < j
               PROVE  DtsAt(i) < DtsAt(j)
    OBVIOUS
  <2>1. i < Num
    BY <1>1, <1>6
  <2>2. CASE j < Num
    BY <2>1, <2>2, <1>1, <1>3, <1>6 DEF DtsAt
  <2>3. CASE ~(j < Num)
    BY <2>1, <2>3, <1>1, <1>5, <1>6 DEF DtsAt
  <2> QED BY <2>2, <2>3
<1> QED BY <1>1, <1>2, <1>4, <1>6, <1>7, <1>8 DEF DtsAt

(* Where the loop stands before a cut: at a sample, with every description  *)
(* that the cursor of stsd_lst has yet to step over at or after it.         *)
AtSample ==
    /\ IsTrack(track) /\ ~track.stpp
    /\ range.max \in Nat /\ range.min \in Nat
    /\ next \in Nat /\ next < Num /\ fragDts = DtsAt(next)
    /\ sdNext \in 1..(Len(track.sds) + 1)
    /\ \A i \in 1..Len(track.sds) : i >= sdNext => track.sds[i] >= next

(* What is known of the track and its times at a sample.                    *)
LEMMA AtSampleFacts ==
    ASSUME AtSample
    PROVE  /\ Num \in Nat /\ next \in 0..(Num - 1) /\ track.sync \subseteq 0..(Num - 1)
           /\ \A i \in 0..Num : DtsAt(i) \in Nat
           /\ \A i, j \in 0..Num : i < j => DtsAt(i) < DtsAt(j)
           /\ \A i \in 0..(Num - 1) : Dts(i) = DtsAt(i)
           /\ DtsAt(Num) = track.duration /\ Dts(0) = 0 /\ track.duration \in Nat
           /\ range.min \in Nat /\ fragDts \in Nat /\ fragDts = DtsAt(next)
<1>1. IsTrack(track) /\ range.min \in Nat /\ next \in Nat /\ next < Num /\ fragDts = DtsAt(next)
  BY DEF AtSample
<1>2. track.sync \subseteq 0..(Num - 1) /\ track.duration \in Nat
  BY <1>1 DEF IsTrack, Num
<1>3. /\ Num \in Nat
      /\ \A i \in 0..Num : DtsAt(i) \in Nat
      /\ \A i, j \in 0..Num : i < j => DtsAt(i) < DtsAt(j)
      /\ \A i \in 0..(Num - 1) : Dts(i) = DtsAt(i)
      /\ DtsAt(Num) = track.duration /\ Dts(0) = 0
  BY <1>1, TimesGrow
<1>4. next \in 0..(Num - 1) /\ next \in 0..Num
  BY <1>1, <1>3
<1>5. fragDts \in Nat
  BY <1>1, <1>3, <1>4
<1> QED BY <1>1, <1>2, <1>3, <1>4, <1>5

LEMMA ElementsOf ==
    ASSUME NEW S, NEW q \in Seq(S)
    PROVE  \A i \in 1..Len(q) : q[i] \in S
OBVIOUS

(* get_dts_max_sd steps over no description but one that starts here.       *)
LEMMA SkipsOnlyHere ==
    ASSUME AtSample
    PROVE  /\ SdSkipped \in 1..(Len(track.sds) + 1) /\ SdSkipped >= sdNext
           /\ \A i \in 1..Len(track.sds) : track.sds[i] \in 0..(Num - 1)
           /\ \A i \in 1..Len(track.sds) : i >= SdSkipped => track.sds[i] > next
           /\ \A i \in 1..Len(track.sds) : i < SdSkipped => i < sdNext \/ track.sds[i] = next
<1> DEFINE s == track.sds
<1>1. s \in Seq(0..(Num - 1)) /\ Len(s) \in Nat
  BY DEF AtSample, IsTrack, Num
<1>2. \A i \in 1..Len(s) : s[i] \in 0..(Num - 1)
  BY <1>1, ElementsOf
<1>3. \A i, j \in 1..Len(s) : i < j => s[i] < s[j]
  BY DEF AtSample, IsTrack
<1>4. Num \in Nat /\ next \in Nat /\ sdNext \in 1..(Len(s) + 1)
  BY TimesGrow DEF AtSample
<1>5. \A i \in 1..Len(s) : i >= sdNext => s[i] >= next
  BY DEF AtSample
<1>6. SdSkipped = IF sdNext <= Len(s) /\ s[sdNext] = next THEN sdNext + 1 ELSE sdNext
  BY DEF SdSkipped
<1> HIDE DEF s
<1>7. SdSkipped \in 1..(Len(s) + 1) /\ SdSkipped >= sdNext
  BY <1>1, <1>4, <1>6
<1>8. ASSUME NEW i \in 1..Len(s), i >= SdSkipped PROVE s[i] > next
  <2>1. s[i] \in Int /\ s[i] >= next
    BY <1>2, <1>4, <1>5, <1>7, <1>8, <1>1
  <2>2. CASE sdNext <= Len(s) /\ s[sdNext] = next
    <3>1. sdNext \in 1..Len(s) /\ sdNext < i
      BY <2>2, <1>1, <1>4, <1>6, <1>8
    <3>2. s[sdNext] < s[i]
      BY <3>1, <1>3
    <3> QED BY <3>2, <2>2
  <2>3. CASE ~(sdNext <= Len(s) /\ s[sdNext] = next)
    <3>1. sdNext <= Len(s) /\ i >= sdNext
      BY <1>1, <1>4, <1>6, <2>3, <1>8
    <3>2. sdNext \in 1..Len(s) /\ s[sdNext] # next
      BY <3>1, <2>3, <1>4
    <3>3. s[sdNext] \in Int /\ s[sdNext] > next
      BY <3>2, <1>2, <1>4, <1>5, <1>1
    <3>4. i = sdNext \/ s[sdNext] < s[i]
      BY <3>1, <3>2, <1>3, <1>1
    <3> QED BY <3>3, <3>4, <2>1, <1>4
  <2> QED BY <2>2, <2>3
<1>9. ASSUME NEW i \in 1..Len(s), i < SdSkipped PROVE i < sdNext \/ s[i] = next
  BY <1>9, <1>4, <1>6, <1>1
<1> QED BY <1>2, <1>7, <1>8, <1>9 DEF s

(* DtsMax is the range's end, or the next description if that comes first.  *)
LEMMA LatestEnd ==
    ASSUME AtSample
    PROVE  /\ DtsMax \in Nat /\ fragDts <= DtsMax /\ DtsMax <= fragDts + range.max
           /\ \A i \in 1..Len(track.sds) : i >= SdSkipped => DtsMax <= DtsAt(track.sds[i])
           /\ \/ DtsMax = fragDts + range.max
              \/ /\ SdSkipped <= Len(track.sds)
                 /\ DtsMax = DtsAt(track.sds[SdSkipped])
<1> DEFINE s == track.sds
           limits == {Dts(s[i]) : i \in {SdSkipped} \cap 1..Len(s)}
           S == {fragDts + range.max} \cup limits
<1>1. /\ Num \in Nat /\ next \in 0..(Num - 1)
      /\ \A i \in 0..Num : DtsAt(i) \in Nat
      /\ \A i, j \in 0..Num : i < j => DtsAt(i) < DtsAt(j)
      /\ \A i \in 0..(Num - 1) : Dts(i) = DtsAt(i)
      /\ fragDts = DtsAt(next) /\ range.max \in Nat
  BY TimesGrow DEF AtSample
<1>0. Len(s) \in Nat
  BY DEF AtSample, IsTrack
<1>2. /\ SdSkipped \in 1..(Len(s) + 1)
      /\ \A i \in 1..Len(s) : s[i] \in 0..(Num - 1)
      /\ \A i \in 1..Len(s) : i >= SdSkipped => s[i] > next
      /\ \A i, j \in 1..Len(s) : i < j => s[i] < s[j]
  BY SkipsOnlyHere DEF AtSample, IsTrack
<1>3. DtsMax = Min(S)
  BY DEF DtsMax
<1> HIDE DEF s
<1>4. fragDts + range.max \in Nat /\ fragDts \in Nat
  BY <1>0, <1>1
<1>5. CASE SdSkipped <= Len(s)
  <2>1. SdSkipped \in 1..Len(s)
    BY <1>5, <1>2, <1>0, <1>1
  <2>2. limits = {DtsAt(s[SdSkipped])}
    BY <2>1, <1>0, <1>1, <1>2
  <2>3. DtsAt(s[SdSkipped]) \in Nat /\ DtsAt(s[SdSkipped]) > fragDts
    BY <2>1, <1>0, <1>1, <1>2
  <2>4. S = {fragDts + range.max, DtsAt(s[SdSkipped])}
    BY <2>2
  <2> HIDE DEF S
  <2>5. Min(S) \in S /\ \A y \in S : Min(S) <= y
    BY <2>3, <2>4, <1>4, LeastElement
  <2>6. /\ DtsMax \in Nat /\ fragDts <= DtsMax /\ DtsMax <= fragDts + range.max
        /\ DtsMax <= DtsAt(s[SdSkipped])
        /\ DtsMax = fragDts + range.max \/ DtsMax = DtsAt(s[SdSkipped])
    BY <2>3, <2>4, <2>5, <1>0, <1>1, <1>3, <1>4
  <2>7. ASSUME NEW i \in 1..Len(s), i >= SdSkipped PROVE DtsMax <= DtsAt(s[i])
    <3>1. CASE i = SdSkipped
      BY <3>1, <2>6
    <3>2. CASE i > SdSkipped
      <4>1. s[SdSkipped] < s[i]
        BY <3>2, <2>1, <1>2
      <4>2. DtsAt(s[SdSkipped]) < DtsAt(s[i]) /\ DtsAt(s[i]) \in Nat
        BY <4>1, <2>1, <1>0, <1>1, <1>2
      <4> QED BY <4>2, <2>3, <2>6
    <3> QED BY <3>1, <3>2, <2>7, <2>1
  <2> QED BY <2>6, <2>7, <1>5 DEF s
<1>6. CASE ~(SdSkipped <= Len(s))
  <2>1. {SdSkipped} \cap 1..Len(s) = {}
    BY <1>6, <1>2, <1>0, <1>1
  <2>2. limits = {}
    BY <2>1
  <2>3. S = {fragDts + range.max}
    BY <2>2
  <2> HIDE DEF S
  <2>4. Min(S) \in S
    BY <2>3, <1>4, LeastElement
  <2>5. DtsMax = fragDts + range.max
    BY <2>3, <2>4, <1>3
  <2>6. \A i \in 1..Len(s) : ~(i >= SdSkipped)
    BY <1>6, <1>0, <1>1, <1>2
  <2> QED BY <2>5, <2>6, <1>0, <1>1, <1>4 DEF s
<1> QED BY <1>5, <1>6

-----------------------------------------------------------------------------
(* The cut while it is being made: past the first sample, with the decode   *)
(* time of the sample it has come to, in range if a sync sample set it.     *)
Growing(c) ==
    /\ c \in [stop : (next + 1)..Num, dts : Nat, sync : BOOLEAN]
    /\ c.dts = DtsAt(c.stop)
    /\ c.sync => c.dts <= DtsMax

LEMMA GrowingFields ==
    ASSUME NEW c, Growing(c)
    PROVE  /\ c.stop \in (next + 1)..Num /\ c.dts = DtsAt(c.stop) /\ c.dts \in Nat
           /\ c.sync \in BOOLEAN /\ (c.sync => c.dts <= DtsMax)
BY DEF Growing

LEMMA CutRecord ==
    ASSUME NEW c, NEW stop, NEW dts, NEW sync,
           c = [stop |-> stop, dts |-> dts, sync |-> sync],
           stop \in (next + 1)..Num, dts = DtsAt(stop), dts \in Nat, sync \in BOOLEAN,
           sync => dts <= DtsMax
    PROVE  Growing(c)
BY DEF Growing

LEMMA CutExcept ==
    ASSUME NEW S, NEW c \in [stop : S, dts : Nat, sync : BOOLEAN], NEW s \in S, NEW t \in Nat,
           NEW r, r = [c EXCEPT !.stop = s, !.dts = t]
    PROVE  /\ r \in [stop : S, dts : Nat, sync : BOOLEAN]
           /\ r.stop = s /\ r.dts = t /\ r.sync = c.sync
OBVIOUS

LEMMA OneSampleGrowing ==
    ASSUME AtSample
    PROVE  Growing(OneSample) /\ OneSample.stop = next + 1 /\ ~OneSample.sync
<1>1. /\ Num \in Nat /\ next \in 0..(Num - 1)
      /\ \A i \in 0..Num : DtsAt(i) \in Nat
      /\ \A i \in 0..(Num - 1) : Dts(i) = DtsAt(i)
      /\ DtsAt(Num) = track.duration /\ Dts(0) = 0 /\ track.duration \in Nat
  BY AtSampleFacts
<1> DEFINE dts == IF next + 1 < Num THEN Dts(next + 1) ELSE track.duration + Dts(0)
<1>2. OneSample = [stop |-> next + 1, dts |-> dts, sync |-> FALSE]
  BY DEF OneSample
<1>3. dts = DtsAt(next + 1) /\ dts \in Nat /\ next + 1 \in (next + 1)..Num
  <2>1. CASE next + 1 < Num
    BY <2>1, <1>1
  <2>2. CASE ~(next + 1 < Num)
    <3>1. next + 1 = Num
      BY <2>2, <1>1
    <3>2. dts = track.duration
      BY <2>2, <1>1
    <3> HIDE DEF dts
    <3> QED BY <3>1, <3>2, <1>1
  <2> QED BY <2>1, <2>2
<1> HIDE DEF dts
<1> QED BY <1>2, <1>3, CutRecord

Stops(c) == {s \in SyncsLeft : s > c.stop /\ Dts(s) <= DtsMax}

(* The last sync sample in range, if there is one after where c stops.      *)
LEMMA ToSyncGrowing ==
    ASSUME AtSample, NEW c, Growing(c)
    PROVE  /\ Growing(ToSync(c))
           /\ ToSync(c) = c \/ /\ ToSync(c).sync /\ ToSync(c).stop \in track.sync
                               /\ \A s \in Stops(c) : s <= ToSync(c).stop
           /\ ToSync(c) = c => AllRapSamples \/ Stops(c) = {}
<1>1. /\ Num \in Nat /\ next \in 0..(Num - 1) /\ track.sync \subseteq 0..(Num - 1)
      /\ \A i \in 0..Num : DtsAt(i) \in Nat
      /\ \A i \in 0..(Num - 1) : Dts(i) = DtsAt(i)
  BY AtSampleFacts
<1>2. ToSync(c) = IF AllRapSamples \/ Stops(c) = {} THEN c
                  ELSE [stop |-> Max(Stops(c)), dts |-> Dts(Max(Stops(c))), sync |-> TRUE]
  BY DEF ToSync, Stops
<1>3. CASE AllRapSamples \/ Stops(c) = {}
  BY <1>2, <1>3
<1>4. CASE ~(AllRapSamples \/ Stops(c) = {})
  <2>1. Stops(c) \subseteq 0..(Num - 1) /\ Num - 1 \in Nat
    BY <1>1 DEF Stops, SyncsLeft
  <2>2. Max(Stops(c)) \in Stops(c) /\ \A y \in Stops(c) : y <= Max(Stops(c))
    BY <2>1, <1>4, GreatestElement
  <2> DEFINE m == Max(Stops(c))
  <2>3. m \in track.sync /\ m > c.stop /\ Dts(m) <= DtsMax
    BY <2>2 DEF Stops, SyncsLeft
  <2>4. ToSync(c) = [stop |-> m, dts |-> Dts(m), sync |-> TRUE]
    BY <1>2, <1>4
  <2>5. \A y \in Stops(c) : y <= m
    BY <2>2
  <2> HIDE DEF m
  <2>6. m \in (next + 1)..Num /\ Dts(m) = DtsAt(m) /\ Dts(m) \in Nat
    BY <2>3, <1>1, GrowingFields
  <2>7. Growing(ToSync(c))
    BY <2>3, <2>4, <2>6, CutRecord
  <2>8. ToSync(c).stop = m /\ ToSync(c).sync
    BY <2>4
  <2>9. ToSync(c) # c
    BY <2>8, <2>3, <2>6, GrowingFields, <1>1
  <2> QED BY <2>3, <2>5, <2>7, <2>8, <2>9
<1> QED BY <1>3, <1>4

(* All the rest, if that is in range.                                       *)
LEMMA TakeRestGrowing ==
    ASSUME AtSample, NEW c, Growing(c)
    PROVE  /\ Growing(TakeRest(c))
           /\ TakeRest(c).sync = c.sync
           /\ TakeRest(c) = c \/ TakeRest(c).stop = Num
<1>1. /\ Num \in Nat /\ next \in 0..(Num - 1) /\ DtsMax \in Nat
      /\ DtsAt(Num) = track.duration /\ track.duration \in Nat
  BY AtSampleFacts, LatestEnd
<1>2. CASE TakeRest(c) = c
  BY <1>2
<1>3. CASE TakeRest(c) # c
  <2>1. /\ TakeRest(c) = [c EXCEPT !.stop = Num, !.dts = track.duration]
        /\ track.duration < DtsMax
    BY <1>3 DEF TakeRest
  <2>2. Num \in (next + 1)..Num
    BY <1>1
  <2>3. /\ TakeRest(c) \in [stop : (next + 1)..Num, dts : Nat, sync : BOOLEAN]
        /\ TakeRest(c).stop = Num /\ TakeRest(c).dts = track.duration
        /\ TakeRest(c).sync = c.sync
    <3>1. c \in [stop : (next + 1)..Num, dts : Nat, sync : BOOLEAN]
      BY DEF Growing
    <3>2. track.duration \in Nat /\ TakeRest(c) = [c EXCEPT !.stop = Num, !.dts = track.duration]
      BY <1>1, <2>1
    <3> QED BY ONLY <2>2, <3>1, <3>2, CutExcept
  <2> QED BY <2>1, <2>3, <1>1 DEF Growing
<1> QED BY <1>2, <1>3

-----------------------------------------------------------------------------
Reach == {i \in next..(Num - 1) : Dts(i) <= DtsMax}

TrackEndsInRange == track.duration <= DtsMax

(* The samples in range are those up to a last one, after which DtsMax is   *)
(* exceeded, if only by the end of the track.                               *)
LEMMA SamplesInRange ==
    ASSUME AtSample
    PROVE  /\ Reach # {} /\ Max(Reach) \in next..(Num - 1) /\ DtsAt(Max(Reach)) <= DtsMax
           /\ TrackEndsInRange => Reach = next..(Num - 1)
           /\ ~TrackEndsInRange =>
                \A i \in next..Num : DtsAt(i) <= DtsMax <=> i <= Max(Reach)
<1>1. /\ Num \in Nat /\ next \in 0..(Num - 1) /\ DtsMax \in Nat /\ DtsAt(next) <= DtsMax
      /\ \A i \in 0..Num : DtsAt(i) \in Nat
      /\ \A i, j \in 0..Num : i < j => DtsAt(i) < DtsAt(j)
      /\ \A i \in 0..(Num - 1) : Dts(i) = DtsAt(i)
      /\ DtsAt(Num) = track.duration
  BY TimesGrow, LatestEnd DEF AtSample
<1>2. \A i \in next..(Num - 1) : i \in Reach <=> DtsAt(i) <= DtsMax
  BY <1>1 DEF Reach
<1>3. next \in Reach
  BY <1>1, <1>2
<1>4. Reach \subseteq 0..(Num - 1) /\ Num - 1 \in Nat /\ Reach # {}
  BY <1>1, <1>3 DEF Reach
<1>5. Max(Reach) \in Reach /\ \A y \in Reach : y <= Max(Reach)
  BY <1>4, GreatestElement
<1> DEFINE m == Max(Reach)
<1>6. m \in next..(Num - 1) /\ DtsAt(m) <= DtsMax
  BY <1>2, <1>5 DEF Reach
<1>7. \A i \in next..(Num - 1) : DtsAt(i) <= DtsMax => i <= m
  BY <1>2, <1>5
<1> HIDE DEF m
<1>8. ASSUME TrackEndsInRange PROVE Reach = next..(Num - 1)
  <2>1. \A i \in next..(Num - 1) : DtsAt(i) <= DtsMax
    <3> TAKE i \in next..(Num - 1)
    <3>1. i \in 0..Num /\ Num \in 0..Num /\ i < Num
      BY <1>1
    <3>2. DtsAt(i) < DtsAt(Num) /\ DtsAt(i) \in Nat /\ DtsAt(Num) \in Nat
      BY <3>1, <1>1
    <3> QED BY <3>2, <1>8, <1>1 DEF TrackEndsInRange
  <2> QED BY <2>1, <1>2 DEF Reach
<1>9. ASSUME ~TrackEndsInRange, NEW i \in next..Num PROVE DtsAt(i) <= DtsMax <=> i <= m
  <2>1. CASE i = Num
    BY <2>1, <1>1, <1>6, <1>9 DEF TrackEndsInRange
  <2>2. CASE i # Num /\ i <= m
    <3>1. i = m \/ DtsAt(i) < DtsAt(m)
      BY <2>2, <1>1, <1>6
    <3>2. DtsAt(i) \in Nat /\ DtsAt(m) \in Nat
      BY <1>1, <1>6
    <3> QED BY <3>1, <3>2, <2>2, <1>1, <1>6
  <2>3. CASE i # Num /\ ~(i <= m)
    BY <2>3, <1>1, <1>7
  <2> QED BY <2>1, <2>2, <2>3
<1> QED BY <1>4, <1>6, <1>8, <1>9 DEF m

(* FillUp ends in range, at a sample other than the first unless the sample *)
(* itself is too long, and as far as the range goes if that is needed to    *)
(* get above the minimum.                                                   *)
Ends(r) ==
    /\ r.stop \in next..Num /\ r.dts = DtsAt(r.stop) /\ r.dts <= DtsMax
    /\ r.stop = next <=> DtsAt(next + 1) > DtsMax
    /\ r.dts > fragDts + range.min \/ r.stop = Num \/ DtsAt(r.stop + 1) > DtsMax

SyncEnough(c) == c.sync /\ c.dts > fragDts + range.min

LEMMA FillUpEnds ==
    ASSUME AtSample, NEW c, Growing(c)
    PROVE  /\ Ends(FillUp(c))
           /\ SyncEnough(c) => FillUp(c) = c
           /\ ~SyncEnough(c) /\ TrackEndsInRange => FillUp(c).stop = Num
<1>1. /\ Num \in Nat /\ next \in 0..(Num - 1) /\ DtsMax \in Nat /\ DtsAt(next) <= DtsMax
      /\ \A i \in 0..Num : DtsAt(i) \in Nat
      /\ \A i, j \in 0..Num : i < j => DtsAt(i) < DtsAt(j)
      /\ \A i \in 0..(Num - 1) : Dts(i) = DtsAt(i)
      /\ DtsAt(Num) = track.duration /\ Dts(0) = 0 /\ track.duration \in Nat
      /\ range.min \in Nat /\ fragDts \in Nat
  BY AtSampleFacts, LatestEnd
<1> DEFINE m == Max(Reach)
<1>2. /\ Reach # {} /\ m \in next..(Num - 1) /\ DtsAt(m) <= DtsMax
      /\ TrackEndsInRange => Reach = next..(Num - 1)
      /\ ~TrackEndsInRange => \A i \in next..Num : DtsAt(i) <= DtsMax <=> i <= m
  BY SamplesInRange
<1>3. /\ c.stop \in (next + 1)..Num /\ c.dts = DtsAt(c.stop) /\ c.dts \in Nat
      /\ c.sync \in BOOLEAN /\ (c.sync => c.dts <= DtsMax)
  BY GrowingFields
<1>4. FillUp(c) = IF SyncEnough(c) THEN c
                  ELSE IF Reach = next..(Num - 1) /\ TrackEndsInRange
                  THEN [c EXCEPT !.stop = Num, !.dts = track.duration + Dts(0)]
                  ELSE IF Reach # {} /\ (m > c.stop \/ c.dts > DtsMax)
                  THEN [c EXCEPT !.stop = m, !.dts = Dts(m)]
                  ELSE c
  BY DEF FillUp, Reach, SyncEnough, TrackEndsInRange
<1>5. c \in [stop : Nat, dts : Nat, sync : BOOLEAN]
  BY <1>1 DEF Growing
<1> HIDE DEF m
<1>6. next + 1 \in 0..Num /\ DtsAt(next + 1) \in Nat /\ DtsAt(next + 1) <= c.dts
  <2>1. next + 1 = c.stop \/ DtsAt(next + 1) < DtsAt(c.stop)
    BY <1>1, <1>3
  <2> QED BY <2>1, <1>1, <1>3
<1>7. CASE SyncEnough(c)
  BY <1>1, <1>3, <1>4, <1>6, <1>7 DEF Ends, SyncEnough
<1>8. CASE ~SyncEnough(c) /\ TrackEndsInRange
  <2>1. FillUp(c) = [c EXCEPT !.stop = Num, !.dts = track.duration + Dts(0)]
    BY <1>2, <1>4, <1>8
  <2>2. track.duration + Dts(0) = DtsAt(Num) /\ track.duration + Dts(0) \in Nat
    BY <1>1
  <2>3. FillUp(c).stop = Num /\ FillUp(c).dts = DtsAt(Num)
    BY <2>1, <2>2, <1>5, <1>1, CutExcept
  <2>4. DtsAt(next + 1) <= DtsAt(Num)
    <3>1. next + 1 = Num \/ DtsAt(next + 1) < DtsAt(Num)
      BY <1>1
    <3> QED BY <3>1, <1>1, <1>6
  <2> QED BY <2>3, <2>4, <1>1, <1>6, <1>8 DEF Ends, TrackEndsInRange
<1>9. CASE ~SyncEnough(c) /\ ~TrackEndsInRange /\ (m > c.stop \/ c.dts > DtsMax)
  <2>1. FillUp(c) = [c EXCEPT !.stop = m, !.dts = Dts(m)]
    BY <1>2, <1>4, <1>9
  <2>2. Dts(m) = DtsAt(m) /\ Dts(m) \in Nat /\ m \in Nat
    BY <1>1, <1>2
  <2>3. FillUp(c).stop = m /\ FillUp(c).dts = DtsAt(m)
    BY <2>1, <2>2, <1>5, CutExcept
  <2>4. DtsAt(m + 1) \in Nat /\ DtsAt(m + 1) > DtsMax
    <3>1. m + 1 \in next..Num /\ ~(m + 1 <= m) /\ m + 1 \in 0..Num
      BY <1>1, <1>2
    <3>2. ~(DtsAt(m + 1) <= DtsMax) /\ DtsAt(m + 1) \in Nat
      BY <3>1, <1>1, <1>2, <1>9
    <3> QED BY <3>2, <1>1
  <2>5. m = next <=> DtsAt(next + 1) > DtsMax
    <3>1. next + 1 \in next..Num /\ (next + 1 <= m <=> m # next)
      BY <1>1, <1>2
    <3> QED BY <3>1, <1>2, <1>9, <1>6, <1>1
  <2> QED BY <2>3, <2>4, <2>5, <1>2, <1>1, <1>9 DEF Ends
<1>10. CASE ~SyncEnough(c) /\ ~TrackEndsInRange /\ ~(m > c.stop \/ c.dts > DtsMax)
  <2>1. FillUp(c) = c
    BY <1>4, <1>10
  <2>2. c.dts <= DtsMax /\ c.stop = m
    <3>1. c.dts <= DtsMax /\ m <= c.stop
      BY <1>10, <1>1, <1>2, <1>3
    <3>2. c.stop \in next..Num
      BY <1>1, <1>3
    <3>3. c.stop <= m
      BY <3>1, <3>2, <1>2, <1>3, <1>10
    <3> QED BY <3>1, <3>3, <1>1, <1>2, <1>3
  <2>3. DtsAt(m + 1) \in Nat /\ DtsAt(m + 1) > DtsMax
    <3>1. m + 1 \in next..Num /\ ~(m + 1 <= m) /\ m + 1 \in 0..Num
      BY <1>1, <1>2
    <3>2. ~(DtsAt(m + 1) <= DtsMax) /\ DtsAt(m + 1) \in Nat
      BY <3>1, <1>1, <1>2, <1>10
    <3> QED BY <3>2, <1>1
  <2> QED BY <2>1, <2>2, <2>3, <1>1, <1>3, <1>6, <1>10 DEF Ends
<1> QED BY <1>7, <1>8, <1>9, <1>10

(* Where a cut stops, in terms of the track.                                *)
NextTooLong == ~track.stpp /\ next < Num /\ DtsAt(next + 1) > fragDts + range.max

ReachedAt(stop) ==
    \/ stop = Num
    \/ \E i \in 1..Len(track.sds) : track.sds[i] = stop
    \/ DtsAt(stop + 1) > fragDts + range.max

LEMMA CutStops ==
    ASSUME AtSample
    PROVE  /\ Cut.stop \in next..Num /\ Cut.dts = DtsAt(Cut.stop)
           /\ Cut.dts <= fragDts + range.max
           /\ Cut.stop = next <=> NextTooLong
           /\ \A i \in 1..Len(track.sds) : i >= SdSkipped => track.sds[i] >= Cut.stop
           /\ Cut.dts > fragDts + range.min \/ ReachedAt(Cut.stop)
<1>1. /\ Num \in Nat /\ next \in 0..(Num - 1) /\ ~track.stpp
      /\ range.max \in Nat /\ fragDts = DtsAt(next)
      /\ \A i \in 0..Num : DtsAt(i) \in Nat
      /\ \A i, j \in 0..Num : i < j => DtsAt(i) < DtsAt(j)
  BY TimesGrow DEF AtSample
<1> DEFINE s == track.sds
           r == Cut
<1>2. /\ DtsMax \in Nat /\ DtsMax <= fragDts + range.max
      /\ \A i \in 1..Len(s) : i >= SdSkipped => DtsMax <= DtsAt(s[i])
      /\ \/ DtsMax = fragDts + range.max
         \/ SdSkipped <= Len(s) /\ DtsMax = DtsAt(s[SdSkipped])
  BY LatestEnd
<1>3. /\ SdSkipped \in 1..(Len(s) + 1) /\ Len(s) \in Nat
      /\ \A i \in 1..Len(s) : s[i] \in 0..(Num - 1)
      /\ \A i \in 1..Len(s) : i >= SdSkipped => s[i] > next
  BY SkipsOnlyHere DEF AtSample, IsTrack
<1>4. Ends(r)
  BY <1>1, OneSampleGrowing, ToSyncGrowing, TakeRestGrowing, FillUpEnds DEF Cut
<1> HIDE DEF s, r
<1>5. /\ r.stop \in next..Num /\ r.dts = DtsAt(r.stop) /\ r.dts <= DtsMax
      /\ r.stop = next <=> DtsAt(next + 1) > DtsMax
      /\ r.dts > fragDts + range.min \/ r.stop = Num \/ DtsAt(r.stop + 1) > DtsMax
  BY <1>4 DEF Ends
<1>6. r.dts <= fragDts + range.max
  BY SMTT(30), <1>1, <1>2, <1>5
<1>7. ASSUME NEW i \in 0..Num, NEW j \in 0..Num, DtsAt(i) <= DtsAt(j) PROVE i <= j
  BY <1>1, <1>7
<1>8. ASSUME NEW i \in 1..Len(s), i >= SdSkipped PROVE s[i] >= r.stop
  <2>1. DtsAt(r.stop) <= DtsAt(s[i])
    <3>1. s[i] \in 0..Num /\ r.stop \in 0..Num
      BY SMTT(30), <1>1, <1>3, <1>5
    <3>2. DtsAt(s[i]) \in Nat /\ DtsAt(r.stop) \in Nat /\ DtsMax <= DtsAt(s[i])
      BY <3>1, <1>1, <1>2, <1>8
    <3> QED BY <3>2, <1>2, <1>5
  <2> QED BY SMTT(30), <2>1, <1>1, <1>3, <1>5, <1>7
<1>9. CASE DtsMax = fragDts + range.max
  BY <1>1, <1>5, <1>6, <1>8, <1>9 DEF NextTooLong, ReachedAt, r, s
<1>10. CASE SdSkipped <= Len(s) /\ DtsMax = DtsAt(s[SdSkipped])
  <2>1. SdSkipped \in 1..Len(s)
    BY <1>3, <1>10
  <2>2. s[SdSkipped] \in 0..(Num - 1) /\ s[SdSkipped] >= next + 1
    BY <2>1, <1>1, <1>3
  <2>3. DtsAt(next + 1) <= DtsMax
    <3>1. next + 1 = s[SdSkipped] \/ DtsAt(next + 1) < DtsAt(s[SdSkipped])
      BY <2>2, <1>1
    <3> QED BY <3>1, <1>1, <1>10, <1>2
  <2>4. r.stop # next /\ ~NextTooLong
    BY <2>3, <1>1, <1>2, <1>5 DEF NextTooLong
  <2>5. ASSUME r.stop # Num, DtsAt(r.stop + 1) > DtsMax PROVE s[SdSkipped] = r.stop
    <3>1. s[SdSkipped] >= r.stop
      BY <2>1, <1>3, <1>8
    <3>2. ~(s[SdSkipped] >= r.stop + 1)
      <4> SUFFICES ASSUME s[SdSkipped] >= r.stop + 1 PROVE FALSE
        OBVIOUS
      <4>1. r.stop + 1 \in 0..Num /\ s[SdSkipped] \in 0..Num
        BY <2>2, <2>5, <1>1, <1>5
      <4>2. r.stop + 1 = s[SdSkipped] \/ DtsAt(r.stop + 1) < DtsAt(s[SdSkipped])
        BY <4>1, <1>1
      <4> QED BY <4>1, <4>2, <2>5, <1>1, <1>10
    <3> QED BY <3>1, <3>2, <2>2, <1>1, <1>5
  <2> QED BY <2>1, <2>4, <2>5, <1>1, <1>5, <1>6, <1>8 DEF ReachedAt, r, s
<1> QED BY <1>2, <1>9, <1>10

(* With sync samples close enough and not too close, a cut that starts at   *)
(* one stops at one, or at the end.                                         *)
LEMMA CutStopsAtSync ==
    ASSUME AtSample, EvenlySynced, ~AllRapSamples, next \in track.sync
    PROVE  Cut.stop \in track.sync \/ Cut.stop = Num
<1>1. /\ Num \in Nat /\ next \in 0..(Num - 1) /\ ~track.stpp
      /\ range.max \in Nat /\ range.min \in Nat /\ fragDts = DtsAt(next)
      /\ \A i \in 0..Num : DtsAt(i) \in Nat
      /\ \A i, j \in 0..Num : i < j => DtsAt(i) < DtsAt(j)
      /\ \A i \in 0..(Num - 1) : Dts(i) = DtsAt(i)
      /\ DtsAt(Num) = track.duration
  BY TimesGrow DEF AtSample
<1>2. track.sync \subseteq 0..(Num - 1)
  BY DEF AtSample, IsTrack, Num
<1> DEFINE later == {x \in track.sync : x > next} \cup {Num}
           u == Min(later)
           c == OneSample
           t == ToSync(c)
           r == TakeRest(t)
<1>3. u \in later /\ \A y \in later : u <= y
  <2>1. later \subseteq Nat /\ later # {}
    BY <1>1, <1>2
  <2> QED BY <2>1, LeastElement
<1>4. /\ DtsAt(u) - Dts(next) <= range.max
      /\ u < Num => u > next + 1 /\ Dts(u) - Dts(next) > range.min
  BY DEF EvenlySynced, SyncOrEndAfter
<1> HIDE DEF u
<1>5. /\ u \in (next + 1)..Num /\ (u # Num => u \in track.sync)
      /\ u <= Num /\ \A x \in track.sync : x > next => u <= x
  BY <1>1, <1>2, <1>3
<1>6. fragDts \in Nat /\ DtsAt(u) \in Nat /\ DtsAt(u) <= fragDts + range.max
  <2>1. DtsAt(u) \in Nat /\ DtsAt(next) \in Nat /\ Dts(next) = DtsAt(next)
    BY <1>1, <1>5
  <2> QED BY <2>1, <1>1, <1>4
<1>7. DtsAt(u) <= DtsMax /\ DtsMax \in Nat
  <2>1. /\ DtsMax \in Nat
        /\ \/ DtsMax = fragDts + range.max
           \/ SdSkipped <= Len(track.sds) /\ DtsMax = DtsAt(track.sds[SdSkipped])
    BY LatestEnd
  <2>2. ASSUME SdSkipped <= Len(track.sds), DtsMax = DtsAt(track.sds[SdSkipped])
        PROVE  DtsAt(u) <= DtsMax
    <3>1. /\ SdSkipped \in 1..Len(track.sds)
          /\ track.sds[SdSkipped] > next /\ track.sds[SdSkipped] \in 0..(Num - 1)
      <4>1. SdSkipped \in 1..(Len(track.sds) + 1) /\ Len(track.sds) \in Nat
        BY SkipsOnlyHere DEF AtSample, IsTrack
      <4>2. SdSkipped \in 1..Len(track.sds)
        BY <4>1, <2>2
      <4> QED BY <4>2, SkipsOnlyHere
    <3>2. track.sds[1] = 0 /\ \A i \in 2..Len(track.sds) : track.sds[i] \in track.sync
      BY DEF AtSample, IsTrack
    <3>3. SdSkipped # 1
      BY <3>1, <3>2, <1>1
    <3>4. track.sds[SdSkipped] \in track.sync
      BY <3>1, <3>2, <3>3
    <3>5. u <= track.sds[SdSkipped]
      BY <3>1, <3>4, <1>5
    <3>6. u = track.sds[SdSkipped] \/ DtsAt(u) < DtsAt(track.sds[SdSkipped])
      BY <3>1, <3>5, <1>1, <1>5
    <3> QED BY <3>6, <2>1, <2>2, <1>6
  <2> QED BY <2>1, <2>2, <1>6
<1>8. Growing(c) /\ c.stop = next + 1 /\ ~c.sync
  BY OneSampleGrowing
<1>9. /\ t = c \/ (t.sync /\ t.stop \in track.sync /\ \A x \in Stops(c) : x <= t.stop)
      /\ t = c => AllRapSamples \/ Stops(c) = {}
  BY <1>8, ToSyncGrowing
<1>10. Growing(t)
  BY <1>8, ToSyncGrowing
<1>11. Growing(r) /\ r.sync = t.sync /\ (r = t \/ r.stop = Num)
  BY <1>10, TakeRestGrowing
<1>12. r.sync => r.stop \in track.sync \/ r.stop = Num
  BY <1>8, <1>9, <1>11
<1>13. Cut = FillUp(r)
  BY <1>1 DEF Cut
<1> HIDE DEF c, t, r
<1>14. /\ SyncEnough(r) => FillUp(r) = r
       /\ ~SyncEnough(r) /\ TrackEndsInRange => FillUp(r).stop = Num
  BY <1>11, FillUpEnds
<1>15. CASE SyncEnough(r)
  BY <1>12, <1>13, <1>14, <1>15 DEF SyncEnough
<1>16. CASE TrackEndsInRange
  BY <1>13, <1>14, <1>15, <1>16
<1>17. CASE ~TrackEndsInRange
  <2>1. u # Num
    BY <1>7, <1>1, <1>17 DEF TrackEndsInRange
  <2>2. u < Num /\ u \in track.sync /\ u > next + 1
    BY <2>1, <1>1, <1>4, <1>5
  <2>3. Dts(u) = DtsAt(u) /\ Dts(next) = fragDts /\ DtsAt(u) > fragDts + range.min
    <3>1. Dts(u) = DtsAt(u) /\ Dts(next) = fragDts
      BY <2>2, <1>1, <1>5
    <3> QED BY <3>1, <2>2, <1>1, <1>4, <1>6
  <2>4. u \in Stops(c)
    <3>1. u >= next /\ u > c.stop /\ Dts(u) <= DtsMax
      BY <2>2, <2>3, <1>1, <1>5, <1>7, <1>8
    <3> QED BY <3>1, <2>2 DEF Stops, SyncsLeft
  <2>5. t.sync /\ u <= t.stop
    BY <2>4, <1>9
  <2>6. /\ t.stop \in (next + 1)..Num
        /\ r.stop \in (next + 1)..Num /\ r.dts = DtsAt(r.stop) /\ r.dts \in Nat
    BY <1>10, <1>11, GrowingFields
  <2>7. u <= r.stop
    BY <2>5, <2>6, <1>11, <1>5, <1>1
  <2>8. u = r.stop \/ DtsAt(u) < DtsAt(r.stop)
    BY <2>6, <2>7, <1>1, <1>5
  <2>9. r.dts > fragDts + range.min
    BY <2>3, <2>6, <2>8, <1>1, <1>6
  <2>10. SyncEnough(r)
    BY <2>5, <2>9, <1>11 DEF SyncEnough
  <2> QED BY <2>10, <1>15
<1> QED BY <1>16, <1>17

-----------------------------------------------------------------------------
(* Between two turns of the loop.  Fragments: they follow one another,      *)
(* each within the limits; an empty one means that the loop stands before a *)
(* sample that is too long, where it stays.                                 *)
Cutting == phase \in {"check", "cut"}

NextStop == IF segments = << >> THEN 0 ELSE Stop(Len(segments))

Chained == \A f \in Fragments : Start(f) = IF f = 1 THEN 0 ELSE Stop(f - 1)

OneEach == track.stpp => \A f \in Fragments : Start(f) = f - 1 /\ Stop(f) = f

InRange == ~track.stpp => \A f \in Fragments : DurationOf(f) <= range.max

NotShort ==
    ~track.stpp => \A f \in Fragments :
        \/ DurationOf(f) > range.min
        \/ Stop(f) = Num
        \/ \E i \in 1..Len(track.sds) : track.sds[i] = Stop(f)
        \/ DtsAt(Stop(f) + 1) - Dts(Start(f)) > range.max

EmptyOnlyIfTooLong ==
    \A f \in Fragments : \/ Start(f) < Stop(f)
                         \/ phase = "rap error"
                         \/ phase = "cut" /\ NextTooLong

FromSyncs ==
    firstIsSync /\ ~track.stpp =>
        AllRapSamples \/ \A f \in Fragments : Start(f) \in track.sync

FragInv == Chained /\ OneEach /\ InRange /\ NotShort /\ EmptyOnlyIfTooLong /\ FromSyncs

(* The cursors: the loop stands where the last fragment stops, descriptions *)
(* behind it have a fragment, and in an evenly synced track it is at a sync *)
(* sample.                                                                  *)
Standing == Cutting => next = NextStop /\ fragDts = DtsAt(next)

DescriptionsMet ==
    Cutting /\ ~track.stpp =>
        \A i \in 1..Len(track.sds) :
            IF i < sdNext THEN \E f \in Fragments : Start(f) = track.sds[i]
                          ELSE track.sds[i] >= next

OnTrack ==
    firstIsSync /\ ~track.stpp /\ EvenlySynced =>
        /\ phase # "rap error"
        /\ Cutting => AllRapSamples \/ next \in track.sync \/ next = Num

Finished ==
    phase = "ready" =>
        /\ segments # << >> /\ Stop(Len(segments)) = Num
        /\ DescriptionsStartFragments

Segment == [start : 0..(Num - 1), stop : 0..Num]

CutTypes ==
    /\ IsTrack(track) /\ range \in Ranges /\ firstIsSync \in Styles
    /\ range.max \in Nat /\ range.min \in Nat
    /\ next \in 0..Num
    /\ sdNext \in 1..(Len(track.sds) + 1)
    /\ fragDts \in Nat
    /\ segments \in Seq(Segment)
    /\ noSync \in BOOLEAN
    /\ phase \in {"check", "cut", "range error", "rap error", "ready"}

CutInv == CutTypes /\ FragInv /\ Standing /\ DescriptionsMet /\ OnTrack /\ Finished

LEMMA SegmentFields ==
    ASSUME NEW q \in Seq(Segment)
    PROVE  \A f \in 1..Len(q) : q[f].start \in 0..(Num - 1) /\ q[f].stop \in 0..Num
<1>1. \A f \in 1..Len(q) : q[f] \in Segment
  BY ElementsOf
<1> QED BY <1>1 DEF Segment

(* What cutting a fragment off does to the list.                            *)
LEMMA OneMore ==
    ASSUME NEW q \in Seq(Segment), NEW e, NEW p, p = Append(q, e)
    PROVE  /\ Len(q) \in Nat /\ Len(p) = Len(q) + 1 /\ p # << >>
           /\ p[Len(q) + 1] = e
           /\ \A f \in 1..Len(q) : p[f] = q[f]
OBVIOUS

(* Where the loop cuts is a sample, of a track whose times grow.            *)
LEMMA CutsAtSample ==
    ASSUME CutInv, phase = "cut", next < Num
    PROVE  /\ ~track.stpp => AtSample
           /\ track.stpp => Cut.stop = next + 1
           /\ Cut.stop \in next..Num /\ Cut.dts = DtsAt(Cut.stop) /\ Cut.dts \in Nat
           /\ SdSkipped \in 1..(Len(track.sds) + 1)
<1>1. /\ IsTrack(track) /\ range.max \in Nat /\ range.min \in Nat
      /\ next \in 0..Num /\ fragDts = DtsAt(next) /\ sdNext \in 1..(Len(track.sds) + 1)
  BY DEF CutInv, CutTypes, Standing, Cutting
<1>2. /\ Num \in Nat
      /\ \A i \in 0..Num : DtsAt(i) \in Nat
      /\ \A i \in 0..(Num - 1) : Dts(i) = DtsAt(i)
      /\ DtsAt(Num) = track.duration /\ Dts(0) = 0
  BY <1>1, TimesGrow
<1>3. SdSkipped \in 1..(Len(track.sds) + 1)
  <2>1. Len(track.sds) \in Nat
    BY <1>1 DEF IsTrack
  <2> QED BY <1>1, <2>1 DEF SdSkipped
<1>4. CASE ~track.stpp
  <2>1. \A i \in 1..Len(track.sds) : i >= sdNext => track.sds[i] >= next
    <3> TAKE i \in 1..Len(track.sds)
    <3>1. IF i < sdNext THEN \E f \in Fragments : Start(f) = track.sds[i]
                        ELSE track.sds[i] >= next
      BY <1>4 DEF CutInv, DescriptionsMet, Cutting
    <3>2. i >= sdNext => ~(i < sdNext)
      BY <1>1
    <3> QED BY <3>1, <3>2
  <2>2. AtSample
    BY <1>1, <1>2, <1>4, <2>1 DEF AtSample
  <2>3. Cut.stop \in next..Num /\ Cut.dts = DtsAt(Cut.stop)
    BY <2>2, CutStops
  <2>4. Cut.dts \in Nat
    BY <2>3, <1>1, <1>2
  <2> QED BY <2>2, <2>3, <2>4, <1>3, <1>4
<1>5. CASE track.stpp
  <2> DEFINE d == IF next + 1 < Num THEN Dts(next + 1) ELSE track.duration + Dts(0)
  <2>1. Cut = [stop |-> next + 1, dts |-> d, sync |-> FALSE]
    BY <1>5 DEF Cut, OneSample
  <2>2. d = DtsAt(next + 1) /\ d \in Nat
    <3>1. CASE next + 1 < Num
      BY <3>1, <1>1, <1>2
    <3>2. CASE ~(next + 1 < Num)
      <4>1. next + 1 = Num
        BY <3>2, <1>1, <1>2
      <4>2. d = track.duration + 0
        BY <3>2, <1>2
      <4>3. track.duration \in Nat
        BY <1>1 DEF IsTrack
      <4> HIDE DEF d
      <4> QED BY <4>1, <4>2, <4>3, <1>2
    <3> QED BY <3>1, <3>2
  <2> HIDE DEF d
  <2>3. next + 1 \in next..Num
    BY <1>1, <1>2
  <2> QED BY <2>1, <2>2, <2>3, <1>3, <1>5
<1> QED BY <1>4, <1>5

(* The list grows by the fragment that is cut off.                          *)
LEMMA CutKeepsTypes ==
    ASSUME CutInv, CutFragment
    PROVE  /\ CutTypes'
           /\ Len(segments) \in Nat /\ Len(segments') = Len(segments) + 1
           /\ segments' # << >>
           /\ segments'[Len(segments) + 1] = [start |-> next, stop |-> Cut.stop]
           /\ \A f \in 1..Len(segments) : segments'[f] = segments[f]
<1>1. phase = "cut" /\ next < Num /\ fragDts < track.duration
  BY DEF CutFragment
<1>2. /\ Cut.stop \in next..Num /\ Cut.dts = DtsAt(Cut.stop) /\ Cut.dts \in Nat
      /\ SdSkipped \in 1..(Len(track.sds) + 1)
  BY <1>1, CutsAtSample
<1>3. IsTrack(track) /\ next \in 0..Num /\ segments \in Seq(Segment)
  BY DEF CutInv, CutTypes
<1>4. Num \in Nat
  BY <1>3, TimesGrow
<1>5. [start |-> next, stop |-> Cut.stop] \in Segment
  <2>1. next \in 0..(Num - 1) /\ Cut.stop \in 0..Num
    BY <1>1, <1>2, <1>3, <1>4
  <2> QED BY <2>1 DEF Segment
<1>6. segments' = Append(segments, [start |-> next, stop |-> Cut.stop])
  BY DEF CutFragment
<1>7. segments' \in Seq(Segment)
  BY <1>3, <1>5, <1>6
<1>8. track' = track /\ range' = range /\ firstIsSync' = firstIsSync /\ phase' = phase
  BY DEF CutFragment
<1>9. Num' = Num /\ Segment' = Segment
  BY <1>8 DEF Num, Segment
<1>10. next' \in 0..Num
  <2>1. next' = Cut.stop
    BY DEF CutFragment
  <2> QED BY <2>1, <1>2, <1>3, <1>4
<1>11. fragDts' \in Nat
  BY <1>2 DEF CutFragment
<1>12. sdNext' \in 1..(Len(track.sds) + 1)
  BY <1>2 DEF CutFragment, CutInv, CutTypes
<1>13. noSync' \in BOOLEAN
  BY DEF CutFragment, CutInv, CutTypes
<1>14. CutTypes'
  BY <1>3, <1>7, <1>8, <1>9, <1>10, <1>11, <1>12, <1>13 DEF CutInv, CutTypes
<1> QED BY <1>3, <1>6, <1>14, OneMore

LEMMA CutKeeps ==
    ASSUME CutInv, CutFragment
    PROVE  CutInv'
<1>1. /\ phase = "cut" /\ next < Num /\ ~(StartsOffSync /\ firstIsSync)
      /\ track' = track /\ range' = range /\ firstIsSync' = firstIsSync /\ phase' = "cut"
      /\ next' = Cut.stop /\ fragDts' = Cut.dts
      /\ sdNext' = IF track.stpp THEN sdNext ELSE SdSkipped
  BY DEF CutFragment
<1>2. /\ ~track.stpp => AtSample
      /\ track.stpp => Cut.stop = next + 1
      /\ Cut.stop \in next..Num /\ Cut.dts = DtsAt(Cut.stop) /\ Cut.dts \in Nat
  BY <1>1, CutsAtSample
<1>3. PICK n \in Nat, a \in {next}, e \in {Cut.stop}, k \in Nat :
        /\ n = Len(segments) /\ a = next /\ e = Cut.stop /\ k = n + 1
  <2>1. Len(segments) \in Nat
    BY CutKeepsTypes
  <2> QED BY <2>1
<1>4. /\ segments \in Seq(Segment) /\ IsTrack(track) /\ a \in 0..Num /\ fragDts = DtsAt(a)
      /\ range.max \in Nat /\ range.min \in Nat /\ track.stpp \in BOOLEAN
      /\ a = NextStop
  BY <1>1, <1>3 DEF CutInv, CutTypes, Standing, Cutting, IsTrack
<1>5. /\ Num \in Nat
      /\ \A i \in 0..Num : DtsAt(i) \in Nat
      /\ \A i \in 0..(Num - 1) : Dts(i) = DtsAt(i)
  BY <1>4, TimesGrow
<1>6. e \in a..Num /\ a \in 0..(Num - 1) /\ k \in Nat
  BY <1>1, <1>2, <1>3, <1>4, <1>5
<1>7. /\ Fragments = 1..n /\ Fragments' = 1..k
      /\ \A f \in 1..n : Start(f)' = Start(f) /\ Stop(f)' = Stop(f)
      /\ Start(k)' = a /\ Stop(k)' = e
  <2>1. /\ Len(segments') = k /\ segments'[k] = [start |-> a, stop |-> e]
        /\ \A f \in 1..n : segments'[f] = segments[f]
    BY <1>3, CutKeepsTypes
  <2> QED BY <2>1, <1>3 DEF Fragments, Start, Stop
<1>8. /\ Num' = Num /\ (\A i : Dts(i)' = Dts(i)) /\ (\A i : DtsAt(i)' = DtsAt(i))
      /\ AllRapSamples' = AllRapSamples /\ EvenlySynced' = EvenlySynced
  <2>1. Num' = Num /\ (\A i : Dts(i)' = Dts(i))
    BY <1>1 DEF Num, Dts
  <2>2. \A i : DtsAt(i)' = DtsAt(i)
    BY <1>1, <2>1 DEF DtsAt
  <2>3. AllRapSamples' = AllRapSamples
    BY <1>1, <2>1 DEF AllRapSamples
  <2>4. EvenlySynced' = EvenlySynced
    BY <1>1 DEF EvenlySynced, SyncOrEndAfter, DtsAt, Dts, Num
  <2> QED BY <2>1, <2>2, <2>3, <2>4
<1>9. \A f \in 1..n : Start(f) \in 0..(Num - 1) /\ Stop(f) \in 0..Num
  BY <1>3, <1>4, SegmentFields DEF Start, Stop
<1>10. CutTypes'
  BY CutKeepsTypes
<1>11. Chained'
  <2> SUFFICES ASSUME NEW f \in 1..k
               PROVE  Start(f)' = IF f = 1 THEN 0 ELSE Stop(f - 1)'
    BY <1>7 DEF Chained
  <2>1. CASE f \in 1..n
    <3>1. Start(f) = IF f = 1 THEN 0 ELSE Stop(f - 1)
      BY <2>1, <1>7 DEF CutInv, FragInv, Chained
    <3>2. f # 1 => f - 1 \in 1..n
      BY <2>1, <1>3
    <3> QED BY <3>1, <3>2, <2>1, <1>7
  <2>2. CASE f = k
    <3>1. a = IF n = 0 THEN 0 ELSE Stop(n)
      BY <1>3, <1>4 DEF NextStop
    <3>2. k - 1 = n /\ (k # 1 => n \in 1..n /\ n # 0) /\ (k = 1 => n = 0)
      BY <1>3
    <3> QED BY <3>1, <3>2, <2>2, <1>7
  <2> QED BY <2>1, <2>2, <1>3
<1>12. OneEach'
  <2> SUFFICES ASSUME track.stpp, NEW f \in 1..k
               PROVE  Start(f)' = f - 1 /\ Stop(f)' = f
    BY <1>1, <1>7 DEF OneEach
  <2>1. \A g \in 1..n : Start(g) = g - 1 /\ Stop(g) = g
    BY <1>7 DEF CutInv, FragInv, OneEach
  <2>2. CASE f \in 1..n
    BY <2>1, <2>2, <1>7
  <2>3. CASE f = k
    <3>1. a = IF n = 0 THEN 0 ELSE Stop(n)
      BY <1>3, <1>4 DEF NextStop
    <3>2. a = n
      BY <3>1, <2>1, <1>3
    <3>3. e = a + 1
      BY <1>2, <1>3
    <3> QED BY <3>2, <3>3, <2>3, <1>3, <1>7
  <2> QED BY <2>2, <2>3, <1>3
<1>13. InRange' /\ NotShort'
  <2> SUFFICES ASSUME ~track.stpp, NEW f \in 1..k
               PROVE  /\ (DtsAt(Stop(f)') - Dts(Start(f)')) <= range.max
                      /\ \/ (DtsAt(Stop(f)') - Dts(Start(f)')) > range.min
                         \/ Stop(f)' = Num
                         \/ \E i \in 1..Len(track.sds) : track.sds[i] = Stop(f)'
                         \/ DtsAt(Stop(f)' + 1) - Dts(Start(f)') > range.max
    <3>1. \A f \in 1..k : DurationOf(f)' = DtsAt(Stop(f)') - Dts(Start(f)')
      BY <1>1 DEF DurationOf, DtsAt, Dts, Num
    <3>2. \A f \in 1..k : (DtsAt(Stop(f) + 1) - Dts(Start(f)))'
                             = DtsAt(Stop(f)' + 1) - Dts(Start(f)')
      BY <1>1 DEF DtsAt, Dts, Num
    <3> QED BY <3>1, <3>2, <1>1, <1>7, <1>8 DEF InRange, NotShort
  <2>1. CASE f \in 1..n
    <3>1. /\ DurationOf(f) <= range.max
          /\ \/ DurationOf(f) > range.min
             \/ Stop(f) = Num
             \/ \E i \in 1..Len(track.sds) : track.sds[i] = Stop(f)
             \/ DtsAt(Stop(f) + 1) - Dts(Start(f)) > range.max
      BY <2>1, <1>7 DEF CutInv, FragInv, InRange, NotShort
    <3>2. Start(f)' = Start(f) /\ Stop(f)' = Stop(f)
      BY <2>1, <1>7
    <3> QED BY <3>1, <3>2 DEF DurationOf
  <2>2. CASE f = k
    <3>1. Start(f)' = a /\ Stop(f)' = e
      BY <2>2, <1>7
    <3>2. /\ DtsAt(e) <= fragDts + range.max
          /\ DtsAt(e) > fragDts + range.min \/ ReachedAt(e)
      BY <1>2, <1>3, CutStops
    <3>3. Dts(a) = fragDts /\ fragDts \in Nat /\ DtsAt(e) \in Nat
      BY <1>4, <1>5, <1>6
    <3>4. DtsAt(e + 1) > fragDts + range.max => e = Num \/ DtsAt(e + 1) - fragDts > range.max
      BY <3>3, <1>4, <1>5, <1>6
    <3> QED BY <3>1, <3>2, <3>3, <3>4, <1>4 DEF ReachedAt
  <2> QED BY <2>1, <2>2, <1>3
<1>14. Standing'
  <2>1. next' = e /\ fragDts' = DtsAt(e)
    BY <1>1, <1>2, <1>3
  <2>2. segments' # << >> /\ Len(segments') = k
    BY <1>3, CutKeepsTypes
  <2>3. NextStop' = Stop(k)'
    BY <2>2 DEF NextStop, Stop
  <2>4. DtsAt(next)' = DtsAt(next')
    BY <1>1 DEF DtsAt, Dts, Num
  <2> QED BY <2>1, <2>3, <2>4, <1>7 DEF Standing
<1>15. EmptyOnlyIfTooLong'
  <2>1. ASSUME NextTooLong PROVE NextTooLong' /\ e = a
    <3>1. ~track.stpp /\ e = a
      BY <2>1, <1>2, <1>3, CutStops DEF NextTooLong
    <3>2. next' = next /\ fragDts' = fragDts
      BY <3>1, <1>1, <1>2, <1>3, <1>4
    <3>3. DtsAt(next + 1)' = DtsAt(next + 1)
      BY <3>2, <1>1 DEF DtsAt, Dts, Num
    <3> QED BY <2>1, <3>1, <3>2, <3>3, <1>1, <1>8 DEF NextTooLong
  <2>2. ASSUME ~(a < e) PROVE NextTooLong'
    <3>1. a = e
      BY <2>2, <1>6, <1>5
    <3>2. ~track.stpp
      <4> SUFFICES ASSUME track.stpp PROVE FALSE
        OBVIOUS
      <4>1. e = a + 1 /\ a \in Int
        BY <1>2, <1>3, <1>5, <1>6
      <4> QED BY <3>1, <4>1
    <3> QED BY <3>1, <3>2, <2>1, <1>2, <1>3, CutStops
  <2>3. ASSUME NEW f \in 1..n, ~(Start(f) < Stop(f)) PROVE NextTooLong
    BY <2>3, <1>1, <1>7 DEF CutInv, FragInv, EmptyOnlyIfTooLong
  <2>4. \A f \in 1..k : f \in 1..n \/ f = k
    BY <1>3
  <2>5. ASSUME NEW f \in 1..k PROVE Start(f)' < Stop(f)' \/ NextTooLong'
    BY <2>1, <2>2, <2>3, <2>4, <1>7
  <2> QED BY <2>5, <1>1, <1>7 DEF EmptyOnlyIfTooLong
<1>16. FromSyncs'
  <2> SUFFICES ASSUME firstIsSync, ~track.stpp, ~AllRapSamples, NEW f \in 1..k
               PROVE  Start(f)' \in track.sync
    BY <1>1, <1>7, <1>8 DEF FromSyncs
  <2>1. CASE f \in 1..n
    BY <2>1, <1>7 DEF CutInv, FragInv, FromSyncs
  <2>2. CASE f = k
    BY <2>2, <1>1, <1>3, <1>7 DEF StartsOffSync
  <2> QED BY <2>1, <2>2, <1>3
<1>17. DescriptionsMet'
  <2> SUFFICES ASSUME ~track.stpp, NEW i \in 1..Len(track.sds)
               PROVE  IF i < SdSkipped THEN \E f \in 1..k : Start(f)' = track.sds[i]
                                       ELSE track.sds[i] >= e
    BY <1>1, <1>3, <1>7 DEF DescriptionsMet
  <2>1. /\ SdSkipped \in 1..(Len(track.sds) + 1)
        /\ i < SdSkipped => i < sdNext \/ track.sds[i] = a
        /\ i >= SdSkipped => track.sds[i] >= e
    BY <1>2, <1>3, SkipsOnlyHere, CutStops
  <2>2. CASE i < sdNext
    <3>1. PICK f \in 1..n : Start(f) = track.sds[i]
      BY <2>2, <1>1, <1>7 DEF CutInv, DescriptionsMet, Cutting
    <3>2. f \in 1..k /\ Start(f)' = track.sds[i]
      BY <3>1, <1>3, <1>7
    <3> QED BY <3>2, <2>1
  <2>3. CASE track.sds[i] = a
    <3>1. k \in 1..k /\ Start(k)' = track.sds[i]
      BY <2>3, <1>3, <1>6, <1>7
    <3> QED BY <3>1, <2>1
  <2> QED BY <2>1, <2>2, <2>3
<1>18. OnTrack'
  <2> SUFFICES ASSUME firstIsSync, ~track.stpp, EvenlySynced, ~AllRapSamples
               PROVE  e \in track.sync \/ e = Num
    BY <1>1, <1>3, <1>8 DEF OnTrack
  <2>1. next \in track.sync
    BY <1>1, <1>4, <1>5, <1>6 DEF CutInv, OnTrack, Cutting
  <2> QED BY <2>1, <1>2, <1>3, CutStopsAtSync
<1>19. Finished'
  BY <1>1 DEF Finished
<1> QED BY <1>10, <1>11, <1>12, <1>13, <1>14, <1>15, <1>16, <1>17, <1>18, <1>19
        DEF CutInv, FragInv

(* When the loop ends nothing is left of the track: no sample, so that no   *)
(* description is unmet and no fragment empty.                              *)
LEMMA FinishKeeps ==
    ASSUME CutInv, Finish
    PROVE  CutInv'
<1>1. /\ phase = "cut" /\ (fragDts >= track.duration \/ next >= Num)
      /\ next' = 0 /\ phase' = "ready"
      /\ UNCHANGED <<track, range, firstIsSync, sdNext, fragDts, segments, noSync>>
  BY DEF Finish
<1>2. /\ IsTrack(track) /\ next \in 0..Num /\ fragDts = DtsAt(next) /\ next = NextStop
      /\ segments \in Seq(Segment)
  BY <1>1 DEF CutInv, CutTypes, Standing, Cutting
<1>3. /\ Num \in Nat /\ Num > 0
      /\ \A i \in 0..Num : DtsAt(i) \in Nat
      /\ \A i, j \in 0..Num : i < j => DtsAt(i) < DtsAt(j)
      /\ DtsAt(Num) = track.duration
  BY <1>2, TimesGrow
<1>4. next = Num
  <2> SUFFICES ASSUME next < Num PROVE FALSE
    BY <1>2, <1>3
  <2>1. DtsAt(next) < DtsAt(Num) /\ DtsAt(next) \in Nat /\ DtsAt(Num) \in Nat
    BY <1>2, <1>3
  <2> QED BY <2>1, <1>1, <1>2, <1>3
<1>5. segments # << >> /\ Stop(Len(segments)) = Num
  BY <1>2, <1>3, <1>4 DEF NextStop
<1>6. \A f \in Fragments : Start(f) < Stop(f)
  BY <1>1, <1>3, <1>4 DEF CutInv, FragInv, EmptyOnlyIfTooLong, NextTooLong
<1>7. ASSUME NEW i \in 1..Len(track.sds)
      PROVE  \E f \in Fragments : Start(f) = track.sds[i]
  <2>1. track.sds[i] \in 0..(Num - 1)
    <3>1. track.sds \in Seq(0..(Num - 1))
      BY <1>2 DEF IsTrack, Num
    <3> QED BY <3>1, ElementsOf
  <2>2. CASE ~track.stpp
    <3>1. IF i < sdNext THEN \E f \in Fragments : Start(f) = track.sds[i]
                        ELSE track.sds[i] >= next
      BY <1>1, <2>2 DEF CutInv, DescriptionsMet, Cutting
    <3> QED BY <3>1, <2>1, <1>3, <1>4
  <2>3. CASE track.stpp
    <3>1. \A f \in Fragments : Start(f) = f - 1 /\ Stop(f) = f
      BY <2>3 DEF CutInv, FragInv, OneEach
    <3>2. Len(segments) \in Nat /\ Len(segments) \in Fragments
      BY <1>2, <1>5 DEF Fragments
    <3>3. Len(segments) = Num
      BY <3>1, <3>2, <1>5
    <3>4. track.sds[i] + 1 \in Fragments
      BY <3>3, <2>1, <1>3 DEF Fragments
    <3> QED BY <3>1, <3>4, <2>1, <1>3
  <2> QED BY <2>2, <2>3
<1>8. /\ Num' = Num /\ Fragments' = Fragments /\ Segment' = Segment
      /\ AllRapSamples' = AllRapSamples
      /\ \A f : Start(f)' = Start(f) /\ Stop(f)' = Stop(f)
  BY <1>1 DEF Num, Fragments, AllRapSamples, Start, Stop, Segment
<1>9. CutTypes'
  BY <1>1, <1>3, <1>8 DEF CutInv, CutTypes
<1>10. Chained' /\ OneEach' /\ FromSyncs' /\ EmptyOnlyIfTooLong'
  BY <1>1, <1>6, <1>8
     DEF CutInv, FragInv, Chained, OneEach, FromSyncs, EmptyOnlyIfTooLong
<1>11. InRange' /\ NotShort'
  BY <1>1 DEF CutInv, FragInv, InRange, NotShort, DurationOf, DtsAt, Dts, Num, Fragments,
              Start, Stop
<1>12. Finished'
  <2>1. Stop(Len(segments))' = Num /\ segments' # << >>
    BY <1>1, <1>5 DEF Stop
  <2>2. DescriptionsStartFragments'
    BY <1>1, <1>7, <1>8 DEF DescriptionsStartFragments
  <2> QED BY <2>1, <2>2, <1>8 DEF Finished
<1>13. Standing' /\ DescriptionsMet' /\ OnTrack'
  <2>1. EvenlySynced' = EvenlySynced
    BY <1>1 DEF EvenlySynced, SyncOrEndAfter, DtsAt, Dts, Num
  <2> QED BY <2>1, <1>1 DEF CutInv, Standing, DescriptionsMet, OnTrack, Cutting
<1> QED BY <1>9, <1>10, <1>11, <1>12, <1>13 DEF CutInv, FragInv

(* Giving up leaves the list as it is, and does not happen to an evenly     *)
(* synced track.                                                            *)
LEMMA GiveUpKeeps ==
    ASSUME CutInv, GiveUp
    PROVE  CutInv'
<1>1. /\ phase = "cut" /\ next < Num /\ StartsOffSync /\ firstIsSync
      /\ sdNext' = SdSkipped /\ noSync' = TRUE /\ phase' = "rap error"
      /\ UNCHANGED <<track, range, firstIsSync, next, fragDts, segments>>
  BY DEF GiveUp
<1>2. SdSkipped \in 1..(Len(track.sds) + 1)
  BY <1>1, CutsAtSample
<1>3. /\ Num' = Num /\ Fragments' = Fragments /\ Segment' = Segment
      /\ AllRapSamples' = AllRapSamples
      /\ \A f : Start(f)' = Start(f) /\ Stop(f)' = Stop(f)
  BY <1>1 DEF Num, Fragments, AllRapSamples, Start, Stop, Segment
<1>4. CutTypes'
  BY <1>1, <1>2, <1>3 DEF CutInv, CutTypes
<1>5. Chained' /\ OneEach' /\ FromSyncs' /\ EmptyOnlyIfTooLong'
  BY <1>1, <1>3 DEF CutInv, FragInv, Chained, OneEach, FromSyncs, EmptyOnlyIfTooLong
<1>6. InRange' /\ NotShort'
  BY <1>1 DEF CutInv, FragInv, InRange, NotShort, DurationOf, DtsAt, Dts, Num, Fragments,
              Start, Stop
<1>7. ~track.stpp /\ ~AllRapSamples /\ next \notin track.sync
  BY <1>1 DEF StartsOffSync
<1>8. ~EvenlySynced
  <2>1. next \in 0..Num /\ Num \in Nat
    BY TimesGrow DEF CutInv, CutTypes
  <2>2. OnTrack /\ Cutting
    BY <1>1 DEF CutInv, Cutting
  <2>3. next # Num
    <3>1. next < Num
      BY DEF GiveUp
    <3> QED BY ONLY <2>1, <3>1
  <2> QED BY <2>2, <2>3, <1>1, <1>7 DEF OnTrack
<1>9. EvenlySynced' = EvenlySynced
  BY <1>1 DEF EvenlySynced, SyncOrEndAfter, DtsAt, Dts, Num
<1>10. Standing' /\ DescriptionsMet' /\ OnTrack' /\ Finished'
  BY <1>1, <1>8, <1>9 DEF Standing, DescriptionsMet, OnTrack, Finished, Cutting
<1> QED BY <1>4, <1>5, <1>6, <1>10 DEF CutInv, FragInv

-----------------------------------------------------------------------------
(* However a track is cut, the fragments made so far follow one another     *)
(* within the limits, and the loop stands where the last one stops.         *)
THEOREM CutInvariance == Spec => []CutInv
<1>1. Init => CutInv
  <2> SUFFICES ASSUME Init PROVE CutInv
    OBVIOUS
  <2>1. /\ IsTrack(track) /\ range \in Ranges /\ firstIsSync \in Styles
        /\ next = 0 /\ sdNext = 1 /\ fragDts = 0 /\ segments = << >> /\ noSync = FALSE
        /\ phase = "check"
    BY FragmenterAssumption DEF Init
  <2>2. range.max \in Nat /\ range.min \in Nat
    <3>1. range \in [max : Nat, min : Nat]
      BY <2>1, FragmenterAssumption
    <3> QED BY <3>1
  <2>3. Num \in Nat /\ Num > 0 /\ DtsAt(0) = 0
    <3>1. Num \in Nat /\ Num > 0 /\ Dts(0) = 0 /\ \A i \in 0..(Num - 1) : Dts(i) = DtsAt(i)
      BY <2>1, TimesGrow
    <3>2. 0 \in 0..(Num - 1)
      BY <3>1
    <3> QED BY <3>1, <3>2
  <2>4. Fragments = {}
    BY <2>1 DEF Fragments
  <2>5. CutTypes
    <3>1. segments \in Seq(Segment) /\ 1 \in 1..(Len(track.sds) + 1)
      BY <2>1 DEF IsTrack
    <3>2. next \in 0..Num /\ fragDts \in Nat /\ sdNext \in 1..(Len(track.sds) + 1)
      BY <2>1, <2>3, <3>1
    <3>3. noSync \in BOOLEAN
      BY <2>1
    <3> QED BY <2>1, <2>2, <3>1, <3>2, <3>3 DEF CutTypes
  <2>6. FragInv
    BY <2>4 DEF FragInv, Chained, OneEach, InRange, NotShort, EmptyOnlyIfTooLong, FromSyncs
  <2>7. Standing /\ Finished
    BY <2>1, <2>3 DEF Standing, NextStop, Finished
  <2>8. DescriptionsMet
    <3>1. \A i \in 1..Len(track.sds) : track.sds[i] >= 0 /\ ~(i < 1)
      <4>1. track.sds \in Seq(0..(Num - 1)) /\ Len(track.sds) \in Nat
        BY <2>1 DEF IsTrack, Num
      <4> QED BY <4>1, <2>3, ElementsOf
    <3> QED BY <2>1, <3>1 DEF DescriptionsMet
  <2>9. OnTrack
    BY <2>1 DEF OnTrack, EvenlySynced
  <2> QED BY <2>5, <2>6, <2>7, <2>8, <2>9 DEF CutInv
<1>2. CutInv /\ [Next]_vars => CutInv'
  <2> SUFFICES ASSUME CutInv, [Next]_vars PROVE CutInv'
    OBVIOUS
  <2>1. CASE UNCHANGED vars
    <3>1. UNCHANGED <<track, range, firstIsSync, next, sdNext, fragDts, segments, noSync, phase>>
      BY <2>1 DEF vars
    <3>2. CutTypes'
      BY <3>1 DEF CutInv, CutTypes, Segment, Num
    <3>3. Chained' /\ OneEach' /\ InRange' /\ NotShort' /\ FromSyncs'
      BY <3>1 DEF CutInv, FragInv, Chained, OneEach, InRange, NotShort, FromSyncs,
                  AllRapSamples, DurationOf, DtsAt, Dts, Num, Fragments, Start, Stop
    <3>4. EmptyOnlyIfTooLong'
      <4>1. NextTooLong' = NextTooLong /\ Fragments' = Fragments
        BY <3>1 DEF NextTooLong, DtsAt, Dts, Num, Fragments
      <4>2. \A f : Start(f)' = Start(f) /\ Stop(f)' = Stop(f)
        BY <3>1 DEF Start, Stop
      <4> QED BY <3>1, <4>1, <4>2 DEF CutInv, FragInv, EmptyOnlyIfTooLong
    <3>5. EvenlySynced' = EvenlySynced /\ AllRapSamples' = AllRapSamples /\ Num' = Num
      BY <3>1 DEF EvenlySynced, SyncOrEndAfter, DtsAt, Dts, Num, AllRapSamples
    <3>6. Standing' /\ OnTrack'
      BY <3>1, <3>5 DEF CutInv, Standing, NextStop, OnTrack, Cutting, DtsAt, Dts, Num, Stop
    <3>7. DescriptionsMet'
      BY <3>1 DEF CutInv, DescriptionsMet, Cutting, Fragments, Start
    <3>8. Finished'
      BY <3>1, <3>5 DEF CutInv, Finished, DescriptionsStartFragments, Fragments, Start, Stop
    <3> QED BY <3>2, <3>3, <3>4, <3>6, <3>7, <3>8 DEF CutInv, FragInv
  <2>2. CASE CheckRange
    <3>1. /\ phase = "check" /\ phase' \in {"cut", "range error"}
          /\ UNCHANGED <<track, range, firstIsSync, next, sdNext, fragDts, segments, noSync>>
      BY <2>2 DEF CheckRange
    <3>2. CutTypes'
      BY <3>1 DEF CutInv, CutTypes, Segment, Num
    <3>3. Chained' /\ OneEach' /\ InRange' /\ NotShort' /\ FromSyncs'
      BY <3>1 DEF CutInv, FragInv, Chained, OneEach, InRange, NotShort, FromSyncs,
                  AllRapSamples, DurationOf, DtsAt, Dts, Num, Fragments, Start, Stop
    <3>4. EmptyOnlyIfTooLong'
      BY <3>1 DEF CutInv, FragInv, EmptyOnlyIfTooLong, Fragments, Start, Stop
    <3>5. EvenlySynced' = EvenlySynced /\ AllRapSamples' = AllRapSamples /\ Num' = Num
      BY <3>1 DEF EvenlySynced, SyncOrEndAfter, DtsAt, Dts, Num, AllRapSamples
    <3>6. Standing' /\ OnTrack' /\ Finished'
      BY <3>1, <3>5 DEF CutInv, Standing, NextStop, OnTrack, Finished, Cutting, DtsAt, Dts,
                        Num, Stop
    <3>7. DescriptionsMet'
      BY <3>1 DEF CutInv, DescriptionsMet, Cutting, Fragments, Start
    <3> QED BY <3>2, <3>3, <3>4, <3>6, <3>7 DEF CutInv, FragInv
  <2> QED BY <2>1, <2>2, CutKeeps, GiveUpKeeps, FinishKeeps DEF Next
<1> QED BY <1>1, <1>2, PTL DEF Spec

(* The fragments of a track cover its samples, in order and each once; none *)
(* is empty, and every sample description starts one.                       *)
THEOREM FragmentsCover == Spec => []FragmentsCoverTrack
<1>1. CutInv => FragmentsCoverTrack
  <2> SUFFICES ASSUME CutInv PROVE FragmentsCoverTrack
    OBVIOUS
  <2>1. TypeOK
    BY DEF CutInv, CutTypes, TypeOK, Segment
  <2>2. \A f \in Fragments : Start(f) = IF f = 1 THEN 0 ELSE Stop(f - 1)
    BY DEF CutInv, FragInv, Chained
  <2>3. phase = "cut" => fragDts = DtsAt(next)
    BY DEF CutInv, Standing, Cutting
  <2>4. phase = "ready" => /\ segments # << >> /\ Stop(Len(segments)) = Num
                           /\ DescriptionsStartFragments
    BY DEF CutInv, Finished
  <2>5. phase = "ready" => \A f \in Fragments : Start(f) < Stop(f)
    BY DEF CutInv, FragInv, EmptyOnlyIfTooLong
  <2>6. DescriptionsStartFragments
    BY <2>4 DEF DescriptionsStartFragments
  <2> QED BY <2>1, <2>2, <2>3, <2>4, <2>5, <2>6 DEF FragmentsCoverTrack
<1> QED BY <1>1, CutInvariance, PTL

(* No fragment is longer than the maximum; a subtitle sample is one.        *)
THEOREM DurationsInRange == Spec => []DurationNotAboveMax
<1>1. CutInv => DurationNotAboveMax
  <2> SUFFICES ASSUME CutInv, NEW f \in Fragments
               PROVE  IF track.stpp THEN Stop(f) = Start(f) + 1 ELSE DurationOf(f) <= range.max
    BY DEF DurationNotAboveMax
  <2>1. f \in Nat
    BY DEF Fragments
  <2> QED BY <2>1 DEF CutInv, FragInv, OneEach, InRange
<1> QED BY <1>1, CutInvariance, PTL

(* A fragment at or below the minimum stops at the end of the track, at a   *)
(* new description, or before a sample that is too long for it.             *)
THEOREM ShortFragmentsHaveReasons == Spec => []ShortOnlyIfNeeded
<1>1. CutInv => ShortOnlyIfNeeded
  BY DEF CutInv, FragInv, NotShort, ShortOnlyIfNeeded
<1> QED BY <1>1, CutInvariance, PTL

(* In the default style the cut succeeds on evenly synced tracks, and what  *)
(* it makes starts at sync samples.                                         *)
THEOREM EvenlySyncedTracksAreCut == Spec => []CutSucceeds
<1>1. CutInv => CutSucceeds
  BY DEF CutInv, FragInv, FromSyncs, OnTrack, CutSucceeds
<1> QED BY <1>1, CutInvariance, PTL
=============================================================================
