------------------------- MODULE TrackIntakeProofs -------------------------
(***************************************************************************)
(* What the lists of a track say of its samples, for every number of       *)
(* samples, their sizes, times and flags, and every span and size limit.   *)
(***************************************************************************)
EXTENDS TrackIntake, SumsProofs, FiniteSetTheorems

Run == [idx : Nat, count : Nat, value : Int]

(* lst codes f[1] .. f[n] in runs, which follow one another.                *)
Covers(r, k) == k \in r.idx .. (r.idx + r.count - 1)

Codes(lst, n, f) ==
    /\ \A i \in 1..Len(lst) : /\ lst[i].idx >= 1 /\ lst[i].count >= 1
                              /\ lst[i].idx + lst[i].count <= n + 1
    /\ \A i \in 1..Len(lst) : \A k \in 1..n : Covers(lst[i], k) => lst[i].value = f[k]
    /\ \A k \in 1..n : \E i \in 1..Len(lst) : Covers(lst[i], k)
    /\ \A i \in 1..(Len(lst) - 1) : lst[i].value # lst[i + 1].value
    /\ IF lst = << >> THEN n = 0 ELSE Final(lst).idx + Final(lst).count = n + 1

LEMMA RunFields ==
    ASSUME NEW lst \in Seq(Run)
    PROVE  \A i \in 1..Len(lst) : lst[i].idx \in Nat /\ lst[i].count \in Nat
<1>1. \A r \in Run : r.idx \in Nat /\ r.count \in Nat
  BY DEF Run
<1> QED BY <1>1

(* A run that grows stays one.                                              *)
LEMMA RunGrows ==
    ASSUME NEW r \in Run
    PROVE  LET s == [r EXCEPT !.count = @ + 1]
           IN  s \in Run /\ s.idx = r.idx /\ s.count = r.count + 1 /\ s.value = r.value
BY DEF Run

(* One value more, by the last run or by one of its own.                    *)
LEMMA RunAppendCodes ==
    ASSUME NEW lst \in Seq(Run), NEW n \in Nat, NEW f, NEW g, NEW v \in Int,
           Codes(lst, n, f), g[n + 1] = v, \A k \in 1..n : g[k] = f[k]
    PROVE  RunAppend(lst, v) \in Seq(Run) /\ Codes(RunAppend(lst, v), n + 1, g)
<1> DEFINE new == RunAppend(lst, v)
<1>1. CASE lst # << >> /\ Final(lst).value = v
  <2>1. Len(lst) \in Nat /\ Len(lst) >= 1 /\ Final(lst) = lst[Len(lst)] /\ Final(lst) \in Run
    BY <1>1 DEF Final
  <2> DEFINE last == [Final(lst) EXCEPT !.count = @ + 1]
  <2>2. last \in Run /\ last.idx = Final(lst).idx /\ last.count = Final(lst).count + 1
        /\ last.value = v
    BY <1>1, <2>1, RunGrows
  <2>3. new = [lst EXCEPT ![Len(lst)] = last]
    BY <1>1, <2>1 DEF RunAppend
  <2> HIDE DEF last, new
  <2>4. /\ new \in Seq(Run) /\ Len(new) = Len(lst)
        /\ \A i \in 1..(Len(lst) - 1) : new[i] = lst[i]
        /\ new[Len(lst)] = last
    BY <2>1, <2>2, <2>3
  <2>5. Final(lst).idx + Final(lst).count = n + 1
    BY <1>1 DEF Codes
  <2>6. \A i \in 1..Len(lst) : lst[i].idx \in Nat /\ lst[i].count \in Nat
    BY RunFields
  <2>7. \A i \in 1..Len(new) : /\ new[i].idx >= 1 /\ new[i].count >= 1
                               /\ new[i].idx + new[i].count <= n + 2
    <3> SUFFICES ASSUME NEW i \in 1..Len(lst)
                 PROVE  /\ new[i].idx >= 1 /\ new[i].count >= 1
                        /\ new[i].idx + new[i].count <= n + 2
      BY <2>4
    <3>1. /\ lst[i].idx >= 1 /\ lst[i].count >= 1
          /\ lst[i].idx + lst[i].count <= n + 1
          /\ lst[i].idx \in Nat /\ lst[i].count \in Nat
      BY <2>6 DEF Codes
    <3>2. CASE i < Len(lst)
      <4>1. new[i] = lst[i]
        BY <3>2, <2>1, <2>4
      <4> QED BY <4>1, <3>1
    <3>3. CASE i = Len(lst)
      <4>1. new[i] = last /\ lst[i] = Final(lst)
        BY <3>3, <2>1, <2>4
      <4> QED BY <4>1, <3>1, <2>2, <2>5
    <3> QED BY <3>2, <3>3, <2>1
  <2>8. \A i \in 1..Len(new) : \A k \in 1..(n + 1) : Covers(new[i], k) => new[i].value = g[k]
    <3> SUFFICES ASSUME NEW i \in 1..Len(new), NEW k \in 1..(n + 1), Covers(new[i], k)
                 PROVE  new[i].value = g[k]
      OBVIOUS
    <3>1. CASE i < Len(lst)
      <4>1. new[i] = lst[i] /\ i \in 1..Len(lst)
        BY <3>1, <2>1, <2>4
      <4>2. k \in 1..n
        BY <4>1, <2>6 DEF Codes, Covers
      <4> QED BY <4>1, <4>2 DEF Codes
    <3>2. CASE i = Len(lst) /\ k = n + 1
      BY <3>2, <2>2, <2>4
    <3>3. CASE i = Len(lst) /\ k <= n
      <4>1. Covers(lst[i], k)
        BY <3>3, <2>1, <2>2, <2>4, <2>5, <2>6 DEF Covers
      <4> QED BY <4>1, <3>3, <2>1, <2>2, <2>4, <1>1 DEF Codes
    <3> QED BY <3>1, <3>2, <3>3, <2>1, <2>4
  <2>9. \A k \in 1..(n + 1) : \E i \in 1..Len(new) : Covers(new[i], k)
    <3> SUFFICES ASSUME NEW k \in 1..(n + 1) PROVE \E i \in 1..Len(new) : Covers(new[i], k)
      OBVIOUS
    <3>1. CASE k = n + 1
      <4>1. Covers(new[Len(lst)], k)
        BY <3>1, <2>1, <2>2, <2>4, <2>5, <2>6 DEF Covers
      <4> QED BY <4>1, <2>1, <2>4
    <3>2. CASE k \in 1..n
      <4>1. PICK i \in 1..Len(lst) : Covers(lst[i], k)
        BY <3>2 DEF Codes
      <4>2. Covers(new[i], k)
        <5>1. CASE i < Len(lst)
          <6>1. new[i] = lst[i]
            BY <5>1, <2>1, <2>4
          <6> QED BY <6>1, <4>1
        <5>2. CASE i = Len(lst)
          <6>1. new[i] = last /\ lst[i] = Final(lst)
            BY <5>2, <2>1, <2>4
          <6> QED BY <6>1, <4>1, <2>2, <2>6 DEF Covers
        <5> QED BY <5>1, <5>2, <2>1
      <4> QED BY <4>2, <2>4
    <3> QED BY <3>1, <3>2
  <2>10. \A i \in 1..(Len(new) - 1) : new[i].value # new[i + 1].value
    BY <1>1, <2>1, <2>2, <2>4 DEF Codes
  <2>11. new # << >> /\ Final(new).idx + Final(new).count = n + 2
    BY <2>1, <2>2, <2>4, <2>5, <2>6 DEF Final
  <2> QED BY <2>4, <2>7, <2>8, <2>9, <2>10, <2>11 DEF Codes, new
<1>2. CASE ~(lst # << >> /\ Final(lst).value = v)
  <2> DEFINE last == [idx |-> n + 1, count |-> 1, value |-> v]
  <2>1. new = Append(lst, last)
    <3>1. CASE lst = << >>
      BY <3>1, <1>2 DEF RunAppend, Codes
    <3>2. CASE lst # << >>
      BY <3>2, <1>2 DEF RunAppend, Codes
    <3> QED BY <3>1, <3>2
  <2>2. last \in Run
    BY DEF Run
  <2>3. /\ new \in Seq(Run) /\ Len(new) = Len(lst) + 1
        /\ \A i \in 1..Len(lst) : new[i] = lst[i]
        /\ new[Len(lst) + 1] = last
    BY <2>1, <2>2
  <2>4. \A i \in 1..Len(lst) : lst[i].idx \in Nat /\ lst[i].count \in Nat
    BY RunFields
  <2>5. Len(lst) \in Nat /\ (lst # << >> => Len(lst) >= 1 /\ Final(lst) = lst[Len(lst)])
    BY DEF Final
  <2>6. last.idx = n + 1 /\ last.count = 1 /\ last.value = v
    OBVIOUS
  <2> HIDE DEF new, last
  <2>7. \A i \in 1..Len(new) : /\ new[i].idx >= 1 /\ new[i].count >= 1
                               /\ new[i].idx + new[i].count <= n + 2
    BY <2>3, <2>4, <2>5, <2>6 DEF Codes
  <2>8. \A i \in 1..Len(new) : \A k \in 1..(n + 1) : Covers(new[i], k) => new[i].value = g[k]
    <3> SUFFICES ASSUME NEW i \in 1..Len(new), NEW k \in 1..(n + 1), Covers(new[i], k)
                 PROVE  new[i].value = g[k]
      OBVIOUS
    <3>1. CASE i <= Len(lst)
      <4>1. i \in 1..Len(lst) /\ new[i] = lst[i]
        BY <3>1, <2>3, <2>5
      <4>2. k \in 1..n
        BY <4>1, <2>4 DEF Codes, Covers
      <4> QED BY <4>1, <4>2 DEF Codes
    <3>2. CASE i = Len(lst) + 1
      BY <3>2, <2>3, <2>6 DEF Covers
    <3> QED BY <3>1, <3>2, <2>3, <2>5
  <2>9. \A k \in 1..(n + 1) : \E i \in 1..Len(new) : Covers(new[i], k)
    <3> SUFFICES ASSUME NEW k \in 1..(n + 1) PROVE \E i \in 1..Len(new) : Covers(new[i], k)
      OBVIOUS
    <3>1. CASE k = n + 1
      <4>1. Covers(new[Len(lst) + 1], k)
        BY <3>1, <2>3, <2>6 DEF Covers
      <4> QED BY <4>1, <2>3, <2>5
    <3>2. CASE k \in 1..n
      <4>1. PICK i \in 1..Len(lst) : Covers(lst[i], k)
        BY <3>2 DEF Codes
      <4> QED BY <4>1, <2>3, <2>5
    <3> QED BY <3>1, <3>2
  <2>10. \A i \in 1..(Len(new) - 1) : new[i].value # new[i + 1].value
    <3> SUFFICES ASSUME NEW i \in 1..Len(lst) PROVE new[i].value # new[i + 1].value
      BY <2>3, <2>5
    <3>1. CASE i < Len(lst)
      BY SMTT(30), <3>1, <2>3, <2>5 DEF Codes
    <3>2. CASE i = Len(lst)
      BY <3>2, <1>2, <2>3, <2>5, <2>6
    <3> QED BY <3>1, <3>2, <2>5
  <2>11. new # << >> /\ Final(new).idx + Final(new).count = n + 2
    BY <2>3, <2>5, <2>6 DEF Final
  <2> QED BY <2>3, <2>7, <2>8, <2>9, <2>10, <2>11 DEF Codes, new
<1> QED BY <1>1, <1>2
-----------------------------------------------------------------------------
OffsetsNow == [k \in 1..sampleNum |-> CtsOffset(samples[k]) - ctsBase]

(* What keeps RunsDecodeSamples.                                            *)
RunsInv ==
    /\ samples \in Seq(Sample) /\ ctsBase \in Int
    /\ sizeLst \in Seq(Run) /\ Codes(sizeLst, sampleNum, SampleSizes)
    /\ ctsLst \in Seq(Run) /\ Codes(ctsLst, sampleNum, OffsetsNow)

LEMMA SampleFields ==
    ASSUME NEW s \in Sample
    PROVE  /\ s.size \in Nat /\ s.dts \in Nat /\ s.cts \in Nat /\ s.newSd \in BOOLEAN
           /\ CtsOffset(s) \in Int /\ s.duration \in Nat
<1>1. /\ s.size \in Sizes /\ s.dts \in Nat /\ s.cts \in Nat /\ s.newSd \in BOOLEAN
  BY DEF Sample
<1>2. s.size \in Nat /\ s.duration \in Nat
  BY <1>1, TrackIntakeAssumption DEF Sample
<1>3. s.cts - s.dts \in Int
  BY <1>1
<1> QED BY <1>1, <1>2, <1>3 DEF CtsOffset

(* Samples arrive in decode order, and the first brings a description.      *)
LEMMA ArrivalsAreSamples ==
    ASSUME samples \in Seq(Sample), NEW s \in Arrivals
    PROVE  /\ s \in Sample
           /\ samples # << >> => s.dts >= Final(samples).dts
           /\ samples = << >> => s.newSd
           /\ CtsOffset(s) \in Nat
<1>1. PICK z \in Sizes, t \in Times, c \in CtsOffsets, u \in Durations, y \in SyncFlags,
           n \in Flags :
         s = [size |-> z, dts |-> t, cts |-> t + c, duration |-> u, sync |-> y, newSd |-> n]
  BY DEF Arrivals
<1>2. s.dts = t /\ s.newSd = n
  BY <1>1
<1>3. t \in Nat /\ (samples # << >> => t >= Final(samples).dts)
  <2>1. CASE samples = << >>
    BY <2>1, TrackIntakeAssumption DEF Times
  <2>2. CASE samples # << >>
    <3>1. Final(samples) \in Sample
      BY <2>2 DEF Final
    <3>2. Final(samples).dts \in Nat
      BY <3>1, SampleFields
    <3>3. PICK d \in DtsSteps : t = Final(samples).dts + d
      BY <2>2 DEF Times
    <3> QED BY <3>2, <3>3, TrackIntakeAssumption
  <2> QED BY <2>1, <2>2
<1>4. c \in Nat /\ n \in BOOLEAN /\ (samples = << >> => n)
  BY TrackIntakeAssumption DEF Flags
<1>5. s \in Sample
  BY <1>1, <1>3, <1>4 DEF Sample
<1>6. CtsOffset(s) \in Nat
  <2>1. CtsOffset(s) = (t + c) - t
    BY <1>1 DEF CtsOffset
  <2> QED BY <1>3, <1>4, <2>1
<1> QED BY <1>2, <1>3, <1>4, <1>5, <1>6

(* What an accepted sample does to samples, and to what is asked of them.   *)
LEMMA SamplesGrow ==
    ASSUME samples \in Seq(Sample), NEW s \in Sample, samples' = Append(samples, s)
    PROVE  /\ samples' \in Seq(Sample) /\ sampleNum \in Nat /\ sampleNum' = sampleNum + 1
           /\ samples'[sampleNum + 1] = s
           /\ \A k \in 1..sampleNum : samples'[k] = samples[k]
BY DEF sampleNum

LEMMA InputKeepsRuns ==
    ASSUME RunsInv, NEW s \in Sample, InputSample(s)
    PROVE  RunsInv'
<1>1. samples' = Append(samples, s) /\ samples \in Seq(Sample)
  BY DEF InputSample, RunsInv
<1>2. /\ samples' \in Seq(Sample) /\ sampleNum \in Nat /\ sampleNum' = sampleNum + 1
      /\ samples'[sampleNum + 1] = s
      /\ \A k \in 1..sampleNum : samples'[k] = samples[k]
  BY <1>1, SamplesGrow
<1>3. s.size \in Int /\ CtsOffset(s) \in Int
  BY SampleFields
<1>4. sizeLst' \in Seq(Run) /\ Codes(sizeLst', sampleNum', SampleSizes')
  <2>1. sizeLst \in Seq(Run) /\ Codes(sizeLst, sampleNum, SampleSizes) /\ sizeLst' = RunAppend(sizeLst, s.size)
    BY DEF RunsInv, InputSample
  <2>2. SampleSizes'[sampleNum + 1] = s.size /\ \A k \in 1..sampleNum : SampleSizes'[k] = SampleSizes[k]
    BY <1>2 DEF SampleSizes
  <2> HIDE DEF SampleSizes
  <2> QED BY <1>2, <1>3, <2>1, <2>2, RunAppendCodes
<1>5. ctsBase' \in Int
  BY <1>3 DEF InputSample, RunsInv
<1>6. ctsLst' \in Seq(Run) /\ Codes(ctsLst', sampleNum', OffsetsNow')
  <2>1. /\ ctsLst \in Seq(Run) /\ Codes(ctsLst, sampleNum, OffsetsNow)
        /\ ctsLst' = RunAppend(ctsLst, CtsOffset(s) - ctsBase')
    BY DEF RunsInv, InputSample
  <2>2. OffsetsNow'[sampleNum + 1] = CtsOffset(s) - ctsBase'
    BY <1>2 DEF OffsetsNow, CtsOffset
  <2>3. \A k \in 1..sampleNum : OffsetsNow'[k] = OffsetsNow[k]
    <3>1. CASE ctsLst = << >>
      <4>1. sampleNum = 0
        BY <3>1, <2>1 DEF Codes
      <4> QED BY <4>1
    <3>2. CASE ctsLst # << >>
      <4>1. ctsBase' = ctsBase
        BY <3>2 DEF InputSample
      <4> QED BY <4>1, <1>2 DEF OffsetsNow, CtsOffset
    <3> QED BY <3>1, <3>2
  <2>4. CtsOffset(s) - ctsBase' \in Int
    BY <1>3, <1>5
  <2> QED BY <1>2, <2>1, <2>2, <2>3, <2>4, RunAppendCodes
<1> QED BY <1>2, <1>4, <1>5, <1>6 DEF RunsInv

(* After any samples the lists code the sizes and the offsets of them all.  *)
THEOREM RunsInvariance == Spec => []RunsInv
<1>1. Init => RunsInv
  <2> SUFFICES ASSUME Init PROVE RunsInv
    OBVIOUS
  <2>1. samples = << >> /\ sizeLst = << >> /\ ctsLst = << >> /\ ctsBase = 0
    BY DEF Init
  <2>2. \A f : Codes(<< >>, 0, f)
    BY DEF Codes
  <2> QED BY <2>1, <2>2 DEF RunsInv, sampleNum
<1>2. RunsInv /\ [Next]_vars => RunsInv'
  <2> SUFFICES ASSUME RunsInv, [Next]_vars PROVE RunsInv'
    OBVIOUS
  <2>1. CASE UNCHANGED vars
    BY <2>1 DEF vars, RunsInv, SampleSizes, OffsetsNow, sampleNum
  <2>2. ASSUME NEW s \in Arrivals, DropEmpty(s) PROVE RunsInv'
    BY <2>1, <2>2 DEF DropEmpty
  <2>3. ASSUME NEW s \in Arrivals, InputSample(s) PROVE RunsInv'
    <3>1. s \in Sample
      BY ArrivalsAreSamples DEF RunsInv
    <3> QED BY <2>3, <3>1, InputKeepsRuns
  <2> QED BY <2>1, <2>2, <2>3 DEF Next
<1> QED BY <1>1, <1>2, PTL DEF Spec

(* The run-length lists say of every sample the size and the offset it came *)
(* with, and have a new run only where the value changes.                   *)
THEOREM RunsAreFaithful == Spec => []RunsDecodeSamples
<1>1. RunsInv => RunsDecodeSamples
  <2> SUFFICES ASSUME RunsInv PROVE RunsDecodeSamples
    OBVIOUS
  <2>1. sampleNum \in Nat
    BY DEF RunsInv, sampleNum
  <2>2. ASSUME NEW lst \in Seq(Run), NEW f, Codes(lst, sampleNum, f)
        PROVE  /\ \A i \in 1..Len(lst) : \A k \in lst[i].idx .. (lst[i].idx + lst[i].count - 1) :
                     k \in 1..sampleNum /\ lst[i].value = f[k]
               /\ \A k \in 1..sampleNum : \E i \in 1..Len(lst) :
                     k \in lst[i].idx .. (lst[i].idx + lst[i].count - 1)
               /\ \A i \in 1..(Len(lst) - 1) : lst[i].value # lst[i + 1].value
    <3>1. \A i \in 1..Len(lst) : lst[i].idx \in Nat /\ lst[i].count \in Nat
      BY RunFields
    <3>2. \A i \in 1..Len(lst) : \A k \in lst[i].idx .. (lst[i].idx + lst[i].count - 1) :
             k \in 1..sampleNum
      BY <2>1, <2>2, <3>1 DEF Codes
    <3> QED BY <2>2, <3>2 DEF Codes, Covers
  <2>3. \A k \in 1..sampleNum : SampleSizes[k] = samples[k].size
    BY DEF SampleSizes
  <2>4. \A k \in 1..sampleNum : OffsetsNow[k] = samples[k].cts - samples[k].dts - ctsBase
    BY DEF OffsetsNow, CtsOffset
  <2> QED BY <2>2, <2>3, <2>4 DEF RunsInv, RunsDecodeSamples, Decodes
<1> QED BY <1>1, RunsInvariance, PTL
-----------------------------------------------------------------------------
(* Chunks.  The last one ends at the last sample; the description counted   *)
(* last is the one in force; and no sample of the last chunk lies a span or *)
(* more before the time the next chunk is due.                              *)
Chunk == [idx : Nat, num : Nat, size : Nat, dts : Nat, offset : Nat, sdi : Nat]

ChunkTypes ==
    /\ samples \in Seq(Sample)
    /\ chunks \in Seq(Chunk) /\ stsdLst \in Seq(Nat)
    /\ chunkDtsTop \in Nat /\ spoolEnd \in Nat

InDecodeOrder ==
    \A j, k \in 1..sampleNum : j <= k => samples[j].dts <= samples[k].dts

ChunksInOrder ==
    /\ \A i \in 1..Len(chunks) : /\ chunks[i].idx >= 1 /\ chunks[i].num >= 1
                                 /\ chunks[i].idx + chunks[i].num <= sampleNum + 1
    /\ IF chunks = << >> THEN sampleNum = 0
       ELSE Final(chunks).idx + Final(chunks).num = sampleNum + 1

DescriptionsInOrder ==
    /\ \A n \in 1..Len(stsdLst) : stsdLst[n] < sampleNum
    /\ Len(stsdLst) = DescriptionOf(sampleNum)

SpanAhead ==
    SpanTime > 0 /\ chunks # << >> =>
        \A k \in SamplesOf(Final(chunks)) : chunkDtsTop <= samples[k].dts + SpanTime

ChunkInv ==
    /\ ChunkTypes /\ InDecodeOrder /\ ChunksInOrder /\ DescriptionsInOrder
    /\ OneDescriptionPerChunk /\ SpanAhead /\ ChunkSpanBounded /\ ChunkSizeBounded

LEMMA ChunkFields ==
    ASSUME NEW c \in Chunk
    PROVE  c.idx \in Nat /\ c.num \in Nat /\ c.size \in Nat /\ c.sdi \in Nat
BY DEF Chunk

(* The next multiple of the span lies after t and at most a span away.      *)
LEMMA NextSpan ==
    ASSUME NEW t \in Nat, NEW span \in Nat \ {0}
    PROVE  LET top == (t \div span + 1) * span
           IN  top \in Nat /\ t < top /\ top <= t + span
<1>1. (t \div span) * span <= t
  BY Z3
<1>2. t < (t \div span) * span + span
  BY Z3
<1>3. t \div span \in Nat
  OBVIOUS
<1> DEFINE q == t \div span
<1>4. q * span \in Nat /\ (q + 1) * span = q * span + span
  BY <1>3
<1> HIDE DEF q
<1>5. LET top == (q + 1) * span IN top \in Nat /\ t < top /\ top <= t + span
  <2>1. q * span <= t /\ t < q * span + span
    BY <1>1, <1>2 DEF q
  <2> DEFINE m == q * span
  <2>2. m \in Nat /\ m <= t /\ t < m + span /\ (q + 1) * span = m + span
    BY <1>4, <2>1
  <2> HIDE DEF m
  <2> QED BY <2>2
<1> QED BY <1>5 DEF q

LEMMA RescaleIsNat ==
    ASSUME NEW t \in Nat
    PROVE  Rescale(t, MovieScale, MediaScale) \in Nat
<1>1. MediaScale \in Nat \ {0} /\ MovieScale \in Nat
  BY TrackIntakeAssumption
<1>2. t * MovieScale \in Nat /\ MediaScale \div 2 \in Nat
  BY <1>1
<1> DEFINE a == t * MovieScale + MediaScale \div 2
<1>3. a \in Nat
  BY <1>2
<1> HIDE DEF a
<1>4. a \div MediaScale \in Nat
  BY <1>1, <1>3
<1> QED BY <1>4 DEF Rescale, a

(* Descriptions up to sample k, and with one sample more.                   *)
NewSds(f, k) == {j \in 1..k : f[j].newSd}

LEMMA EqualPrefixes ==
    ASSUME NEW n \in Nat, NEW f, NEW g, \A k \in 1..n : g[k] = f[k], NEW k \in 1..n
    PROVE  NewSds(g, k) = NewSds(f, k)
<1>1. \A j \in 1..k : g[j] = f[j]
  OBVIOUS
<1> QED BY <1>1 DEF NewSds

LEMMA LongerPrefix ==
    ASSUME NEW n \in Nat, NEW f, NEW g, \A k \in 1..n : g[k] = f[k]
    PROVE  NewSds(g, n + 1) = NewSds(f, n) \cup (IF g[n + 1].newSd THEN {n + 1} ELSE {})
<1>1. 1..(n + 1) = 1..n \cup {n + 1}
  OBVIOUS
<1> QED BY <1>1 DEF NewSds

LEMMA CountOfPrefix ==
    ASSUME NEW n \in Nat, NEW f
    PROVE  /\ IsFiniteSet(NewSds(f, n)) /\ Cardinality(NewSds(f, n)) \in Nat
           /\ (n + 1) \notin NewSds(f, n)
<1>1. NewSds(f, n) \subseteq 1..n
  BY DEF NewSds
<1>2. IsFiniteSet(NewSds(f, n))
  BY <1>1, FS_Interval, FS_Subset
<1>3. (n + 1) \notin 1..n
  OBVIOUS
<1> QED BY <1>1, <1>2, <1>3, FS_CardinalityType

LEMMA DescriptionsCounted ==
    ASSUME samples \in Seq(Sample), NEW s \in Sample, samples' = Append(samples, s)
    PROVE  /\ DescriptionOf(sampleNum) \in Nat
           /\ \A k \in 1..sampleNum : DescriptionOf(k)' = DescriptionOf(k)
           /\ DescriptionOf(sampleNum)' =
                 IF s.newSd THEN DescriptionOf(sampleNum) + 1 ELSE DescriptionOf(sampleNum)
           /\ \A k : k = sampleNum + 1 => DescriptionOf(k)' = DescriptionOf(sampleNum)'
<1>1. /\ sampleNum \in Nat /\ samples'[sampleNum + 1] = s /\ sampleNum' = sampleNum + 1
      /\ \A k \in 1..sampleNum : samples'[k] = samples[k]
  BY SamplesGrow
<1>2. /\ \A k : DescriptionOf(k) = Cardinality(NewSds(samples, k))
      /\ \A k : DescriptionOf(k)' = Cardinality(NewSds(samples', k))
  BY DEF DescriptionOf, NewSds
<1>3. \A k \in 1..sampleNum : NewSds(samples', k) = NewSds(samples, k)
  BY <1>1, EqualPrefixes
<1>4. NewSds(samples', sampleNum + 1) =
        NewSds(samples, sampleNum) \cup (IF s.newSd THEN {sampleNum + 1} ELSE {})
  <2>1. NewSds(samples', sampleNum + 1) =
          NewSds(samples, sampleNum)
            \cup (IF samples'[sampleNum + 1].newSd THEN {sampleNum + 1} ELSE {})
    BY <1>1, LongerPrefix
  <2> QED BY <1>1, <2>1
<1>5. /\ IsFiniteSet(NewSds(samples, sampleNum))
      /\ Cardinality(NewSds(samples, sampleNum)) \in Nat
      /\ (sampleNum + 1) \notin NewSds(samples, sampleNum)
  BY <1>1, CountOfPrefix
<1>6. Cardinality(NewSds(samples', sampleNum + 1)) =
        IF s.newSd THEN Cardinality(NewSds(samples, sampleNum)) + 1
        ELSE Cardinality(NewSds(samples, sampleNum))
  <2>1. CASE s.newSd
    BY <2>1, <1>4, <1>5, FS_AddElement
  <2>2. CASE ~s.newSd
    BY <2>2, <1>4
  <2> QED BY <2>1, <2>2
<1>7. DescriptionOf(sampleNum)' = Cardinality(NewSds(samples', sampleNum + 1))
  BY <1>1 DEF DescriptionOf, NewSds
<1>8. \A k : k = sampleNum + 1 => DescriptionOf(k)' = DescriptionOf(sampleNum)'
  BY <1>2, <1>7
<1> QED BY <1>2, <1>3, <1>5, <1>6, <1>7, <1>8
-----------------------------------------------------------------------------
(* chunks' has the chunks before as they were, and a last one that holds    *)
(* the new sample, besides those of the last one before or alone.           *)
LEMMA ExtendedChunks ==
    ASSUME ChunkInv, NEW s \in Sample, FitsLastChunk(s), ExtendChunk(s)
    PROVE  LET n == Len(chunks)  old == chunks[n]  new == chunks'[n] IN
           /\ n \in Nat /\ n >= 1 /\ Final(chunks) = old /\ old \in Chunk
           /\ chunks' \in Seq(Chunk) /\ Len(chunks') = n /\ Final(chunks') = new
           /\ \A i \in 1..(n - 1) : chunks'[i] = chunks[i]
           /\ new.idx = old.idx /\ new.num = old.num + 1
           /\ new.size = old.size + s.size /\ new.sdi = old.sdi /\ new.offset = old.offset
<1> DEFINE n == Len(chunks)
           old == chunks[n]
           grown == [old EXCEPT !.size = @ + s.size, !.num = @ + 1]
<1>1. n \in Nat /\ n >= 1 /\ Final(chunks) = old /\ old \in Chunk /\ chunks \in Seq(Chunk)
  BY DEF ChunkInv, ChunkTypes, FitsLastChunk, Final
<1>2. s.size \in Nat
  BY SampleFields
<1>3. /\ grown \in Chunk /\ grown.idx = old.idx /\ grown.num = old.num + 1
      /\ grown.size = old.size + s.size /\ grown.sdi = old.sdi /\ grown.offset = old.offset
  <2>1. ASSUME NEW c \in Chunk, NEW z \in Nat
        PROVE  LET g == [c EXCEPT !.size = @ + z, !.num = @ + 1]
               IN  /\ g \in Chunk /\ g.idx = c.idx /\ g.num = c.num + 1
                   /\ g.size = c.size + z /\ g.sdi = c.sdi /\ g.offset = c.offset
    <3> DEFINE h == [c EXCEPT !.size = c.size + z]
               g == [h EXCEPT !.num = h.num + 1]
    <3>1. /\ h \in Chunk /\ h.idx = c.idx /\ h.num = c.num
          /\ h.size = c.size + z /\ h.sdi = c.sdi /\ h.offset = c.offset
      BY DEF Chunk
    <3>2. [c EXCEPT !.size = @ + z, !.num = @ + 1] = g
      BY DEF Chunk
    <3> HIDE DEF h
    <3>3. /\ g \in Chunk /\ g.idx = h.idx /\ g.num = h.num + 1
          /\ g.size = h.size /\ g.sdi = h.sdi /\ g.offset = h.offset
      BY <3>1 DEF Chunk
    <3> HIDE DEF g
    <3> QED BY <3>1, <3>2, <3>3
  <2> HIDE DEF old
  <2> QED BY <1>1, <1>2, <2>1
<1>4. chunks' = [chunks EXCEPT ![n] = grown]
  BY <1>1 DEF ExtendChunk
<1> HIDE DEF grown
<1>5. /\ chunks' \in Seq(Chunk) /\ Len(chunks') = n /\ chunks'[n] = grown
      /\ \A i \in 1..(n - 1) : chunks'[i] = chunks[i]
  BY <1>1, <1>3, <1>4
<1> QED BY <1>1, <1>3, <1>5 DEF Final

LEMMA NewChunks ==
    ASSUME ChunkInv, NEW s \in Sample, NewChunk(s)
    PROVE  LET n == Len(chunks)  new == chunks'[n + 1] IN
           /\ n \in Nat /\ (chunks # << >> => n >= 1 /\ Final(chunks) = chunks[n])
           /\ stsdLst' \in Seq(Nat)
           /\ chunks' \in Seq(Chunk) /\ Len(chunks') = n + 1 /\ Final(chunks') = new
           /\ \A i \in 1..n : chunks'[i] = chunks[i]
           /\ new.idx = sampleNum + 1 /\ new.num = 1
           /\ new.size = s.size /\ new.sdi = Len(stsdLst') /\ new.offset = spoolEnd
<1> DEFINE n == Len(chunks)
           fresh == [idx    |-> IF chunks = << >> THEN 1 ELSE Final(chunks).idx + Final(chunks).num,
                     num    |-> 1,
                     size   |-> s.size,
                     dts    |-> Rescale(s.dts, MovieScale, MediaScale),
                     offset |-> spoolEnd,
                     sdi    |-> Len(stsdLst')]
<1>1. /\ chunks \in Seq(Chunk) /\ n \in Nat /\ spoolEnd \in Nat
      /\ (chunks # << >> => n >= 1 /\ Final(chunks) = chunks[n])
      /\ stsdLst \in Seq(Nat) /\ sampleNum \in Nat
  BY DEF ChunkInv, ChunkTypes, Final, sampleNum
<1>2. s.size \in Nat /\ Rescale(s.dts, MovieScale, MediaScale) \in Nat
  BY SampleFields, RescaleIsNat
<1>3. stsdLst' \in Seq(Nat) /\ Len(stsdLst') \in Nat
  <2>1. stsdLst' \in Seq(Nat)
    BY <1>1 DEF NewChunk
  <2> QED BY <2>1
<1>4. (IF chunks = << >> THEN 1 ELSE Final(chunks).idx + Final(chunks).num) = sampleNum + 1
  BY DEF ChunkInv, ChunksInOrder
<1>5. /\ fresh \in Chunk /\ fresh.idx = sampleNum + 1 /\ fresh.num = 1
      /\ fresh.size = s.size /\ fresh.sdi = Len(stsdLst') /\ fresh.offset = spoolEnd
  <2>1. ASSUME NEW a \in Nat, NEW b \in Nat, NEW c \in Nat, NEW d \in Nat, NEW e \in Nat
        PROVE  LET g == [idx |-> a, num |-> 1, size |-> b, dts |-> c, offset |-> d, sdi |-> e]
               IN  g \in Chunk /\ g.idx = a /\ g.num = 1 /\ g.size = b /\ g.sdi = e /\ g.offset = d
    BY DEF Chunk
  <2>2. sampleNum + 1 \in Nat
    BY <1>1
  <2> QED BY <1>1, <1>2, <1>3, <1>4, <2>1, <2>2, SMTT(40), ZenonT(40)
<1>6. chunks' = Append(chunks, fresh)
  BY DEF NewChunk
<1> HIDE DEF fresh
<1>7. /\ chunks' \in Seq(Chunk) /\ Len(chunks') = n + 1 /\ chunks'[n + 1] = fresh
      /\ \A i \in 1..n : chunks'[i] = chunks[i]
  BY <1>1, <1>5, <1>6
<1> QED BY <1>1, <1>3, <1>5, <1>7 DEF Final

(* The last sample is in the last chunk.                                    *)
LEMMA LastChunk ==
    ASSUME ChunkInv, chunks # << >>
    PROVE  /\ sampleNum \in Nat /\ sampleNum >= 1 /\ Final(samples) = samples[sampleNum]
           /\ Len(chunks) \in Nat /\ Len(chunks) >= 1 /\ Final(chunks) = chunks[Len(chunks)]
           /\ sampleNum \in SamplesOf(Final(chunks))
<1>1. Len(chunks) \in Nat /\ Len(chunks) >= 1 /\ Final(chunks) = chunks[Len(chunks)] /\ Final(chunks) \in Chunk
  BY DEF ChunkInv, ChunkTypes, Final
<1>2. sampleNum \in Nat /\ Final(samples) = samples[sampleNum]
  BY DEF ChunkInv, ChunkTypes, sampleNum, Final
<1>3. Final(chunks).idx \in Nat /\ Final(chunks).num \in Nat
  BY <1>1, ChunkFields
<1>4. /\ Final(chunks).idx >= 1 /\ Final(chunks).num >= 1
      /\ Final(chunks).idx + Final(chunks).num = sampleNum + 1
  BY <1>1 DEF ChunkInv, ChunksInOrder
<1>5. sampleNum >= 1 /\ sampleNum \in Final(chunks).idx .. (Final(chunks).idx + Final(chunks).num - 1)
  BY <1>2, <1>3, <1>4
<1> QED BY <1>1, <1>2, <1>5 DEF SamplesOf

LEMMA OrderKept ==
    ASSUME ChunkInv, NEW s \in Sample, samples' = Append(samples, s),
           samples # << >> => s.dts >= Final(samples).dts
    PROVE  InDecodeOrder'
<1>1. /\ samples \in Seq(Sample) /\ sampleNum \in Nat /\ sampleNum' = sampleNum + 1
      /\ samples'[sampleNum + 1] = s
      /\ \A k \in 1..sampleNum : samples'[k] = samples[k]
  BY SamplesGrow DEF ChunkInv, ChunkTypes
<1>2. \A k \in 1..sampleNum : samples[k].dts \in Nat
  <2>1. \A k \in 1..sampleNum : samples[k] \in Sample
    BY <1>1 DEF sampleNum
  <2> QED BY <2>1, SampleFields
<1>3. \A k \in 1..sampleNum : samples[k].dts <= s.dts /\ s.dts \in Nat
  <2> SUFFICES ASSUME NEW k \in 1..sampleNum PROVE samples[k].dts <= s.dts /\ s.dts \in Nat
    OBVIOUS
  <2>1. samples # << >> /\ Final(samples) = samples[sampleNum] /\ sampleNum \in 1..sampleNum
    BY <1>1 DEF sampleNum, Final
  <2>2. samples[k].dts <= samples[sampleNum].dts
    BY <1>1, <2>1 DEF ChunkInv, InDecodeOrder
  <2>3. s.dts \in Nat
    BY SampleFields
  <2> QED BY <1>2, <2>1, <2>2, <2>3
<1>4. s.dts \in Nat
  BY SampleFields
<1> SUFFICES ASSUME NEW j \in 1..(sampleNum + 1), NEW k \in 1..(sampleNum + 1), j <= k
             PROVE  samples'[j].dts <= samples'[k].dts
  BY <1>1 DEF InDecodeOrder
<1>5. CASE k \in 1..sampleNum
  <2>1. j \in 1..sampleNum
    BY <1>1, <1>5
  <2> QED BY <1>1, <1>5, <2>1 DEF ChunkInv, InDecodeOrder
<1>6. CASE k = sampleNum + 1 /\ j \in 1..sampleNum
  BY <1>1, <1>3, <1>6
<1>7. CASE k = sampleNum + 1 /\ j = sampleNum + 1
  <2>1. samples'[j] = s /\ samples'[k] = s
    BY <1>1, <1>7
  <2> QED BY <1>4, <2>1
<1>8. \/ k \in 1..sampleNum
      \/ k = sampleNum + 1 /\ j \in 1..sampleNum
      \/ k = sampleNum + 1 /\ j = sampleNum + 1
  <2>1. sampleNum \in Nat
    BY <1>1
  <2> QED BY <2>1
<1> QED BY <1>5, <1>6, <1>7, <1>8

(* The sample goes into the last chunk.                                     *)
LEMMA ExtendKeeps ==
    ASSUME ChunkInv, NEW s \in Sample, samples' = Append(samples, s),
           samples # << >> => s.dts >= Final(samples).dts,
           FitsLastChunk(s), ExtendChunk(s), spoolEnd' \in Nat
    PROVE  ChunkInv'
<1> DEFINE n == Len(chunks)
           old == chunks[n]
           new == chunks'[n]
<1>1. /\ samples' \in Seq(Sample) /\ sampleNum \in Nat /\ sampleNum' = sampleNum + 1
      /\ samples'[sampleNum + 1] = s
      /\ \A k \in 1..sampleNum : samples'[k] = samples[k]
  BY SamplesGrow DEF ChunkInv, ChunkTypes
<1>2. /\ n \in Nat /\ n >= 1 /\ Final(chunks) = old /\ old \in Chunk
      /\ chunks' \in Seq(Chunk) /\ Len(chunks') = n /\ Final(chunks') = new
      /\ \A i \in 1..(n - 1) : chunks'[i] = chunks[i]
      /\ new.idx = old.idx /\ new.num = old.num + 1
      /\ new.size = old.size + s.size /\ new.sdi = old.sdi
  BY ExtendedChunks
<1>3. /\ chunks # << >> /\ ~s.newSd /\ s.dts < chunkDtsTop /\ old.size + s.size <= MaxChunkSize
      /\ stsdLst' = stsdLst /\ chunkDtsTop' = chunkDtsTop
  BY <1>2 DEF FitsLastChunk, ExtendChunk
<1>4. /\ sampleNum >= 1 /\ Final(samples) = samples[sampleNum] /\ sampleNum \in SamplesOf(old)
  BY <1>2, <1>3, LastChunk
<1>5. /\ DescriptionOf(sampleNum) \in Nat
      /\ \A k \in 1..sampleNum : DescriptionOf(k)' = DescriptionOf(k)
      /\ DescriptionOf(sampleNum)' = DescriptionOf(sampleNum)
      /\ \A k : k = sampleNum + 1 => DescriptionOf(k)' = DescriptionOf(sampleNum)
  BY <1>3, DescriptionsCounted DEF ChunkInv, ChunkTypes
<1>6. \A i \in 1..n : chunks[i].idx \in Nat /\ chunks[i].num \in Nat
  BY ChunkFields DEF ChunkInv, ChunkTypes
<1>7. /\ \A i \in 1..n : /\ chunks[i].idx >= 1 /\ chunks[i].num >= 1
                         /\ chunks[i].idx + chunks[i].num <= sampleNum + 1
      /\ old.idx + old.num = sampleNum + 1
  BY <1>2, <1>3 DEF ChunkInv, ChunksInOrder
<1>8. ASSUME NEW i \in 1..n, NEW k \in SamplesOf(chunks'[i])
      PROVE  \/ i = n /\ k = sampleNum + 1
             \/ k \in SamplesOf(chunks[i]) /\ k \in 1..sampleNum
  <2>1. CASE i = n
    <3>1. k \in old.idx .. (old.idx + old.num)
      BY <1>2, <1>6, <1>8, <2>1 DEF SamplesOf
    <3>2. old.idx \in Nat /\ old.num \in Nat /\ old.idx >= 1
      BY <1>2, <1>6, <1>7
    <3>3. k = sampleNum + 1 \/ (k \in old.idx .. (old.idx + old.num - 1) /\ k \in 1..sampleNum)
      BY <1>1, <1>7, <3>1, <3>2
    <3> QED BY <2>1, <3>3 DEF SamplesOf
  <2>2. CASE i < n
    <3>1. chunks'[i] = chunks[i]
      BY <1>2, <2>2
    <3>2. k \in chunks[i].idx .. (chunks[i].idx + chunks[i].num - 1)
      BY <1>8, <3>1 DEF SamplesOf
    <3>3. k \in 1..sampleNum
      BY SMTT(30), <1>1, <1>6, <1>7, <3>2
    <3> QED BY <3>2, <3>3 DEF SamplesOf
  <2> QED BY <1>2, <2>1, <2>2
<1>9. /\ \A i \in 1..n : chunks'[i].sdi = chunks[i].sdi
      /\ \A i \in 1..n : i # n => chunks'[i] = chunks[i]
  BY <1>2
<1> HIDE DEF old, new, n
<1>10. ChunkTypes'
  BY <1>1, <1>2, <1>3 DEF ChunkInv, ChunkTypes
<1>11. InDecodeOrder'
  BY OrderKept
<1>12. ChunksInOrder'
  <2>1. ASSUME NEW i \in 1..n
        PROVE  /\ chunks'[i].idx >= 1 /\ chunks'[i].num >= 1
               /\ chunks'[i].idx + chunks'[i].num <= sampleNum + 2
    <3>1. CASE i = n
      BY <3>1, <1>1, <1>2, <1>6, <1>7 DEF new, old
    <3>2. CASE i # n
      BY SMTT(30), <3>2, <1>1, <1>6, <1>7, <1>9
    <3> QED BY <3>1, <3>2
  <2>2. chunks' # << >> /\ new.idx + new.num = sampleNum + 2
    <3>1. chunks' # << >>
      BY <1>2
    <3>2. old.idx \in Nat /\ old.num \in Nat
      BY <1>2, ChunkFields
    <3> QED BY <1>1, <1>2, <1>7, <3>1, <3>2
  <2> QED BY <1>1, <1>2, <2>1, <2>2 DEF ChunksInOrder
<1>13. DescriptionsInOrder'
  <2>1. \A m \in 1..Len(stsdLst) : stsdLst[m] \in Nat /\ stsdLst[m] < sampleNum
    BY DEF ChunkInv, ChunkTypes, DescriptionsInOrder
  <2>2. Len(stsdLst) = DescriptionOf(sampleNum)
    BY DEF ChunkInv, DescriptionsInOrder
  <2> QED BY <1>1, <1>3, <1>5, <2>1, <2>2 DEF DescriptionsInOrder
<1>14. OneDescriptionPerChunk'
  <2>1. ASSUME NEW i \in 1..n, NEW k \in SamplesOf(chunks'[i])
        PROVE  chunks'[i].sdi = DescriptionOf(k)'
    <3>1. CASE i = n /\ k = sampleNum + 1
      <4>1. chunks[n].sdi = DescriptionOf(sampleNum)
        BY <1>2, <1>4 DEF ChunkInv, OneDescriptionPerChunk, n, old
      <4> QED BY <3>1, <4>1, <1>5, <1>9
    <3>2. CASE k \in SamplesOf(chunks[i]) /\ k \in 1..sampleNum
      <4>1. chunks[i].sdi = DescriptionOf(k)
        BY <3>2 DEF ChunkInv, OneDescriptionPerChunk, n
      <4> QED BY <3>2, <4>1, <1>5, <1>9
    <3> QED BY <2>1, <3>1, <3>2, <1>8
  <2>2. ASSUME NEW m \in 1..Len(stsdLst)
        PROVE  samples'[stsdLst[m] + 1].newSd /\ DescriptionOf(stsdLst[m] + 1)' = m
    <3>1. stsdLst[m] + 1 \in 1..sampleNum
      BY <1>1 DEF ChunkInv, ChunkTypes, DescriptionsInOrder
    <3>2. samples[stsdLst[m] + 1].newSd /\ DescriptionOf(stsdLst[m] + 1) = m
      BY DEF ChunkInv, OneDescriptionPerChunk
    <3>3. DescriptionOf(stsdLst[m] + 1)' = DescriptionOf(stsdLst[m] + 1)
      BY <1>3, <1>5, <3>1
    <3> QED BY <1>1, <3>1, <3>2, <3>3
  <2>3. \A i \in 1..Len(chunks') : \A k \in SamplesOf(chunks'[i]) : chunks'[i].sdi = DescriptionOf(k)'
    BY <1>2, <2>1
  <2>4. \A m \in 1..Len(stsdLst') : /\ samples'[stsdLst'[m] + 1].newSd
                                    /\ DescriptionOf(stsdLst[m] + 1)' = m
    BY <1>3, <2>2
  <2> QED BY <2>3, <2>4 DEF OneDescriptionPerChunk, SamplesOf
<1>15. \A k \in 1..sampleNum : samples[k].dts \in Nat /\ s.dts \in Nat
  <2>1. \A k \in 1..sampleNum : samples[k] \in Sample
    BY DEF ChunkInv, ChunkTypes, sampleNum
  <2> QED BY <2>1, SampleFields
<1>16. samples[sampleNum].dts <= s.dts
  <2>1. samples # << >>
    BY <1>4 DEF sampleNum
  <2> QED BY <1>4, <2>1
<1>17. chunkDtsTop \in Nat /\ SpanTime \in Nat
  BY TrackIntakeAssumption DEF ChunkInv, ChunkTypes
<1>18. SpanTime > 0 => \A k \in SamplesOf(old) : chunkDtsTop <= samples[k].dts + SpanTime
  BY <1>2, <1>3 DEF ChunkInv, SpanAhead
<1>19. SpanAhead'
  <2> SUFFICES ASSUME SpanTime > 0, NEW k \in SamplesOf(new)
               PROVE  chunkDtsTop <= samples'[k].dts + SpanTime
    BY <1>2, <1>3 DEF SpanAhead, SamplesOf
  <2>1. n \in 1..n /\ new = chunks'[n] /\ old = chunks[n]
    BY <1>2 DEF new, old
  <2>2. CASE k = sampleNum + 1
    <3>1. chunkDtsTop <= samples[sampleNum].dts + SpanTime /\ samples[sampleNum].dts \in Nat /\ s.dts \in Nat
      BY <1>1, <1>4, <1>15, <1>18
    <3>2. samples'[k] = s
      BY <1>1, <2>2
    <3> QED BY <1>16, <1>17, <3>1, <3>2
  <2>3. CASE k \in SamplesOf(old) /\ k \in 1..sampleNum
    BY <1>1, <1>18, <2>3
  <2> QED BY <1>8, <2>1, <2>2, <2>3
<1>20. ChunkSpanBounded'
  <2> SUFFICES ASSUME SpanTime > 0, NEW i \in 1..n, NEW j \in SamplesOf(chunks'[i]),
                      NEW k \in SamplesOf(chunks'[i])
               PROVE  samples'[k].dts - samples'[j].dts < SpanTime
    BY <1>2 DEF ChunkSpanBounded, SamplesOf
  <2>1. CASE j \in SamplesOf(chunks[i]) /\ j \in 1..sampleNum /\ k \in SamplesOf(chunks[i]) /\ k \in 1..sampleNum
    <3>1. samples[k].dts - samples[j].dts < SpanTime
      BY <2>1 DEF ChunkInv, ChunkSpanBounded, n
    <3> QED BY <1>1, <2>1, <3>1
  <2>2. CASE k = sampleNum + 1 /\ i = n /\ j \in SamplesOf(chunks[i]) /\ j \in 1..sampleNum
    <3>1. chunkDtsTop <= samples[j].dts + SpanTime
      BY <1>18, <2>2 DEF old
    <3>2. samples'[j] = samples[j] /\ samples'[k] = s
      BY <1>1, <2>2
    <3>3. s.dts \in Nat /\ samples[j].dts \in Nat
      BY <1>15, <2>2
    <3> QED BY <1>3, <1>17, <3>1, <3>2, <3>3
  <2>3. CASE k = sampleNum + 1 /\ j = sampleNum + 1
    <3>1. samples'[j] = s /\ samples'[k] = s /\ s.dts \in Nat
      BY <1>1, <2>3, SampleFields
    <3> QED BY <1>17, <3>1
  <2>4. CASE j = sampleNum + 1 /\ k \in 1..sampleNum
    <3>1. samples'[k].dts <= samples'[j].dts
      <4>1. k \in 1..sampleNum' /\ j \in 1..sampleNum' /\ k <= j
        BY <1>1, <2>4
      <4> QED BY <1>11, <4>1 DEF InDecodeOrder
    <3>2. samples'[k].dts \in Nat /\ samples'[j].dts \in Nat
      BY <1>1, <1>15, <2>4
    <3>3. \A a, b, c \in Nat : a <= b /\ c > 0 => a - b < c
      OBVIOUS
    <3> QED BY <1>17, <3>1, <3>2, <3>3
  <2> QED BY <1>8, <2>1, <2>2, <2>3, <2>4
<1>21. ChunkSizeBounded'
  <2>1. ASSUME NEW i \in 1..n, chunks'[i].size > MaxChunkSize PROVE chunks'[i].num = 1
    <3>1. CASE i = n
      <4>1. chunks'[i].size = old.size + s.size
        BY <1>2, <3>1 DEF new
      <4>2. old.size \in Nat /\ s.size \in Nat /\ MaxChunkSize \in Nat
        BY <1>2, ChunkFields, SampleFields, TrackIntakeAssumption
      <4> QED BY <1>3, <2>1, <4>1, <4>2
    <3>2. CASE i # n
      BY <1>9, <2>1, <3>2 DEF ChunkInv, ChunkSizeBounded, n
    <3> QED BY <3>1, <3>2
  <2> QED BY <1>2, <2>1 DEF ChunkSizeBounded
<1> QED BY <1>10, <1>11, <1>12, <1>13, <1>14, <1>19, <1>20, <1>21 DEF ChunkInv

(* The sample starts a chunk.                                               *)
LEMMA NewChunkKeeps ==
    ASSUME ChunkInv, NEW s \in Sample, samples' = Append(samples, s),
           samples # << >> => s.dts >= Final(samples).dts,
           NewChunk(s), spoolEnd' \in Nat
    PROVE  ChunkInv'
<1> DEFINE n == Len(chunks)
           new == chunks'[n + 1]
<1>1. /\ samples' \in Seq(Sample) /\ sampleNum \in Nat /\ sampleNum' = sampleNum + 1
      /\ samples'[sampleNum + 1] = s
      /\ \A k \in 1..sampleNum : samples'[k] = samples[k]
  BY SamplesGrow DEF ChunkInv, ChunkTypes
<1>2. /\ n \in Nat /\ (chunks # << >> => n >= 1 /\ Final(chunks) = chunks[n])
      /\ stsdLst' \in Seq(Nat)
      /\ chunks' \in Seq(Chunk) /\ Len(chunks') = n + 1 /\ Final(chunks') = new
      /\ \A i \in 1..n : chunks'[i] = chunks[i]
      /\ new.idx = sampleNum + 1 /\ new.num = 1
      /\ new.size = s.size /\ new.sdi = Len(stsdLst')
  BY NewChunks
<1>3. /\ stsdLst \in Seq(Nat) /\ chunkDtsTop \in Nat /\ SpanTime \in Nat
      /\ s.newSd \in BOOLEAN /\ s.dts \in Nat /\ s.size \in Nat
  BY TrackIntakeAssumption, SampleFields DEF ChunkInv, ChunkTypes
<1>4. /\ stsdLst' = IF s.newSd THEN Append(stsdLst, sampleNum) ELSE stsdLst
      /\ chunkDtsTop' = IF SpanTime = 0 THEN chunkDtsTop
                        ELSE IF chunks = << >> THEN (s.dts \div SpanTime + 1) * SpanTime
                        ELSE IF s.dts >= chunkDtsTop THEN chunkDtsTop + SpanTime
                        ELSE chunkDtsTop
  BY DEF NewChunk
<1>5. /\ DescriptionOf(sampleNum) \in Nat
      /\ \A k \in 1..sampleNum : DescriptionOf(k)' = DescriptionOf(k)
      /\ DescriptionOf(sampleNum)' =
            IF s.newSd THEN DescriptionOf(sampleNum) + 1 ELSE DescriptionOf(sampleNum)
      /\ \A k : k = sampleNum + 1 => DescriptionOf(k)' = DescriptionOf(sampleNum)'
  BY DescriptionsCounted DEF ChunkInv, ChunkTypes
<1>6. \A i \in 1..n : chunks[i].idx \in Nat /\ chunks[i].num \in Nat
  BY ChunkFields DEF ChunkInv, ChunkTypes
<1>7. \A i \in 1..n : /\ chunks[i].idx >= 1 /\ chunks[i].num >= 1
                      /\ chunks[i].idx + chunks[i].num <= sampleNum + 1
  BY DEF ChunkInv, ChunksInOrder
<1>8. ASSUME NEW i \in 1..n
      PROVE  /\ SamplesOf(chunks'[i]) = SamplesOf(chunks[i])
             /\ \A k \in SamplesOf(chunks[i]) : k \in 1..sampleNum
  <2>1. chunks'[i] = chunks[i]
    BY <1>2
  <2>2. \A k \in chunks[i].idx .. (chunks[i].idx + chunks[i].num - 1) : k \in 1..sampleNum
    <3>1. /\ chunks[i].idx \in Nat /\ chunks[i].num \in Nat /\ chunks[i].idx >= 1
          /\ chunks[i].idx + chunks[i].num <= sampleNum + 1
      BY <1>6, <1>7
    <3> QED BY <1>1, <3>1
  <2> QED BY <2>1, <2>2 DEF SamplesOf
<1>9. \A k \in SamplesOf(new) : k = sampleNum + 1
  <2>1. \A k \in new.idx .. (new.idx + new.num - 1) : k = sampleNum + 1
    BY <1>1, <1>2
  <2> QED BY <2>1 DEF SamplesOf
<1>10. \A i \in 1..Len(chunks') : i \in 1..n \/ (i = n + 1 /\ chunks'[i] = new)
  BY <1>2
<1> HIDE DEF new, n
<1>11. InDecodeOrder'
  BY OrderKept
<1>12. Len(stsdLst') = DescriptionOf(sampleNum)' /\ Len(stsdLst) \in Nat
  <2>1. Len(stsdLst) = DescriptionOf(sampleNum)
    BY DEF ChunkInv, DescriptionsInOrder
  <2>2. CASE s.newSd
    <3>1. Len(Append(stsdLst, sampleNum)) = Len(stsdLst) + 1
      BY <1>3
    <3> QED BY <1>4, <1>5, <2>1, <2>2, <3>1
  <2>3. CASE ~s.newSd
    BY <1>3, <1>4, <1>5, <2>1, <2>3
  <2> QED BY <1>3, <2>2, <2>3
<1>13. ASSUME NEW m \in 1..Len(stsdLst')
       PROVE  \/ m = Len(stsdLst) + 1 /\ s.newSd /\ stsdLst'[m] = sampleNum
              \/ m \in 1..Len(stsdLst) /\ stsdLst'[m] = stsdLst[m]
  <2>1. CASE s.newSd
    <3>1. /\ Len(stsdLst') = Len(stsdLst) + 1 /\ stsdLst'[Len(stsdLst) + 1] = sampleNum
          /\ \A i \in 1..Len(stsdLst) : stsdLst'[i] = stsdLst[i]
      BY <1>1, <1>3, <1>4, <2>1
    <3> QED BY <1>12, <2>1, <3>1
  <2>2. CASE ~s.newSd
    BY <1>4, <2>2
  <2> QED BY <1>3, <2>1, <2>2
<1>14. DescriptionsInOrder'
  <2>1. \A m \in 1..Len(stsdLst) : stsdLst[m] \in Nat /\ stsdLst[m] < sampleNum
    BY DEF ChunkInv, ChunkTypes, DescriptionsInOrder
  <2>2. \A m \in 1..Len(stsdLst') : stsdLst'[m] < sampleNum + 1
    BY <1>1, <1>13, <2>1
  <2> QED BY <1>1, <1>12, <2>2 DEF DescriptionsInOrder
<1>15. chunkDtsTop' \in Nat /\ (SpanTime > 0 => chunkDtsTop' <= s.dts + SpanTime)
  <2>1. CASE SpanTime = 0
    BY <1>3, <1>4, <2>1
  <2>2. CASE SpanTime # 0 /\ chunks = << >>
    <3>1. SpanTime \in Nat \ {0}
      BY <1>3, <2>2
    <3>2. chunkDtsTop' = (s.dts \div SpanTime + 1) * SpanTime
      BY <1>4, <2>2
    <3> QED BY <1>3, <3>1, <3>2, NextSpan
  <2>3. CASE SpanTime # 0 /\ chunks # << >> /\ s.dts >= chunkDtsTop
    BY <1>3, <1>4, <2>3
  <2>4. CASE SpanTime # 0 /\ chunks # << >> /\ ~(s.dts >= chunkDtsTop)
    <3>1. /\ sampleNum >= 1 /\ Final(samples) = samples[sampleNum]
          /\ sampleNum \in SamplesOf(Final(chunks))
      BY <2>4, LastChunk
    <3>2. samples # << >> /\ samples[sampleNum] \in Sample
      BY <1>1, <3>1 DEF ChunkInv, ChunkTypes, sampleNum
    <3>3. samples[sampleNum].dts \in Nat /\ samples[sampleNum].dts <= s.dts
      BY <3>1, <3>2, SampleFields
    <3>4. chunkDtsTop <= samples[sampleNum].dts + SpanTime
      BY <1>3, <2>4, <3>1 DEF ChunkInv, SpanAhead
    <3> QED BY <1>3, <1>4, <2>4, <3>3, <3>4
  <2> QED BY <2>1, <2>2, <2>3, <2>4
<1>16. ChunkTypes'
  BY <1>1, <1>2, <1>15 DEF ChunkTypes
<1>17. ChunksInOrder'
  <2>1. ASSUME NEW i \in 1..Len(chunks')
        PROVE  /\ chunks'[i].idx >= 1 /\ chunks'[i].num >= 1
               /\ chunks'[i].idx + chunks'[i].num <= sampleNum + 2
    <3>1. CASE i \in 1..n
      <4>1. chunks'[i] = chunks[i]
        BY <1>2, <3>1
      <4>2. /\ chunks[i].idx \in Nat /\ chunks[i].num \in Nat
            /\ chunks[i].idx >= 1 /\ chunks[i].num >= 1
            /\ chunks[i].idx + chunks[i].num <= sampleNum + 1
        BY <1>6, <1>7, <3>1
      <4> QED BY <1>1, <4>1, <4>2
    <3>2. CASE chunks'[i] = new
      BY <3>2, <1>1, <1>2
    <3> QED BY <1>10, <3>1, <3>2
  <2>2. chunks' # << >>
    BY <1>2
  <2> QED BY <1>1, <1>2, <2>1, <2>2 DEF ChunksInOrder
<1>18. OneDescriptionPerChunk'
  <2>1. ASSUME NEW i \in 1..Len(chunks'), NEW k \in SamplesOf(chunks'[i])
        PROVE  chunks'[i].sdi = DescriptionOf(k)'
    <3>1. CASE i \in 1..n
      <4>1. k \in SamplesOf(chunks[i]) /\ k \in 1..sampleNum
        BY <1>8, <2>1, <3>1
      <4>2. chunks[i].sdi = DescriptionOf(k)
        BY <3>1, <4>1 DEF ChunkInv, OneDescriptionPerChunk, n
      <4> QED BY <1>2, <1>5, <3>1, <4>1, <4>2
    <3>2. CASE chunks'[i] = new
      <4>1. k = sampleNum + 1
        BY <1>9, <2>1, <3>2
      <4>2. DescriptionOf(k)' = DescriptionOf(sampleNum)'
        BY <1>5, <4>1
      <4> QED BY <1>2, <1>12, <3>2, <4>2
    <3> QED BY <1>10, <3>1, <3>2
  <2>2. ASSUME NEW m \in 1..Len(stsdLst'), NEW k, k = stsdLst'[m] + 1
        PROVE  samples'[k].newSd /\ DescriptionOf(k)' = m
    <3>1. CASE m = Len(stsdLst) + 1 /\ s.newSd /\ stsdLst'[m] = sampleNum
      <4>1. k = sampleNum + 1
        BY <2>2, <3>1
      <4>2. Len(stsdLst) = DescriptionOf(sampleNum)
        BY DEF ChunkInv, DescriptionsInOrder
      <4>3. DescriptionOf(k)' = DescriptionOf(sampleNum)'
        BY <1>5, <4>1
      <4> QED BY <1>1, <1>5, <3>1, <4>1, <4>2, <4>3
    <3>2. CASE m \in 1..Len(stsdLst) /\ stsdLst'[m] = stsdLst[m]
      <4>1. k \in 1..sampleNum /\ k = stsdLst[m] + 1
        BY <1>1, <2>2, <3>2 DEF ChunkInv, ChunkTypes, DescriptionsInOrder
      <4>2. samples[k].newSd /\ DescriptionOf(k) = m
        BY <3>2, <4>1 DEF ChunkInv, OneDescriptionPerChunk
      <4> QED BY <1>1, <1>5, <4>1, <4>2
    <3> QED BY <1>13, <3>1, <3>2
  <2>3. \A m \in 1..Len(stsdLst') : /\ samples'[stsdLst'[m] + 1].newSd
                                    /\ DescriptionOf(stsdLst[m] + 1)' = m
    BY <2>2 DEF DescriptionOf
  <2> QED BY <2>1, <2>3 DEF OneDescriptionPerChunk, SamplesOf
<1>19. SpanAhead'
  <2> SUFFICES ASSUME SpanTime > 0, NEW k \in SamplesOf(new)
               PROVE  chunkDtsTop' <= samples'[k].dts + SpanTime
    BY <1>2 DEF SpanAhead, SamplesOf
  <2>1. samples'[k] = s
    BY <1>1, <1>9
  <2> QED BY <1>15, <2>1
<1>20. ChunkSpanBounded'
  <2> SUFFICES ASSUME SpanTime > 0, NEW i \in 1..Len(chunks'), NEW j \in SamplesOf(chunks'[i]),
                      NEW k \in SamplesOf(chunks'[i])
               PROVE  samples'[k].dts - samples'[j].dts < SpanTime
    BY DEF ChunkSpanBounded, SamplesOf
  <2>1. CASE i \in 1..n
    <3>1. j \in SamplesOf(chunks[i]) /\ j \in 1..sampleNum /\ k \in SamplesOf(chunks[i]) /\ k \in 1..sampleNum
      BY <1>8, <2>1
    <3>2. samples[k].dts - samples[j].dts < SpanTime
      BY <2>1, <3>1 DEF ChunkInv, ChunkSpanBounded, n
    <3> QED BY <1>1, <3>1, <3>2
  <2>2. CASE chunks'[i] = new
    <3>1. samples'[k] = s /\ samples'[j] = s
      BY <1>1, <1>9, <2>2
    <3> QED BY <1>3, <3>1
  <2> QED BY <1>10, <2>1, <2>2
<1>21. ChunkSizeBounded'
  <2>1. ASSUME NEW i \in 1..Len(chunks'), chunks'[i].size > MaxChunkSize PROVE chunks'[i].num = 1
    <3>1. CASE i \in 1..n
      BY <1>2, <2>1, <3>1 DEF ChunkInv, ChunkSizeBounded, n
    <3>2. CASE chunks'[i] = new
      BY <1>2, <3>2
    <3> QED BY <1>10, <3>1, <3>2
  <2> QED BY <2>1 DEF ChunkSizeBounded
<1> QED BY <1>11, <1>14, <1>16, <1>17, <1>18, <1>19, <1>20, <1>21 DEF ChunkInv

LEMMA InitChunkInv == Init => ChunkInv
<1> SUFFICES ASSUME Init PROVE ChunkInv
  OBVIOUS
<1>1. /\ samples = << >> /\ chunks = << >> /\ stsdLst = << >> /\ spoolEnd = 0
      /\ chunkDtsTop \in Nat
  BY TrackIntakeAssumption DEF Init
<1>2. DescriptionOf(0) = 0
  <2>1. {j \in 1..0 : samples[j].newSd} = {}
    OBVIOUS
  <2> QED BY <2>1, FS_EmptySet DEF DescriptionOf
<1>3. sampleNum = 0 /\ Len(chunks) = 0 /\ Len(stsdLst) = 0
  BY <1>1 DEF sampleNum
<1>4. ChunkTypes
  BY <1>1 DEF ChunkTypes
<1> QED BY <1>1, <1>2, <1>3, <1>4 DEF ChunkInv, InDecodeOrder, ChunksInOrder,
       DescriptionsInOrder, OneDescriptionPerChunk, SpanAhead, ChunkSpanBounded, ChunkSizeBounded

(* After any samples the last chunk ends at the last sample, and none of    *)
(* its samples lies a span or more before chunk_dts_top.                    *)
THEOREM ChunkInvariance == Spec => []ChunkInv
<1>1. ChunkInv /\ [Next]_vars => ChunkInv'
  <2> SUFFICES ASSUME ChunkInv, [Next]_vars PROVE ChunkInv'
    OBVIOUS
  <2>1. CASE UNCHANGED vars
    <3>1. ChunkTypes'
      BY <2>1 DEF vars, ChunkInv, ChunkTypes
    <3>2. InDecodeOrder'
      BY <2>1 DEF vars, ChunkInv, InDecodeOrder, sampleNum
    <3>3. ChunksInOrder'
      BY <2>1 DEF vars, ChunkInv, ChunksInOrder, sampleNum, Final
    <3>4. DescriptionsInOrder'
      BY <2>1 DEF vars, ChunkInv, DescriptionsInOrder, DescriptionOf, sampleNum
    <3>5. OneDescriptionPerChunk'
      BY <2>1 DEF vars, ChunkInv, OneDescriptionPerChunk, DescriptionOf, SamplesOf
    <3>6. SpanAhead' /\ ChunkSpanBounded' /\ ChunkSizeBounded'
      BY <2>1 DEF vars, ChunkInv, SpanAhead, ChunkSpanBounded, ChunkSizeBounded, SamplesOf, Final
    <3> QED BY <3>1, <3>2, <3>3, <3>4, <3>5, <3>6 DEF ChunkInv
  <2>2. ASSUME NEW s \in Arrivals, DropEmpty(s) PROVE ChunkInv'
    BY <2>1, <2>2 DEF DropEmpty
  <2>3. ASSUME NEW s \in Arrivals, InputSample(s) PROVE ChunkInv'
    <3>1. s \in Sample /\ (samples # << >> => s.dts >= Final(samples).dts)
      BY ArrivalsAreSamples DEF ChunkInv, ChunkTypes
    <3>2. samples' = Append(samples, s) /\ spoolEnd' = spoolEnd + s.size /\ ChunkUpdate(s)
      BY <2>3 DEF InputSample
    <3>3. spoolEnd' \in Nat
      BY <3>1, <3>2, SampleFields DEF ChunkInv, ChunkTypes
    <3>4. CASE FitsLastChunk(s) /\ ExtendChunk(s)
      BY <3>1, <3>2, <3>3, <3>4, ExtendKeeps
    <3>5. CASE ~FitsLastChunk(s) /\ NewChunk(s)
      BY <3>1, <3>2, <3>3, <3>5, NewChunkKeeps
    <3> QED BY <3>2, <3>4, <3>5 DEF ChunkUpdate
  <2> QED BY <2>1, <2>2, <2>3 DEF Next
<1> QED BY <1>1, InitChunkInv, PTL DEF Spec

(* A chunk holds samples of one description, that span less than the span   *)
(* time, and is above the size limit only with a single sample.             *)
THEOREM ChunksAreWithinLimits == Spec => []ChunkLimits
<1>1. ChunkInv => ChunkLimits
  BY DEF ChunkInv, ChunkLimits
<1> QED BY <1>1, ChunkInvariance, PTL
-----------------------------------------------------------------------------
(* The chunks and the spool: a chunk records the bytes of its samples, and  *)
(* the spool ends after all of them.                                        *)
ListTypes ==
    /\ sizeLst \in Seq([idx : Nat, count : Nat, value : Nat])
    /\ ctsLst \in Seq([idx : Nat, count : Nat, value : Int])
    /\ syncLst \in Seq([idx : Nat, dts : Nat])
    /\ ctsBase \in Nat /\ mediaDuration \in Int

SpoolInv ==
    /\ ChunkInv /\ ListTypes
    /\ ChunksPartitionSamples /\ ChunkBytesMatchSamples
    /\ spoolEnd = mdatSize

LEMMA RunAppendType ==
    ASSUME NEW V, NEW lst \in Seq([idx : Nat, count : Nat, value : V]), NEW v \in V
    PROVE  RunAppend(lst, v) \in Seq([idx : Nat, count : Nat, value : V])
<1> DEFINE R == [idx : Nat, count : Nat, value : V]
<1>0. lst # << >> => Len(lst) \in 1..Len(lst) /\ lst[Len(lst)] \in R
  <2>1. lst \in Seq(R)
    OBVIOUS
  <2> HIDE DEF R
  <2> QED BY <2>1
<1>1. CASE lst # << >> /\ Final(lst).value = v
  <2>1. [lst[Len(lst)] EXCEPT !.count = @ + 1] \in R
    BY <1>0, <1>1
  <2> QED BY <1>0, <1>1, <2>1 DEF RunAppend
<1>2. CASE lst = << >>
  <2>1. [idx |-> 1, count |-> 1, value |-> v] \in R
    OBVIOUS
  <2> QED BY <1>2, <2>1 DEF RunAppend
<1>3. CASE lst # << >> /\ Final(lst).value # v
  <2>1. Final(lst) \in R
    BY <1>0, <1>3 DEF Final
  <2>2. [idx |-> Final(lst).idx + Final(lst).count, count |-> 1, value |-> v] \in R
    BY <2>1
  <2> QED BY <1>3, <2>2 DEF RunAppend
<1> QED BY <1>1, <1>2, <1>3

(* The bytes of samples, with one more of them.                             *)
LEMMA BytesGrow ==
    ASSUME samples \in Seq(Sample), NEW s \in Sample, samples' = Append(samples, s)
    PROVE  /\ \A i, j \in Int : 1 <= i /\ j <= sampleNum => BytesOf(i, j)' = BytesOf(i, j)
           /\ \A i, k \in Int : 1 <= i /\ i <= k /\ k = sampleNum + 1 =>
                 BytesOf(i, k)' = BytesOf(i, sampleNum) + s.size
           /\ \A i, j \in Int : 1 <= i /\ j <= sampleNum => BytesOf(i, j) \in Nat
<1>1. /\ sampleNum \in Nat /\ sampleNum' = sampleNum + 1 /\ samples'[sampleNum + 1] = s
      /\ \A k \in 1..sampleNum : samples'[k] = samples[k]
  BY SamplesGrow
<1> DEFINE v == SampleSizes
           w == SampleSizes'
           n == sampleNum
<1>2. /\ \A k \in 1..n : w[k] = v[k] /\ v[k] \in Nat
      /\ w[n + 1] = s.size
  <2>1. \A k \in 1..n : samples[k].size \in Nat
    <3>1. \A k \in 1..n : samples[k] \in Sample
      BY DEF sampleNum
    <3> QED BY <3>1, SampleFields
  <2>2. \A k \in 1..n : v[k] = samples[k].size
    BY DEF SampleSizes
  <2>3. \A k \in 1..(n + 1) : w[k] = samples'[k].size
    BY <1>1 DEF SampleSizes
  <2>4. n + 1 \in 1..(n + 1) /\ \A k \in 1..n : k \in 1..(n + 1)
    BY <1>1
  <2> HIDE DEF v, w, n
  <2> QED BY <1>1, <2>1, <2>2, <2>3, <2>4 DEF n
<1>3. \A i, j : /\ BytesOf(i, j) = SumOver(v, i, j)
                /\ BytesOf(i, j)' = SumOver(w, i, j)
  BY DEF BytesOf
<1> HIDE DEF v, w
<1>5. ASSUME NEW i \in Int, NEW j \in Int, 1 <= i, j <= n
      PROVE  SumOver(w, i, j) = SumOver(v, i, j) /\ SumOver(v, i, j) \in Nat
  <2>1. \A k \in i..j : w[k] = v[k] /\ v[k] \in Nat
    BY <1>1, <1>2, <1>5
  <2> QED BY <2>1, SumSame, SumNat
<1>6. ASSUME NEW i \in Int, 1 <= i, i <= n + 1
      PROVE  SumOver(w, i, n + 1) = SumOver(v, i, n) + s.size
  <2>1. n + 1 \in Int /\ (n + 1) - 1 = n /\ n \in Int /\ n <= n
    BY <1>1
  <2>2. SumOver(w, i, n + 1) = SumOver(w, i, (n + 1) - 1) + w[n + 1]
    BY <1>6, <2>1, SumNext
  <2>3. SumOver(w, i, n) = SumOver(v, i, n)
    BY <1>5, <1>6, <2>1
  <2> QED BY <1>2, <2>1, <2>2, <2>3
<1>8. \A i, j \in Int : 1 <= i /\ j <= sampleNum => /\ BytesOf(i, j)' = BytesOf(i, j)
                                                    /\ BytesOf(i, j) \in Nat
  BY <1>3, <1>5
<1>9. ASSUME NEW i \in Int, NEW k \in Int, 1 <= i, i <= k, k = n + 1
      PROVE  BytesOf(i, k)' = BytesOf(i, n) + s.size
  BY <1>3, <1>6, <1>9
<1> QED BY <1>8, <1>9

(* A step appends one sample to the lists, and to one chunk.                *)
LEMMA InputKeepsSpool ==
    ASSUME SpoolInv, NEW s \in Sample, CtsOffset(s) \in Nat, InputSample(s), ChunkInv'
    PROVE  SpoolInv'
<1> DEFINE n == sampleNum
           m == Len(chunks)
<1>1. /\ samples \in Seq(Sample) /\ samples' = Append(samples, s) /\ ChunkInv
      /\ spoolEnd' = spoolEnd + s.size /\ mdatSize' = mdatSize + s.size
      /\ spoolEnd = mdatSize /\ mdatSize = BytesOf(1, sampleNum) /\ ChunkUpdate(s)
      /\ \A i \in 1..Len(chunks) :
           /\ chunks[i].size = BytesOf(chunks[i].idx, chunks[i].idx + chunks[i].num - 1)
           /\ chunks[i].offset = BytesOf(1, chunks[i].idx - 1)
      /\ chunks # << >> => chunks[1].idx = 1
      /\ \A i \in 1..(Len(chunks) - 1) : chunks[i + 1].idx = chunks[i].idx + chunks[i].num
  BY DEF SpoolInv, ChunkInv, ChunkTypes, InputSample, ChunkBytesMatchSamples, ChunksPartitionSamples
<1>2. /\ n \in Nat /\ sampleNum' = n + 1
      /\ \A i, j \in Int : 1 <= i /\ j <= n => BytesOf(i, j)' = BytesOf(i, j)
      /\ \A i, k \in Int : 1 <= i /\ i <= k /\ k = n + 1 =>
            BytesOf(i, k)' = BytesOf(i, n) + s.size
      /\ \A i, j \in Int : 1 <= i /\ j <= n => BytesOf(i, j) \in Nat
      /\ s.size \in Nat /\ samples' \in Seq(Sample)
  BY <1>1, SamplesGrow, BytesGrow, SampleFields
<1>0. n \in Nat /\ s.size \in Nat
  BY <1>2
<1>3. ListTypes'
  <2>1. sizeLst' \in Seq([idx : Nat, count : Nat, value : Nat])
    BY <1>2, RunAppendType DEF SpoolInv, ListTypes, InputSample
  <2>2. CtsOffset(s) \in Int /\ ctsBase' \in Nat
    BY DEF SpoolInv, ListTypes, InputSample
  <2>3. ctsLst' \in Seq([idx : Nat, count : Nat, value : Int])
    <3>1. CtsOffset(s) - ctsBase' \in Int
      BY <2>2
    <3> QED BY <3>1, RunAppendType DEF SpoolInv, ListTypes, InputSample
  <2>4. syncLst' \in Seq([idx : Nat, dts : Nat])
    <3>1. [idx |-> n, dts |-> s.dts] \in [idx : Nat, dts : Nat]
      BY <1>2, SampleFields
    <3>2. syncLst \in Seq([idx : Nat, dts : Nat])
      BY DEF SpoolInv, ListTypes
    <3>3. syncLst' = Append(syncLst, [idx |-> n, dts |-> s.dts]) \/ syncLst' = syncLst
      BY DEF InputSample
    <3> DEFINE R == [idx : Nat, dts : Nat]
               r == [idx |-> n, dts |-> s.dts]
    <3> HIDE DEF R, r
    <3>4. r \in R /\ syncLst \in Seq(R)
      BY <3>1, <3>2 DEF R, r
    <3>5. Append(syncLst, r) \in Seq(R)
      BY <3>4
    <3> QED BY <3>2, <3>3, <3>5 DEF R, r
  <2>5. mediaDuration' \in Int
    <3>1. samples'[1] \in Sample
      BY <1>2, <1>1 DEF sampleNum
    <3>2. samples'[1].dts \in Nat /\ s.dts \in Nat /\ s.duration \in Nat
      BY <3>1, SampleFields
    <3> QED BY <3>2 DEF InputSample
  <2> QED BY <2>1, <2>2, <2>3, <2>4, <2>5 DEF ListTypes
<1>4. m \in Nat /\ \A i \in 1..m : chunks[i].idx \in Nat /\ chunks[i].num \in Nat /\ chunks[i].size \in Nat
  <2>1. chunks \in Seq(Chunk)
    BY <1>1 DEF ChunkInv, ChunkTypes
  <2> QED BY <2>1, ChunkFields
<1>5. \A i \in 1..m : /\ chunks[i].idx >= 1 /\ chunks[i].num >= 1
                      /\ chunks[i].idx + chunks[i].num <= n + 1
  BY <1>1 DEF ChunkInv, ChunksInOrder
<1> DEFINE B(i, j) == SumOver(SampleSizes', i, j)
<1>6. /\ \A i, j \in Int : 1 <= i /\ j <= n => B(i, j) = BytesOf(i, j)
      /\ \A i, k \in Int : 1 <= i /\ i <= k /\ k = n + 1 => B(i, k) = BytesOf(i, n) + s.size
  BY <1>2 DEF BytesOf
<1>7. mdatSize' = B(1, n + 1) /\ mdatSize \in Nat /\ mdatSize = BytesOf(1, n)
  <2>1. 1 \in Int /\ n + 1 \in Int /\ n \in Int /\ 1 <= 1 /\ 1 <= n + 1
    BY <1>2
  <2>2. B(1, n + 1) = BytesOf(1, n) + s.size /\ BytesOf(1, n) \in Nat
    BY <1>2, <1>6, <2>1
  <2> QED BY <1>1, <2>2
<1>8. ASSUME NEW c, c \in Chunk, c.idx >= 1, c.idx + c.num <= n + 1
      PROVE  /\ c.size = BytesOf(c.idx, c.idx + c.num - 1) => c.size = B(c.idx, c.idx + c.num - 1)
             /\ c.offset = BytesOf(1, c.idx - 1) /\ c.num >= 1 => c.offset = B(1, c.idx - 1)
  <2>1. c.idx \in Nat /\ c.num \in Nat
    BY <1>8, ChunkFields
  <2>2. c.idx \in Int /\ c.idx + c.num - 1 \in Int /\ c.idx + c.num - 1 <= n
        /\ c.idx - 1 \in Int /\ (c.num >= 1 => c.idx - 1 <= n) /\ 1 \in Int
    BY <1>0, <1>8, <2>1
  <2> QED BY <1>6, <1>8, <2>2
<1>9. \A i \in 1..m : /\ chunks[i] \in Chunk
                      /\ chunks[i].size = B(chunks[i].idx, chunks[i].idx + chunks[i].num - 1)
                      /\ chunks[i].offset = B(1, chunks[i].idx - 1)
  <2>1. \A i \in 1..m : chunks[i] \in Chunk
    BY <1>1 DEF ChunkInv, ChunkTypes
  <2> QED BY <1>1, <1>5, <1>8, <2>1
<1>10. Len(chunks') \in Nat /\ ChunksInOrder' /\ chunks' # << >> /\
       \A i \in 1..Len(chunks') :
         /\ chunks'[i].size = B(chunks'[i].idx, chunks'[i].idx + chunks'[i].num - 1)
         /\ chunks'[i].offset = B(1, chunks'[i].idx - 1)
         /\ i # 1 => chunks'[i].idx = chunks'[i - 1].idx + chunks'[i - 1].num
         /\ i = 1 => chunks'[i].idx = 1
  <2>0. ChunksInOrder'
    BY DEF ChunkInv
  <2>1. CASE FitsLastChunk(s) /\ ExtendChunk(s)
    <3> DEFINE old == chunks[m]
               new == chunks'[m]
    <3>1. /\ m >= 1 /\ Final(chunks) = old /\ old \in Chunk
          /\ chunks' \in Seq(Chunk) /\ Len(chunks') = m
          /\ \A i \in 1..(m - 1) : chunks'[i] = chunks[i]
          /\ new.idx = old.idx /\ new.num = old.num + 1
          /\ new.size = old.size + s.size /\ new.offset = old.offset
      BY <1>1, <2>1, ExtendedChunks
    <3>2. /\ old.idx \in Nat /\ old.num \in Nat /\ old.idx >= 1 /\ old.num >= 1
          /\ old.size \in Nat /\ old.idx + old.num = n + 1 /\ m \in 1..m
          /\ old.size = BytesOf(old.idx, old.idx + old.num - 1)
          /\ old.offset = B(1, old.idx - 1)
      <4>1. old.idx + old.num = n + 1 /\ m \in 1..m
        BY <1>1, <1>4, <2>1, <3>1 DEF ChunkInv, ChunksInOrder, FitsLastChunk
      <4> QED BY <1>1, <1>4, <1>5, <1>9, <4>1
    <3> HIDE DEF B
    <3>3. new.size = B(new.idx, new.idx + new.num - 1)
      <4> HIDE DEF old, new
      <4>1. new.idx + new.num - 1 = n + 1 /\ old.idx + old.num - 1 = n
        <5>1. /\ new.idx = old.idx /\ new.num = old.num + 1 /\ old.idx + old.num = n + 1
              /\ old.idx \in Nat /\ old.num \in Nat
          BY <3>1, <3>2
        <5> QED BY <1>0, <5>1
      <4>3. old.idx \in Int /\ n + 1 \in Int /\ 1 <= old.idx /\ old.idx <= n + 1
        BY <1>0, <3>2
      <4>2. B(old.idx, n + 1) = BytesOf(old.idx, n) + s.size
        BY <1>6, <4>3
      <4> QED BY <3>1, <3>2, <4>1, <4>2
    <3>4. ASSUME NEW i \in 1..m, i # 1
          PROVE  chunks'[i].idx = chunks'[i - 1].idx + chunks'[i - 1].num
      <4>1. i - 1 \in 1..(m - 1) /\ chunks[(i - 1) + 1].idx = chunks[i - 1].idx + chunks[i - 1].num
        BY <1>1, <1>4, <3>4
      <4>2. chunks'[i].idx = chunks[i].idx
        BY <3>1, <1>4, SMTT(40), ZenonT(40)
      <4> QED BY <3>1, <4>1, <4>2
    <3>5. chunks'[1].idx = 1
      <4>1. chunks[1].idx = 1 /\ (1 \in 1..(m - 1) \/ 1 = m)
        BY <1>1, <1>4, <2>1, <3>1 DEF FitsLastChunk
      <4> QED BY <3>1, <4>1
    <3>6. ASSUME NEW i \in 1..m
          PROVE  /\ chunks'[i].size = B(chunks'[i].idx, chunks'[i].idx + chunks'[i].num - 1)
                 /\ chunks'[i].offset = B(1, chunks'[i].idx - 1)
      <4>1. CASE i = m
        BY <4>1, <3>1, <3>2, <3>3
      <4>2. CASE i \in 1..(m - 1)
        BY <4>2, <3>1, <1>9
      <4>3. i = m \/ i \in 1..(m - 1)
        BY <1>4
      <4> QED BY <4>1, <4>2, <4>3
    <3>7. chunks' # << >>
      BY <3>1
    <3> QED BY <1>4, <2>0, <3>1, <3>4, <3>5, <3>6, <3>7
  <2>2. CASE ~FitsLastChunk(s) /\ NewChunk(s)
    <3> DEFINE new == chunks'[m + 1]
    <3>1. /\ chunks # << >> => m >= 1 /\ Final(chunks) = chunks[m]
          /\ chunks' \in Seq(Chunk) /\ Len(chunks') = m + 1
          /\ \A i \in 1..m : chunks'[i] = chunks[i]
          /\ new.idx = n + 1 /\ new.num = 1
          /\ new.size = s.size /\ new.offset = spoolEnd
      BY <1>1, <2>2, NewChunks
    <3> HIDE DEF B
    <3>2. new.size = B(new.idx, new.idx + new.num - 1) /\ new.offset = B(1, new.idx - 1)
      <4>1. /\ new.idx + new.num - 1 = n + 1 /\ new.idx - 1 = n /\ n + 1 \in Int /\ n \in Int
            /\ 1 <= n + 1 /\ n + 1 <= n + 1 /\ n <= n /\ n < n + 1 /\ 1 \in Int
        BY <1>2, <3>1
      <4>2. B(n + 1, n + 1) = BytesOf(n + 1, n) + s.size /\ B(1, n) = BytesOf(1, n)
        BY <1>6, <4>1
      <4>3. BytesOf(n + 1, n) = 0
        BY <4>1, SumEmpty DEF BytesOf
      <4> QED BY <1>1, <1>2, <1>7, <3>1, <4>1, <4>2, <4>3
    <3>3. new.idx = IF m = 0 THEN 1 ELSE chunks[m].idx + chunks[m].num
      <4>1. chunks = << >> <=> m = 0
        BY <1>1 DEF ChunkInv, ChunkTypes
      <4>2. IF chunks = << >> THEN n = 0 ELSE Final(chunks).idx + Final(chunks).num = n + 1
        BY <1>1 DEF ChunkInv, ChunksInOrder
      <4> QED BY <3>1, <4>1, <4>2
    <3>4. ASSUME NEW i \in 1..(m + 1), i # 1
          PROVE  chunks'[i].idx = chunks'[i - 1].idx + chunks'[i - 1].num
      <4>1. CASE i = m + 1
        <5>1. i - 1 = m /\ m \in 1..m
          BY <1>4, <3>4, <4>1
        <5> QED BY <3>1, <3>3, <4>1, <5>1
      <4>2. CASE i # m + 1
        <5>1. i - 1 \in 1..(m - 1) /\ i - 1 \in 1..m /\ i \in 1..m /\ (i - 1) + 1 = i
          BY <1>4, <3>4, <4>2
        <5> QED BY <1>1, <3>1, <5>1
      <4> QED BY <4>1, <4>2
    <3>5. chunks'[1].idx = 1
      <4>1. CASE m = 0
        BY <3>1, <3>3, <4>1
      <4>2. CASE m # 0
        <5>1. chunks # << >> /\ 1 \in 1..m
          BY <1>1, <1>4, <4>2 DEF ChunkInv, ChunkTypes
        <5> QED BY <1>1, <3>1, <5>1
      <4> QED BY <4>1, <4>2
    <3>6. ASSUME NEW i \in 1..(m + 1)
          PROVE  /\ chunks'[i].size = B(chunks'[i].idx, chunks'[i].idx + chunks'[i].num - 1)
                 /\ chunks'[i].offset = B(1, chunks'[i].idx - 1)
      <4>1. CASE i = m + 1
        BY <3>2, <4>1
      <4>2. CASE i # m + 1
        <5>1. i \in 1..m
          BY <1>4, <4>2
        <5> QED BY <5>1, <3>1, <1>9
      <4> QED BY <4>1, <4>2
    <3>7. chunks' # << >> /\ Len(chunks') \in Nat
      BY <1>4, <3>1
    <3> QED BY <2>0, <3>1, <3>4, <3>5, <3>6, <3>7
  <2> QED BY <1>1, <2>1, <2>2 DEF ChunkUpdate
<1>11. ChunkBytesMatchSamples'
  <2>1. mdatSize' = SumOver(SampleSizes', 1, sampleNum')
    BY <1>2, <1>7
  <2> QED BY <1>10, <2>1 DEF ChunkBytesMatchSamples, BytesOf
<1>12. ChunksPartitionSamples'
  <2>1. ASSUME NEW i \in 1..(Len(chunks') - 1)
        PROVE  chunks'[i + 1].idx = chunks'[i].idx + chunks'[i].num
    <3>1. i + 1 \in 1..Len(chunks') /\ i + 1 # 1 /\ (i + 1) - 1 = i
      BY <1>10
    <3> HIDE DEF B
    <3> QED BY <1>10, <3>1
  <2>2. chunks'[1].idx = 1
    <3>1. Len(chunks') # 0
      BY <1>10 DEF ChunkInv, ChunkTypes
    <3>2. 1 \in 1..Len(chunks')
      BY <1>10, <3>1
    <3> HIDE DEF B
    <3> QED BY <1>10, <3>2
  <2> QED BY <1>10, <2>1, <2>2 DEF ChunksPartitionSamples, ChunksInOrder
<1>13. spoolEnd' = mdatSize'
  BY <1>1
<1> QED BY <1>3, <1>11, <1>12, <1>13 DEF SpoolInv

(* The chunks cut the spool up, each with its own bytes at its own place,   *)
(* and the lists are what they should be.                                   *)
THEOREM ChunksDescribe == Spec => []ChunksDescribeSpool
<1>1. Init => SpoolInv
  <2> SUFFICES ASSUME Init PROVE SpoolInv
    OBVIOUS
  <2>1. /\ samples = << >> /\ chunks = << >> /\ sizeLst = << >> /\ ctsLst = << >>
        /\ syncLst = << >> /\ ctsBase = 0 /\ mediaDuration = 0 /\ spoolEnd = 0 /\ mdatSize = 0
    BY DEF Init
  <2>2. sampleNum = 0 /\ Len(chunks) = 0
    BY <2>1 DEF sampleNum
  <2>3. BytesOf(1, sampleNum) = 0
    BY <2>2, SumEmpty DEF BytesOf
  <2>4. ListTypes
    BY <2>1 DEF ListTypes
  <2> QED BY <2>1, <2>2, <2>3, <2>4, InitChunkInv
          DEF SpoolInv, ChunksPartitionSamples, ChunkBytesMatchSamples
<1>2. SpoolInv /\ ChunkInv' /\ [Next]_vars => SpoolInv'
  <2> SUFFICES ASSUME SpoolInv, ChunkInv', [Next]_vars PROVE SpoolInv'
    OBVIOUS
  <2>1. CASE UNCHANGED vars
    <3>1. ListTypes' /\ spoolEnd' = mdatSize'
      BY <2>1 DEF vars, SpoolInv, ListTypes
    <3>2. ChunksPartitionSamples'
      BY <2>1 DEF vars, SpoolInv, ChunksPartitionSamples, sampleNum, Final
    <3>3. ChunkBytesMatchSamples'
      BY <2>1 DEF vars, SpoolInv, ChunkBytesMatchSamples, BytesOf, SampleSizes, sampleNum
    <3> QED BY <3>1, <3>2, <3>3 DEF SpoolInv
  <2>2. ASSUME NEW s \in Arrivals, DropEmpty(s) PROVE SpoolInv'
    BY <2>1, <2>2 DEF DropEmpty
  <2>3. ASSUME NEW s \in Arrivals, InputSample(s) PROVE SpoolInv'
    <3>1. s \in Sample /\ CtsOffset(s) \in Nat
      BY ArrivalsAreSamples DEF SpoolInv, ChunkInv, ChunkTypes
    <3> QED BY <2>3, <3>1, InputKeepsSpool
  <2> QED BY <2>1, <2>2, <2>3 DEF Next
<1>3. Spec => []SpoolInv
  BY <1>1, <1>2, ChunkInvariance, PTL DEF Spec
<1>4. SpoolInv => ChunksDescribeSpool
  <2> SUFFICES ASSUME SpoolInv PROVE TypeOK
    BY DEF SpoolInv, ChunksDescribeSpool
  <2>1. ChunkTypes /\ ListTypes /\ mdatSize = spoolEnd
    BY DEF SpoolInv, ChunkInv
  <2> QED BY <2>1 DEF TypeOK, ChunkTypes, ListTypes, Chunk
<1> QED BY <1>3, <1>4, PTL
=============================================================================
