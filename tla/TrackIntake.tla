---------------------------- MODULE TrackIntake ----------------------------
(***************************************************************************)
(* One track of the muxer while samples come in: mp4_muxer_input_sample of *)
(* src/src/mp4_muxer.c with the chunk_update it ends in and the list       *)
(* updates it makes.  A sample is appended to the spool (the track's tmp   *)
(* file), described in the track's lists, and put into a chunk: the last   *)
(* one while it is short enough in time and size, else a new one.          *)
(***************************************************************************)
EXTENDS Integers, Sequences, FiniteSets, Sums

CONSTANTS
    MaxSamples,     \* bound: samples accepted
    Sizes,          \* sizes of the samples offered, 0 included or not
    FirstDts,       \* decode times the first sample may have
    DtsSteps,       \* distances between successive decode times
    CtsOffsets,     \* cts - dts of the samples
    Durations,      \* durations of the samples
    SyncFlags,      \* whether samples carry SAMPLE_SYNC
    NewSdFlags,     \* whether samples after the first carry SAMPLE_NEW_SD
    SpanTime,       \* chunk_span_time in media time, 0: no interleaving
    MaxChunkSize,   \* max_chunk_size; NoLimit stands for (uint64_t)-1
    NoLimit,
    MovieScale,     \* mp4_ctrl->timescale
    MediaScale      \* media_timescale

ASSUME TrackIntakeAssumption ==
    /\ MaxSamples \in Nat
    /\ Sizes \subseteq Nat /\ Durations \subseteq Nat
    /\ FirstDts \subseteq Nat /\ DtsSteps \subseteq Nat /\ CtsOffsets \subseteq Nat
    /\ SyncFlags \subseteq BOOLEAN /\ NewSdFlags \subseteq BOOLEAN
    /\ SpanTime \in Nat
    /\ NoLimit \in Nat /\ MaxChunkSize \in 0..NoLimit
    /\ MovieScale \in Nat \ {0} /\ MediaScale \in Nat \ {0}

VARIABLES
    samples,        \* history: the samples accepted (dts_lst, pos_lst hold
                    \* their times and places one by one)
    sizeLst,        \* size_lst, run-length coded
    syncLst,        \* sync_lst: number (from 0) and dts of each sync sample
    ctsLst,         \* cts_offset_lst, run-length coded, less ctsBase
    ctsBase,        \* cts_offset_v1_base
    stsdLst,        \* stsd_lst: the sample at which each description starts
    chunks,         \* chunk_lst
    chunkDtsTop,    \* decode time at which the next chunk is due
    spoolEnd,       \* ftell of the tmp file
    mdatSize,
    mediaDuration

vars == <<samples, sizeLst, syncLst, ctsLst, ctsBase, stsdLst, chunks,
          chunkDtsTop, spoolEnd, mdatSize, mediaDuration>>

sampleNum == Len(samples)

Sample == [size : Sizes, dts : Nat, cts : Nat, duration : Durations,
           sync : SyncFlags, newSd : BOOLEAN]
-----------------------------------------------------------------------------
Final(s) == s[Len(s)]

(* rescale_u64, which rounds to nearest; below 2^64 / scale.                *)
Rescale(t, new, old) == (t * new + (old \div 2)) \div old

(* What cts_offset_lst is about.                                            *)
CtsOffset(s)    == s.cts - s.dts

(* count_value_lst_update: entries tell the number (from 1) of the first    *)
(* element of a run, its length and its value.                              *)
MutRunAppend(lst, v) ==
    IF lst # << >> /\ Final(lst).value = v
    THEN [lst EXCEPT ![Len(lst)].count = @ + 1]
    ELSE Append(lst, [idx   |-> IF lst = << >> THEN 1 ELSE Final(lst).idx + 1,
                      count |-> 1, value |-> v])

RunAppend(lst, v) ==
    IF lst # << >> /\ Final(lst).value = v
    THEN [lst EXCEPT ![Len(lst)].count = @ + 1]
    ELSE Append(lst, [idx   |-> IF lst = << >> THEN 1
                                ELSE Final(lst).idx + Final(lst).count,
                      count |-> 1, value |-> v])

(* chunk_update stays with the last chunk ...                               *)
MutFitsAnyTime(s) ==
    /\ chunks # << >> /\ ~s.newSd
    /\ Final(chunks).size + s.size <= MaxChunkSize

FitsLastChunk(s) ==
    /\ chunks # << >>
    /\ ~s.newSd
    /\ s.dts < chunkDtsTop
    /\ Final(chunks).size + s.size <= MaxChunkSize

MutExtendNotSized(s) ==
    /\ chunks' = [chunks EXCEPT ![Len(chunks)].num = @ + 1]
    /\ UNCHANGED <<stsdLst, chunkDtsTop>>

ExtendChunk(s) ==
    /\ chunks' = [chunks EXCEPT ![Len(chunks)].size = @ + s.size,
                                ![Len(chunks)].num  = @ + 1]
    /\ UNCHANGED <<stsdLst, chunkDtsTop>>

(* ... or starts a new one, whose offset is for now the place of its first  *)
(* sample in the spool.                                                     *)
NewChunk(s) ==
    /\ stsdLst' = IF s.newSd THEN Append(stsdLst, sampleNum) ELSE stsdLst
    /\ chunks' = Append(chunks,
         [idx    |-> IF chunks = << >> THEN 1
                     ELSE Final(chunks).idx + Final(chunks).num,
          num    |-> 1,
          size   |-> s.size,
          dts    |-> Rescale(s.dts, MovieScale, MediaScale),
          offset |-> spoolEnd,
          sdi    |-> Len(stsdLst')])
    /\ chunkDtsTop' =
         IF SpanTime = 0 THEN chunkDtsTop
         ELSE IF chunks = << >> THEN (s.dts \div SpanTime + 1) * SpanTime
         ELSE IF s.dts >= chunkDtsTop THEN chunkDtsTop + SpanTime
         ELSE chunkDtsTop

ChunkUpdate(s) ==
    \/ FitsLastChunk(s) /\ ExtendChunk(s)
    \/ ~FitsLastChunk(s) /\ NewChunk(s)
-----------------------------------------------------------------------------
Init ==
    /\ samples = << >>
    /\ sizeLst = << >> /\ syncLst = << >> /\ ctsLst = << >> /\ stsdLst = << >>
    /\ ctsBase = 0
    /\ chunks = << >>
    /\ chunkDtsTop = IF SpanTime = 0 THEN NoLimit ELSE 0
    /\ spoolEnd = 0 /\ mdatSize = 0 /\ mediaDuration = 0

(* mp4_muxer_input_sample drops a sample of size 0 ...                      *)
DropEmpty(s) ==
    /\ s.size = 0
    /\ UNCHANGED vars

(* ... and takes any other.                                                 *)
InputSample(s) ==
    /\ s.size > 0
    /\ samples' = Append(samples, s)
    /\ spoolEnd' = spoolEnd + s.size
    /\ sizeLst' = RunAppend(sizeLst, s.size)
    /\ mdatSize' = mdatSize + s.size
    /\ syncLst' = IF s.sync THEN Append(syncLst, [idx |-> sampleNum, dts |-> s.dts])
                  ELSE syncLst
    /\ ctsBase' = IF ctsLst = << >> THEN CtsOffset(s) ELSE ctsBase
    /\ ctsLst' = RunAppend(ctsLst, CtsOffset(s) - ctsBase')
    /\ mediaDuration' = s.dts + s.duration - samples'[1].dts
    /\ ChunkUpdate(s)

(* What a parser delivers: decode times do not go back, and the first       *)
(* sample brings the first sample description (chunk_update asserts it).    *)
Times == IF samples = << >> THEN FirstDts
         ELSE {Final(samples).dts + d : d \in DtsSteps}

Flags == IF samples = << >> THEN {TRUE} ELSE NewSdFlags

Arrivals ==
    {[size |-> z, dts |-> t, cts |-> t + c, duration |-> u, sync |-> y, newSd |-> n] :
        z \in Sizes, t \in Times, c \in CtsOffsets, u \in Durations,
        y \in SyncFlags, n \in Flags}

Next ==
    /\ sampleNum < MaxSamples
    /\ \E s \in Arrivals : DropEmpty(s) \/ InputSample(s)

Spec == Init /\ [][Next]_vars
-----------------------------------------------------------------------------
TypeOK ==
    /\ samples \in Seq(Sample)
    /\ sizeLst \in Seq([idx : Nat, count : Nat, value : Nat])
    /\ ctsLst \in Seq([idx : Nat, count : Nat, value : Int])
    /\ syncLst \in Seq([idx : Nat, dts : Nat])
    /\ stsdLst \in Seq(Nat)
    /\ ctsBase \in Nat
    /\ chunks \in Seq([idx : Nat, num : Nat, size : Nat, dts : Nat,
                       offset : Nat, sdi : Nat])
    /\ chunkDtsTop \in Nat
    /\ spoolEnd \in Nat /\ mdatSize \in Nat /\ mediaDuration \in Int

(* The samples of a chunk, numbered from 1.                                 *)
SamplesOf(c) == c.idx .. (c.idx + c.num - 1)

(* Bytes of samples i..j.                                                   *)
SampleSizes   == [k \in 1..sampleNum |-> samples[k].size]
BytesOf(i, j) == SumOver(SampleSizes, i, j)

(* The chunks cut the spool up: their samples are consecutive, non-empty    *)
(* groups, so that no sample belongs to two chunks or to none, and the size *)
(* and place recorded for a chunk are those of its samples in the spool,    *)
(* although all of it is kept incrementally, on two different paths.        *)
ChunksPartitionSamples ==
    /\ chunks # << >> => chunks[1].idx = 1
    /\ \A i \in 1..Len(chunks) : chunks[i].num >= 1
    /\ \A i \in 1..(Len(chunks) - 1) :
         chunks[i + 1].idx = chunks[i].idx + chunks[i].num
    /\ IF chunks = << >> THEN samples = << >>
       ELSE Final(chunks).idx + Final(chunks).num = sampleNum + 1

ChunkBytesMatchSamples ==
    /\ \A i \in 1..Len(chunks) : LET c == chunks[i] IN
         /\ c.size = BytesOf(c.idx, c.idx + c.num - 1)
         /\ c.offset = BytesOf(1, c.idx - 1)
    /\ mdatSize = BytesOf(1, sampleNum)

ChunksDescribeSpool == TypeOK /\ ChunksPartitionSamples /\ ChunkBytesMatchSamples

(* The run-length lists say of every sample exactly what came in with it,   *)
(* the cts offsets relative to the first one's, in runs as long as can be.  *)
Decodes(lst, Value(_)) ==
    /\ \A i \in 1..Len(lst) : \A k \in lst[i].idx .. (lst[i].idx + lst[i].count - 1) :
         k \in 1..sampleNum /\ lst[i].value = Value(k)
    /\ \A k \in 1..sampleNum : \E i \in 1..Len(lst) :
         k \in lst[i].idx .. (lst[i].idx + lst[i].count - 1)
    /\ \A i \in 1..(Len(lst) - 1) : lst[i].value # lst[i + 1].value

RunsDecodeSamples ==
    LET size(k) == samples[k].size
        cts(k)  == samples[k].cts - samples[k].dts - ctsBase
    IN  Decodes(sizeLst, size) /\ Decodes(ctsLst, cts)

(* All samples of a chunk use the chunk's sample description: 'stsc' has    *)
(* one description index per chunk, and the description of a sample is the  *)
(* last one that came in, with it or before it.                             *)
DescriptionOf(k) == Cardinality({j \in 1..k : samples[j].newSd})

OneDescriptionPerChunk ==
    /\ \A i \in 1..Len(chunks) : \A k \in SamplesOf(chunks[i]) :
          chunks[i].sdi = DescriptionOf(k)
    /\ \A n \in 1..Len(stsdLst) :
          /\ samples[stsdLst[n] + 1].newSd
          /\ DescriptionOf(stsdLst[n] + 1) = n

(* Interleaving: within a chunk decode times span less than the span time,  *)
(* also after a gap in the decode times longer than it; and a chunk is      *)
(* larger than the size limit only if one sample already is.                *)
ChunkSpanBounded ==
    SpanTime > 0 =>
        \A i \in 1..Len(chunks) : \A j, k \in SamplesOf(chunks[i]) :
            samples[k].dts - samples[j].dts < SpanTime

ChunkSizeBounded ==
    \A i \in 1..Len(chunks) : chunks[i].size > MaxChunkSize => chunks[i].num = 1

ChunkLimits == OneDescriptionPerChunk /\ ChunkSpanBounded /\ ChunkSizeBounded
=============================================================================
