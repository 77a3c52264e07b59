---------------------------- MODULE StreamLookup ----------------------------
(***************************************************************************)
(* The queries of src/src/mp4_stream.c on the sample tables of a track.    *)
(* Each table has a cursor that stays where the last query left it: the    *)
(* entry it is at, the number (from 0) of that entry's first sample, and   *)
(* for stts the decode time of that sample.  A query goes on from there    *)
(* and starts from the beginning only when the sample lies before it.  The *)
(* stts cursor is shared by three queries, one of which moves it by time.  *)
(*                                                                         *)
(* The tables are those of SampleTables, whole, so that the guards against *)
(* reading past the bytes of a box never apply.  The demuxer that fills a  *)
(* stream is not in the repository; the first state of the cursors is what *)
(* the queries set when they start from the beginning.                     *)
(***************************************************************************)
EXTENDS SampleTables

(* The time each entry of a table spans.                                    *)
Spans(runs) == [k \in 1..Len(runs) |-> runs[k].count * runs[k].delta]

CONSTANTS
    Tracks,         \* the tracks whose tables are looked up
    DtsOffsets      \* dts_offset of the stream: the decode time that the
                    \* tables do not have

VARIABLES
    track,
    tables,         \* what the muxer has written for it
    dtsOffset,
    stts,           \* [entry, idx0, acc]
    ctts,           \* [entry, idx0]
    stsc,           \* [entry, idx0]
    stss,           \* [entry, idx0]
    answer          \* the last query, its argument and what it returned

file == <<track, tables, dtsOffset>>
vars == <<file, stts, ctts, stsc, stss, answer>>

Start     == [entry |-> 1, idx0 |-> 0]
SttsStart == [entry |-> 1, idx0 |-> 0, acc |-> 0]
StssStart == [entry |-> 1,
              idx0  |-> IF tables.stss = << >> THEN 0 ELSE tables.stss[1] - 1]

(* A number past the end stands for the last sample.                        *)
Clamp(i) == IF i >= sampleNum(track) THEN sampleNum(track) - 1 ELSE i
-----------------------------------------------------------------------------
(* Samples and time before entry e, counted from cursor c.                  *)
MutSkipTo(c, e) == [entry |-> e, idx0 |-> c.idx0 + (e - c.entry), acc |-> c.acc]

SkipTo(c, e) ==
    [entry |-> e,
     idx0  |-> c.idx0 + SumOver(Counts(tables.stts), c.entry, e - 1),
     acc   |-> c.acc + SumOver(Spans(tables.stts), c.entry, e - 1)]

(* The first entry from the cursor on that holds what is looked for, or the *)
(* one past the table.                                                      *)
FirstFrom(c, n, Found) ==
    CHOOSE e \in c.entry..(n + 1) :
        /\ e <= n => e \in Found
        /\ \A k \in c.entry..(e - 1) : k \notin Found

SttsEnd(c, e) == SkipTo(c, e + 1)

(* The move of the stts cursor to sample i: from the beginning if i lies    *)
(* before it.                                                               *)
MutSttsAtSample(i) ==
    SkipTo(stts, FirstFrom(stts, Len(tables.stts),
        {k \in stts.entry..Len(tables.stts) : i < SttsEnd(stts, k).idx0}))

SttsAtSample(i) ==
    LET c == IF i < stts.idx0 THEN SttsStart ELSE stts
        e == FirstFrom(c, Len(tables.stts),
               {k \in c.entry..Len(tables.stts) : i < SttsEnd(c, k).idx0})
    IN  SkipTo(c, e)

(* The same by time.                                                        *)
SttsAtTime(time) ==
    LET c == IF time < stts.acc THEN SttsStart ELSE stts
        e == FirstFrom(c, Len(tables.stts),
               {k \in c.entry..Len(tables.stts) : time < SttsEnd(c, k).acc})
    IN  SkipTo(c, e)

(* sample_cts_offset; without a table the loop has nothing to look at and 0 *)
(* is returned.                                                             *)
CttsSkip(c, e) ==
    [entry |-> e, idx0 |-> c.idx0 + SumOver(Counts(tables.ctts), c.entry, e - 1)]

CttsAtSample(i) ==
    LET c == IF i < ctts.idx0 THEN Start ELSE ctts
        e == FirstFrom(c, Len(tables.ctts),
               {k \in c.entry..Len(tables.ctts) : i < CttsSkip(c, k + 1).idx0})
    IN  CttsSkip(c, e)

(* stsc: the entry of sample i.  The last entry is open ended.              *)
SamplesOf(entries) ==
    [k \in 1..(Len(entries) - 1) |->
        (entries[k + 1].first - entries[k].first) * entries[k].num]

StscSkip(c, e) ==
    [entry |-> e, idx0 |-> c.idx0 + SumOver(SamplesOf(tables.stsc), c.entry, e - 1)]

StscAtSample(i) ==
    LET n == Len(tables.stsc)
        c == IF i < stsc.idx0 THEN Start ELSE stsc
        e == FirstFrom(c, n, {k \in c.entry..n :
                                k = n \/ i < StscSkip(c, k + 1).idx0})
    IN  StscSkip(c, e)
-----------------------------------------------------------------------------
Init ==
    /\ track \in Tracks
    /\ tables = Stbl(track)
    /\ dtsOffset \in DtsOffsets
    /\ stts = SttsStart /\ ctts = Start /\ stsc = Start
    /\ stss = StssStart
    /\ answer = [query |-> "none"]

Answer(q, arg, val) == answer' = [query |-> q, arg |-> arg, val |-> val]

(* stream_get_sample_idx.                                                   *)
GetSampleIdx(startTime) ==
    LET time == startTime - dtsOffset
        c    == SttsAtTime(time)
    IN  /\ UNCHANGED <<file, ctts, stsc, stss>>
        /\ IF startTime <= dtsOffset
           THEN /\ Answer("idx", startTime, 0)
                /\ UNCHANGED stts
           ELSE /\ stts' = c
                /\ Answer("idx", startTime,
                     IF c.entry > Len(tables.stts) THEN sampleNum(track) - 1
                     ELSE c.idx0 + (time - c.acc) \div tables.stts[c.entry].delta)

(* stream_get_sample_timing, which asks sample_cts_offset.                  *)
GetSampleTiming(idx) ==
    LET i == Clamp(idx)
        c == SttsAtSample(i)
        o == CttsAtSample(i)
    IN  /\ stts' = c
        /\ IF c.entry > Len(tables.stts)
           THEN /\ Answer("timing", idx, [dts |-> -1, ctsOffset |-> 0])
                /\ UNCHANGED ctts
           ELSE /\ ctts' = o
                /\ Answer("timing", idx,
                     [dts |-> c.acc + (i - c.idx0) * tables.stts[c.entry].delta
                                + dtsOffset,
                      ctsOffset |-> IF o.entry > Len(tables.ctts) THEN 0
                                    ELSE tables.ctts[o.entry].value])
        /\ UNCHANGED <<file, stsc, stss>>

(* stream_get_sample_duration.                                              *)
GetSampleDuration(idx) ==
    LET c == SttsAtSample(Clamp(idx))
    IN  /\ stts' = c
        /\ Answer("duration", idx, IF c.entry > Len(tables.stts) THEN -1
                                   ELSE tables.stts[c.entry].delta)
        /\ UNCHANGED <<file, ctts, stsc, stss>>

(* stream_get_sample_size, for stsz; the muxer writes no stz2.              *)
SizeOf(i) ==
    IF tables.stsz.fixed # 0 THEN tables.stsz.fixed
    ELSE tables.stsz.table[Clamp(i) + 1]

GetSampleSize(idx) ==
    /\ Answer("size", idx, SizeOf(idx))
    /\ UNCHANGED <<file, stts, ctts, stsc, stss>>

(* Bytes of samples i to j - 1, numbered from 0.                            *)
BytesOf(i, j) == SumOver([k \in i..(j - 1) |-> SizeOf(k)], i, j - 1)

(* stream_get_sample_offset: the chunk of the sample, and the bytes of the  *)
(* samples before it in the chunk.                                          *)
GetSampleOffset(idx) ==
    LET i     == Clamp(idx)
        c     == StscAtSample(i)
        e     == tables.stsc[c.entry]
        chunk == e.first + (i - c.idx0) \div e.num
        first == i - ((i - c.idx0) % e.num)
    IN  /\ stsc' = c
        /\ Answer("offset", idx,
             [offset |-> tables.stco[chunk] + BytesOf(first, i), sdi |-> e.sdi])
        /\ UNCHANGED <<file, stts, ctts, stss>>

(* stream_get_prev_sync_sample_idx; -1: there is none.                      *)
StssAtSample(i) ==
    LET n == Len(tables.stss)
        c == IF i < stss.idx0 THEN StssStart ELSE stss
        e == FirstFrom(c, n - 1, {k \in c.entry..(n - 1) : i < tables.stss[k + 1] - 1})
    IN  [entry |-> e, idx0 |-> tables.stss[e] - 1]

GetPrevSync(idx) ==
    LET i == Clamp(idx)
        c == StssAtSample(i)
    IN  /\ UNCHANGED <<file, stts, ctts, stsc>>
        /\ \/ /\ tables.stss = << >>
              /\ Answer("sync", idx, i)
              /\ UNCHANGED stss
           \/ /\ tables.stss # << >>
              /\ stss' = c
              /\ Answer("sync", idx, IF i < c.idx0 THEN -1 ELSE c.idx0)

Times == 0..(track.duration + dtsOffset + 1)

Next ==
    \/ \E time \in Times : GetSampleIdx(time)
    \/ \E idx \in 0..sampleNum(track) :
          \/ GetSampleTiming(idx)
          \/ GetSampleDuration(idx)
          \/ GetSampleSize(idx)
          \/ GetSampleOffset(idx)
          \/ GetPrevSync(idx)

Spec == Init /\ [][Next]_vars
-----------------------------------------------------------------------------
Entries(n) == [entry : 1..(n + 1), idx0 : 0..sampleNum(track)]

TypeOK ==
    /\ track \in Tracks /\ dtsOffset \in DtsOffsets
    /\ tables = Stbl(track)
    /\ stts \in [entry : 1..(Len(tables.stts) + 1),
                 idx0 : 0..sampleNum(track), acc : Nat]
    /\ ctts \in Entries(Len(tables.ctts))
    /\ stsc \in Entries(Len(tables.stsc)) /\ stsc.entry <= Len(tables.stsc)
    /\ stss \in Entries(Len(tables.stss))

(* A cursor never drifts: however it came to an entry, by sample number or  *)
(* by time, forwards or from the beginning, it holds the number of samples  *)
(* (and the time) in the entries before it.                                 *)
CursorsAtEntries ==
    /\ TypeOK
    /\ stts.idx0 = SumOver(Counts(tables.stts), 1, stts.entry - 1)
    /\ stts.acc = SumOver(Spans(tables.stts), 1, stts.entry - 1)
    /\ ctts.idx0 = SumOver(Counts(tables.ctts), 1, ctts.entry - 1)
    /\ \E c \in 1..Len(track.chunks) :
         /\ tables.stsc[stsc.entry].first = c
         /\ stsc.idx0 = track.chunks[c].idx - 1
    /\ tables.stss # << >> => stss.idx0 = tables.stss[stss.entry] - 1

(* What a track says of its samples, without tables or cursors.             *)
RunValue(runs, i) ==
    LET upTo(k) == SumOver(Counts(runs), 1, k)
    IN  runs[CHOOSE k \in 1..Len(runs) : upTo(k - 1) <= i /\ i < upTo(k)].value

ChunkOfSample(i) ==
    CHOOSE c \in 1..Len(track.chunks) :
        LET k == track.chunks[c] IN k.idx <= i + 1 /\ i + 1 < k.idx + k.num

Latest(S, none) == IF S = {} THEN none ELSE CHOOSE s \in S : \A r \in S : r <= s

TrueTiming(i) ==
    [dts |-> track.dts[i + 1] - track.dts[1] + dtsOffset,
     ctsOffset |-> RunValue(track.cts, i)]

TrueOffset(i) ==
    LET c == track.chunks[ChunkOfSample(i)]
        sizes == [k \in 0..(sampleNum(track) - 1) |-> RunValue(track.sizes, k)]
    IN  [offset |-> c.offset + SumOver(sizes, c.idx - 1, i - 1), sdi |-> c.sdi]

TrueDuration(i) ==
    IF i + 1 < sampleNum(track) THEN track.dts[i + 2] - track.dts[i + 1]
    ELSE track.duration - track.dts[i + 1]

TrueIdx(time) ==
    LET at(i) == track.dts[i + 1] - track.dts[1] + dtsOffset
    IN  Latest({i \in 0..(sampleNum(track) - 1) : at(i) <= time}, 0)

TrueSync(i) ==
    IF ~track.writeStss \/ track.sync = << >> THEN i
    ELSE Latest({j \in {track.sync[k] : k \in 1..Len(track.sync)} : j <= i}, -1)

(* The file gives back what went into it: for any sequence of queries, each *)
(* answer is what the track's own lists say of the sample, its decode time, *)
(* composition offset, duration, size, place, description and sync sample.  *)
(* (The duration of the last sample only when it is positive and not the    *)
(* only one: see write_stts_box.)                                           *)
LookupsFindSamples ==
    answer.query = "none" \/
    LET i == Clamp(answer.arg)
    IN  CASE answer.query = "idx"      -> answer.val = TrueIdx(answer.arg)
          [] answer.query = "timing"   -> answer.val = TrueTiming(i)
          [] answer.query = "duration" ->
                \/ answer.val = TrueDuration(i)
                \/ i + 1 = sampleNum(track) /\ (i = 0 \/ TrueDuration(i) < 0)
          [] answer.query = "size"     -> answer.val = RunValue(track.sizes, i)
          [] answer.query = "offset"   -> answer.val = TrueOffset(i)
          [] answer.query = "sync"     -> answer.val = TrueSync(i)
=============================================================================
