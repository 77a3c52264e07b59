---------------------------- MODULE SampleTables ----------------------------
(***************************************************************************)
(* The sample tables of a progressive file: what write_stts_box,           *)
(* write_ctts_box, write_stss_box, write_stsc_box, write_stsz_box and      *)
(* write_stco_box of src/src/mp4_muxer.c put into 'stbl' for a track.      *)
(*                                                                         *)
(* A track is a record with the lists TrackIntake fills: the decode times  *)
(* dts (1..n), duration (media_duration), the runs cts and sizes, the      *)
(* numbers sync (from 0) of the sync samples, the chunks, and the flags    *)
(* the writers look at.  A table is the sequence of its entries; a box     *)
(* that is not written is the empty table.                                 *)
(***************************************************************************)
EXTENDS Integers, Sequences, Sums

sampleNum(t) == Len(t.dts)

Final(s) == s[Len(s)]

(* The samples each entry of a table stands for.                            *)
Counts(runs) == [k \in 1..Len(runs) |-> runs[k].count]

(* A track as mp4_muxer_input_sample leaves it (TrackIntake): its lists tell *)
(* of all samples, its chunks hold them one after the other.                *)
RunsOver(runs, n, Value) ==
    /\ runs \in Seq([count : Nat \ {0}, value : Value])
    /\ SumOver(Counts(runs), 1, Len(runs)) = n

IsIntaken(t) ==
    LET num   == sampleNum(t)
        final == Len(t.chunks)
    IN  /\ num > 0 /\ t.dts \in Seq(Nat) /\ t.duration \in Int
        /\ \A i \in 1..(num - 1) : t.dts[i] < t.dts[i + 1]
        /\ RunsOver(t.cts, num, Int) /\ RunsOver(t.sizes, num, Nat \ {0})
        /\ t.sync \in Seq(0..(num - 1)) /\ t.writeStss \in BOOLEAN
        /\ \A k \in 1..(Len(t.sync) - 1) : t.sync[k] < t.sync[k + 1]
        /\ t.chunks \in Seq([num : Nat \ {0}, sdi : Nat, offset : Nat, idx : Nat \ {0}])
        /\ final > 0 /\ t.chunks[1].idx = 1
        /\ \A c \in 1..(final - 1) : t.chunks[c + 1].idx = t.chunks[c].idx + t.chunks[c].num
        /\ t.chunks[final].idx + t.chunks[final].num = num + 1

(* The help flags of setup_muxer.                                           *)
AllRapSamples(t) == Len(t.sync) = sampleNum(t)
AllSameSize(t)   == Len(t.sizes) = 1
NoCtsOffset(t)   == Len(t.cts) = 1 /\ t.cts[1].value = 0
-----------------------------------------------------------------------------
(* The decode time deltas between samples, run-length coded.                *)
AddDelta(runs, d) ==
    IF runs # << >> /\ Final(runs).delta = d
    THEN [runs EXCEPT ![Len(runs)].count = @ + 1]
    ELSE Append(runs, [count |-> 1, delta |-> d])

DeltaRuns(t) ==
    LET f[i \in 0..(sampleNum(t) - 1)] == IF i = 0 THEN << >>
        ELSE AddDelta(f[i - 1], t.dts[i + 1] - t.dts[i])
    IN  IF sampleNum(t) = 0 THEN << >> ELSE f[sampleNum(t) - 1]

(* The last sample lasts to the end of the media; where that is before its  *)
(* decode time, or for the only sample of a track, the pending run is       *)
(* written with the last sample in it.                                      *)
Stts(t) ==
    LET runs == DeltaRuns(t)
        last == t.duration - Final(t.dts)
        pending == IF runs = << >> THEN [count |-> 0, delta |-> 0] ELSE Final(runs)
    IN  CASE sampleNum(t) = 1 -> << [count |-> 1, delta |-> 0] >>
          [] sampleNum(t) > 1 /\ last # pending.delta /\ last >= 0 ->
                Append(runs, [count |-> 1, delta |-> last])
          [] OTHER -> [runs EXCEPT ![Len(runs)].count = @ + 1]

Ctts(t) == IF NoCtsOffset(t) THEN << >> ELSE t.cts

(* stss is left out when every sample is a sync sample, and also when none  *)
(* is or the configuration does not ask for it.                             *)
Stss(t) ==
    IF t.sync = << >> \/ ~t.writeStss \/ AllRapSamples(t) THEN << >>
    ELSE [i \in 1..Len(t.sync) |-> t.sync[i] + 1]

(* A chunk gets an entry when it differs from the one before it, in its     *)
(* number of samples or its sample description.                             *)
Differs(t, i) ==
    \/ i = 1
    \/ t.chunks[i].num # t.chunks[i - 1].num
    \/ t.chunks[i].sdi # t.chunks[i - 1].sdi

Stsc(t) ==
    LET f[i \in 0..Len(t.chunks)] ==
          IF i = 0 THEN << >>
          ELSE IF Differs(t, i)
          THEN Append(f[i - 1], [first |-> i, num |-> t.chunks[i].num,
                                 sdi |-> t.chunks[i].sdi])
          ELSE f[i - 1]
    IN  f[Len(t.chunks)]

(* One size for all samples, or 0 and the size of each.                     *)
Stsz(t) ==
    LET f[k \in 0..Len(t.sizes)] == IF k = 0 THEN << >>
        ELSE f[k - 1] \o [j \in 1..t.sizes[k].count |-> t.sizes[k].value]
    IN  IF AllSameSize(t)
        THEN [fixed |-> t.sizes[1].value, table |-> << >>]
        ELSE [fixed |-> 0, table |-> f[Len(t.sizes)]]

Stco(t) == [i \in 1..Len(t.chunks) |-> t.chunks[i].offset]

(* write_stbl_box: the tables, in a file that is not fragmented.            *)
Stbl(t) ==
    [stts |-> Stts(t), ctts |-> Ctts(t), stss |-> Stss(t), stsc |-> Stsc(t),
     stsz |-> Stsz(t), stco |-> Stco(t)]
=============================================================================
