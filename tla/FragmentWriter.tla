--------------------------- MODULE FragmentWriter ---------------------------
(***************************************************************************)
(* The fragments being written: what mp4_muxer_output_tracks of            *)
(* src/src/mp4_muxer.c does with the lists create_fragment_lst has made.   *)
(* In CCFF style get_moof_ccff schedules the tracks by decode time, in the *)
(* default style they take turns.  A fragment is planned by sample number  *)
(* and written by decode time: all samples before frag_dts that have not   *)
(* been written.  One step prepares fragments or writes one.               *)
(***************************************************************************)
EXTENDS Integers, Sequences, FiniteSetsExt, Functions, Sums

CONSTANTS
    Movies,         \* sequences of tracks that may come in
    Configs,        \* [ccff: style, byId: major brand other than "ccff",
                    \*  forceTfra, oneTfra: tfra options]
    Micro,          \* 1000000 in the code, which compares in microseconds
    NoDts,          \* (uint64_t)-1
    ShortRange,     \* 2^16, range of sidx_reference_count
    MoofSize        \* bytes of a 'moof'

Track == [dts : Seq(Nat), duration : Nat, scale : Nat \ {0}, sync : SUBSET Nat,
          sizes : Seq([count : Nat \ {0}, value : Nat]),
          plan : Seq([start : Nat, stop : Nat]), sds : Seq(Nat)]

(* size_lst is run-length coded.                                            *)
SamplesIn(sizes, k) == SumOver([j \in 1..Len(sizes) |-> sizes[j].count], 1, k)

(* A track as create_fragment_lst leaves it: fragments that cover it one    *)
(* after the other, each with a sample, each description starting one; its  *)
(* times are in the lower half of their range.                              *)
IsPlanned(t) ==
    LET num == Len(t.dts) IN
    /\ num > 0 /\ t.dts[1] = 0
    /\ \A i \in 1..(num - 1) : t.dts[i] < t.dts[i + 1]
    /\ t.dts[num] < t.duration /\ 2 * t.duration <= NoDts
    /\ t.sync \subseteq 0..(num - 1)
    /\ SamplesIn(t.sizes, Len(t.sizes)) = num
    /\ t.plan # << >> /\ t.plan[1].start = 0 /\ t.plan[Len(t.plan)].stop = num
    /\ \A f \in 1..Len(t.plan) : t.plan[f].start < t.plan[f].stop
    /\ \A f \in 2..Len(t.plan) : t.plan[f].start = t.plan[f - 1].stop
    /\ t.sds # << >> /\ t.sds[1] = 0
    /\ \A d \in 1..(Len(t.sds) - 1) : t.sds[d] < t.sds[d + 1]
    /\ \A d \in 1..Len(t.sds) : \E f \in 1..Len(t.plan) : t.plan[f].start = t.sds[d]

ASSUME FragmentWriterAssumption ==
    /\ \A m \in Movies : /\ m \in Seq(Track) /\ m # << >>
                        /\ \A i \in 1..Len(m) : IsPlanned(m[i])
    /\ Configs \subseteq [ccff : BOOLEAN, byId : BOOLEAN,
                          forceTfra : BOOLEAN, oneTfra : BOOLEAN]
    /\ Micro \in Nat \ {0} /\ NoDts \in Nat
    /\ ShortRange \in Nat \ {0} /\ MoofSize \in Nat \ {0}

VARIABLES
    movie, cfg,
    segNext,        \* per track: place in segment_lst, from 1
    written,        \* per track: cursor of dts_lst (and of the lists that
                    \* are consumed with it): samples written
    fragDts, fragDuration, fragSize,
    sdNext, sdIndex,    \* per track: cursor of stsd_lst, and tfhd's index
    tfra,           \* per track: tfra_entry_lst
    queue,          \* next_track_lst: tracks prepared and not written
    turn, rounds,   \* default style: the track whose turn it is, and
                    \* fragment_number
    subsegments,    \* of the 'sidx' box, which is for the first track
    mdatSizes,      \* per track: run of size_it and samples left of it
    pos,            \* position of the sink
    phase,
    out             \* history: the fragments written; the place of each in
                    \* it is its moof's sequence number

cursors == <<segNext, fragDts, fragDuration, fragSize>>
vars == <<movie, cfg, segNext, written, fragDts, fragDuration, fragSize, sdNext,
          sdIndex, tfra, queue, turn, rounds, subsegments, mdatSizes, pos, phase, out>>
-----------------------------------------------------------------------------
Tracks == DOMAIN movie
Num(t) == Len(movie[t].dts)
AllRap(t) == Cardinality(movie[t].sync) = Num(t)

(* get_dts_from_idx, for a sample number from 0.                            *)
DtsFromIdx(t, i) == IF i < Num(t) THEN movie[t].dts[i + 1] ELSE NoDts

(* rescale_u64 to microseconds.                                             *)
InMicros(t, d) == (d * Micro + movie[t].scale \div 2) \div movie[t].scale

(* After(t, k) samples lie in the first k runs of size_lst.                 *)
RunOf(t, k) == movie[t].sizes[k]
After(t, k) == SamplesIn(movie[t].sizes, k)
RunBytes(t) == [k \in 1..Len(movie[t].sizes) |-> RunOf(t, k).count * RunOf(t, k).value]

(* The size prepare_traf finds for samples first .. stop - 1: the rest of   *)
(* the run that first lies in, the runs up to the one stop - 1 lies in, and *)
(* back what of that one lies behind.                                       *)
MutSizeOf(t, first, stop) ==
    LET reaching(i) == Min({k \in 1..Len(movie[t].sizes) : After(t, k) > i})
        a == reaching(first)
        b == Max({a} \cup {k \in 1..Len(movie[t].sizes) : After(t, k - 1) < stop})
    IN  (After(t, a) - first) * RunOf(t, a).value + SumOver(RunBytes(t), a + 1, b)

Reaching(t, i) == Min({k \in 1..Len(movie[t].sizes) : After(t, k) >= i})

SizeOf(t, first, stop) ==
    LET a == Reaching(t, first)
        b == Max({a, Reaching(t, stop)})
    IN  (After(t, a) - first) * RunOf(t, a).value + SumOver(RunBytes(t), a + 1, b)
            - (After(t, b) - stop) * RunOf(t, b).value

Planned(t)     == movie[t].plan[segNext[t]]
HasFragment(t) == segNext[t] <= Len(movie[t].plan)
HasSamples(t)  == written[t] < Num(t)

(* prepare_traf: the last fragment ends with the track.                     *)
MutTrafEnd(t) == DtsFromIdx(t, Planned(t).stop - 1)
TrafEnd(t)    == IF segNext[t] = Len(movie[t].plan) THEN movie[t].duration
                 ELSE DtsFromIdx(t, Planned(t).stop)

(* get_moof_by_TrackIndex: it ends one distance of the first two samples    *)
(* after its last sample.                                                   *)
TurnEnd(t) == IF Planned(t).stop = Num(t)
              THEN (DtsFromIdx(t, Num(t) - 1) + DtsFromIdx(t, 1)) % (NoDts + 1)
              ELSE DtsFromIdx(t, Planned(t).stop)

Take(ts, end) ==
    /\ segNext' = [t \in Tracks |-> IF t \in ts THEN segNext[t] + 1 ELSE segNext[t]]
    /\ fragDts' = [t \in Tracks |-> IF t \in ts THEN end[t] ELSE fragDts[t]]
    /\ fragDuration' = [t \in Tracks |->
          IF t \in ts THEN end[t] - DtsFromIdx(t, Planned(t).start)
                      ELSE fragDuration[t]]
-----------------------------------------------------------------------------
RefCount(t) == Len(movie[t].plan) % ShortRange

(* Only the list of the first track is rewound; create_fragment_lst has     *)
(* stepped over all entries of the others.                                  *)
Init ==
    /\ movie \in Movies /\ cfg \in Configs
    /\ segNext = [t \in Tracks |-> 1]
    /\ written = [t \in Tracks |-> 0]
    /\ fragDts = [t \in Tracks |-> 0]
    /\ fragDuration = [t \in Tracks |-> 0]
    /\ fragSize = [t \in Tracks |-> 0]
    /\ sdNext = [t \in Tracks |-> IF t = 1 THEN 1 ELSE Len(movie[t].sds) + 1]
    /\ sdIndex = [t \in Tracks |-> 1]
    /\ tfra = [t \in Tracks |-> << >>]
    /\ queue = {} /\ turn = 1 /\ rounds = 0
    /\ subsegments = << >>
    /\ mdatSizes = [t \in Tracks |-> [run |-> 0, left |-> 0]]
    /\ pos = 0
    /\ phase = "start"
    /\ out = << >>

(* In the default style all tracks must have as many fragments as the first *)
(* one that has any.                                                        *)
Counted      == {t \in Tracks : RefCount(t) # 0}
RoundsNeeded == IF Counted = {} THEN 0 ELSE RefCount(Min(Counted))
CountsAgree  == \A t \in Tracks :
    (Counted # {} /\ t > Min(Counted)) => RefCount(t) = RoundsNeeded

Start ==
    /\ phase = "start"
    /\ IF cfg.ccff \/ CountsAgree
       THEN phase' = "fragments" /\ rounds' = IF cfg.ccff THEN 0 ELSE RoundsNeeded
       ELSE phase' = "not supported" /\ rounds' = rounds
    /\ UNCHANGED <<movie, cfg, cursors, written, sdNext, sdIndex, tfra, queue,
                   turn, subsegments, mdatSizes, pos, out>>

(* The first sample at or after frag_dts that has not been written.         *)
StopIdx(t) ==
    Min({i \in written[t]..(Num(t) - 1) : DtsFromIdx(t, i) >= fragDts'[t]} \cup {Num(t)})

(* One tfra entry for each sync sample, or, when all samples are, for each  *)
(* first sample of a fragment if so configured.                             *)
MutTfraEntries(t) ==
    LET syncs == {i \in movie[t].sync : written[t] <= i /\ i < StopIdx(t)}
    IN  IF AllRap(t)
        THEN IF cfg.forceTfra /\ syncs # {} THEN {Min(syncs)} ELSE {}
        ELSE {i + 1 : i \in syncs}

TfraEntries(t) ==
    LET syncs == {i \in movie[t].sync : written[t] <= i /\ i < StopIdx(t)}
    IN  IF AllRap(t)
        THEN IF cfg.forceTfra /\ syncs # {} THEN {Min(syncs)} ELSE {}
        ELSE syncs

InOrder(s) == [k \in 1..Cardinality(s) |->
                  CHOOSE i \in s : Cardinality({j \in s : j < i}) = k - 1]

(* The description that get_dts_new_sd finds at the opening sample.         *)
NewSd(t) == sdNext[t] <= Len(movie[t].sds) /\ movie[t].sds[sdNext[t]] = written[t]

SdIndexNow(t)    == sdIndex[t] + (IF NewSd(t) /\ written[t] > 0 THEN 1 ELSE 0)

(* write_moof_box for a track whose frag_dts has been set.                  *)
MoofBox(t) ==
    LET list == InOrder(TfraEntries(t)) IN
    /\ tfra' = [tfra EXCEPT ![t] = @ \o
          [k \in 1..Len(list) |-> [moof   |-> pos,
                                   time   |-> DtsFromIdx(t, list[k]),
                                   sample |-> list[k] - written[t] + 1]]]
    /\ sdNext' = [sdNext EXCEPT ![t] = IF NewSd(t) THEN @ + 1 ELSE @]
    /\ sdIndex' = [sdIndex EXCEPT ![t] = SdIndexNow(t)]
    /\ written' = [written EXCEPT ![t] = StopIdx(t)]

(* write_chunk: n samples, by a second cursor in size_lst.                  *)
ReadSizes(t, n) ==
    LET f[k \in 0..n] ==
          IF k = 0 THEN [run |-> mdatSizes[t].run, left |-> mdatSizes[t].left, bytes |-> 0]
          ELSE LET r == IF f[k - 1].left = 0 THEN f[k - 1].run + 1 ELSE f[k - 1].run
                   l == IF f[k - 1].left = 0 THEN RunOf(t, r).count ELSE f[k - 1].left
               IN  [run |-> r, left |-> l - 1, bytes |-> f[k - 1].bytes + RunOf(t, r).value]
    IN  f[n]

(* update_sidx_box does not write past the entries that were counted; the   *)
(* duration it writes is always that of the first track.                    *)
MutSubsegment(n, t) == [size |-> 8 + n, duration |-> fragDuration'[1]]
Subsegment(n, t)    == [size |-> MoofSize + 8 + n, duration |-> fragDuration'[1]]

(* write_mdat_box_frag, modify_base_data_offset and the entry in 'sidx'.    *)
MdatBox(t) ==
    LET read == ReadSizes(t, StopIdx(t) - written[t]) IN
    /\ out' = Append(out, [track |-> t, first |-> written[t], stop |-> StopIdx(t),
                           sdi |-> SdIndexNow(t), moof |-> pos,
                           data |-> pos + MoofSize + 8, bytes |-> read.bytes,
                           planned |-> fragSize'[t]])
    /\ mdatSizes' = [mdatSizes EXCEPT ![t] = [run |-> read.run, left |-> read.left]]
    /\ pos' = pos + MoofSize + 8 + read.bytes
    /\ subsegments' =
          IF (cfg.ccff \/ t = 1) /\ Len(subsegments) < RefCount(1)
          THEN Append(subsegments, Subsegment(read.bytes, t)) ELSE subsegments

(* An error in write_mdat_box_frag ends the output where it stands.         *)
MdatFails(t) ==
    /\ phase' = "failed"
    /\ pos' = pos + MoofSize + 8
    /\ UNCHANGED <<out, mdatSizes, subsegments>>
-----------------------------------------------------------------------------
(* get_moof_ccff with nothing queued: all tracks whose next fragment starts *)
(* at the earliest time of a track with samples left are prepared ...       *)
MutEarliest ==
    {t \in Tracks : HasSamples(t) /\
        \A u \in Tracks : HasSamples(u) => fragDts[t] <= fragDts[u]}

Earliest ==
    {t \in Tracks : \E u \in Tracks :
        /\ HasSamples(u)
        /\ \A v \in Tracks : HasSamples(v) =>
              InMicros(u, fragDts[u]) <= InMicros(v, fragDts[v])
        /\ InMicros(t, fragDts[t]) = InMicros(u, fragDts[u])}

Ready == {t \in Earliest : HasFragment(t)}

PrepareTracks ==
    /\ phase = "fragments" /\ cfg.ccff
    /\ queue = {} /\ Ready # {}
    /\ Take(Ready, [t \in Ready |-> TrafEnd(t)])
    /\ fragSize' = [t \in Tracks |->
          IF t \in Ready THEN SizeOf(t, Planned(t).start, Planned(t).stop)
                         ELSE fragSize[t]]
    /\ queue' = Ready
    /\ UNCHANGED <<movie, cfg, written, sdNext, sdIndex, tfra, turn, rounds,
                   subsegments, mdatSizes, pos, phase, out>>

(* ... and when some are queued, the one with the lowest number or, for the *)
(* brand "ccff", with the smallest 'mdat' is written.                       *)
Preferred(t) ==
    \A u \in queue :
        IF cfg.byId THEN t <= u
        ELSE fragSize[t] < fragSize[u] \/ (fragSize[t] = fragSize[u] /\ t <= u)

OutputQueued(t) ==
    /\ phase = "fragments" /\ cfg.ccff
    /\ t \in queue /\ Preferred(t)
    /\ UNCHANGED cursors
    /\ MoofBox(t)
    /\ \/ MdatBox(t) /\ phase' = phase
       \/ MdatFails(t)
    /\ queue' = queue \ {t}
    /\ UNCHANGED <<movie, cfg, turn, rounds>>

(* A turn of the default style's inner loop.                                *)
MutRoundsLeft == rounds
RoundsLeft    == IF turn = Len(movie) THEN rounds - 1 ELSE rounds

OutputTurn ==
    /\ phase = "fragments" /\ ~cfg.ccff
    /\ rounds > 0
    /\ IF HasFragment(turn)
       THEN /\ Take({turn}, [t \in {turn} |-> TurnEnd(t)]) /\ fragSize' = fragSize
            /\ MoofBox(turn)
            /\ \/ MdatBox(turn) /\ phase' = phase
               \/ MdatFails(turn)
       ELSE UNCHANGED <<cursors, written, sdNext, sdIndex, tfra, subsegments,
                        mdatSizes, pos, phase, out>>
    /\ turn' = IF turn = Len(movie) THEN 1 ELSE turn + 1
    /\ rounds' = RoundsLeft
    /\ UNCHANGED <<movie, cfg, queue>>

(* write_mfra_box, which first removes all but the first entry of each moof *)
(* if so configured.                                                        *)
FirstOfEachMoof(s) ==
    LET kept == InOrder({k \in 1..Len(s) : k = 1 \/ s[k].moof # s[k - 1].moof})
    IN  [i \in 1..Len(kept) |-> s[kept[i]]]

Finish ==
    /\ phase = "fragments"
    /\ IF cfg.ccff THEN queue = {} /\ Ready = {} ELSE rounds = 0
    /\ tfra' = IF cfg.oneTfra THEN [t \in Tracks |-> FirstOfEachMoof(tfra[t])] ELSE tfra
    /\ phase' = "done"
    /\ UNCHANGED <<movie, cfg, cursors, written, sdNext, sdIndex, queue, turn,
                   rounds, subsegments, mdatSizes, pos, out>>

Next ==
    \/ Start \/ PrepareTracks \/ OutputTurn \/ Finish
    \/ \E t \in Tracks : OutputQueued(t)

(* One thread that waits for nothing.                                       *)
Spec == Init /\ [][Next]_vars /\ WF_vars(Next)
-----------------------------------------------------------------------------
FragmentsOf(t) == {i \in 1..Len(out) : out[i].track = t}
Nth(t, i)      == Cardinality({j \in FragmentsOf(t) : j <= i})

TypeOK ==
    /\ \A t \in Tracks :
         /\ segNext[t] \in 1..(Len(movie[t].plan) + 1)
         /\ written[t] \in 0..Num(t)
         /\ fragDts[t] \in 0..NoDts /\ fragDuration[t] \in Nat /\ fragSize[t] \in Nat
         /\ sdNext[t] \in 1..(Len(movie[t].sds) + 1)
         /\ sdIndex[t] \in 1..Len(movie[t].sds)
         /\ mdatSizes[t].run \in 0..Len(movie[t].sizes) /\ mdatSizes[t].left \in Nat
    /\ queue \subseteq Tracks /\ turn \in Tracks /\ rounds \in 0..(ShortRange - 1)
    /\ pos \in Nat
    /\ phase \in {"start", "fragments", "not supported", "done", "failed"}

(* tfhd names the description of the fragment's samples, for the first      *)
(* track, whose stsd_lst has been rewound.                                  *)
DescriptionOf(o) == Cardinality({d \in DOMAIN movie[o.track].sds :
                                    movie[o.track].sds[d] <= o.first})

FirstTrackDescriptions ==
    \A i \in DOMAIN out : out[i].track = 1 => out[i].sdi = DescriptionOf(out[i])

(* Fragments are planned by sample number and written by decode time, all   *)
(* samples before frag_dts: they are the same.  The nth 'moof' of a track   *)
(* holds the samples of its nth planned fragment.                           *)
WrittenAsPlanned ==
    \A i \in 1..Len(out) :
        LET o == out[i]
            p == movie[o.track].plan[Nth(o.track, i)]
        IN  o.first = p.start /\ o.stop = p.stop

(* A finished file has all of them, although get_moof_ccff ends as soon as  *)
(* the earliest tracks have no fragment left.                               *)
AllWritten ==
    phase = "done" => \A t \in Tracks :
        Cardinality(FragmentsOf(t)) = Len(movie[t].plan) /\ written[t] = Num(t)

(* Both, and the fragments of the first track have their description.       *)
FragmentsAsPlanned == WrittenAsPlanned /\ AllWritten /\ TypeOK /\ FirstTrackDescriptions

(* The sizes that prepare_traf and write_chunk find for a fragment, each by *)
(* its own walk over the runs of size_lst, are those of its samples one by  *)
(* one, and each 'moof' starts where the 'mdat' before it ends.             *)
SampleSize(t)   == [i \in 0..(Num(t) - 1) |->
                       RunOf(t, Min({k \in 1..Len(movie[t].sizes) : After(t, k) > i})).value]
Bytes(t, i, j)  == SumOver(SampleSize(t), i, j - 1)

PayloadsFit ==
    \A i \in 1..Len(out) :
        LET o     == out[i]
            bytes == Bytes(o.track, o.first, o.stop)
        IN  /\ o.bytes = bytes
            /\ cfg.ccff => o.planned = bytes
            /\ phase # "failed" =>
                  o.data + bytes = IF i < Len(out) THEN out[i + 1].moof ELSE pos

(* Every entry of 'tfra' leads to a sync sample: it has the number given in *)
(* the 'moof' at the offset given, and the time given.  When not all are    *)
(* sync samples, each that was written has an entry, or, with               *)
(* ISOM_FRAGCFG_ONE_TFRA_ENTRY_PER_TRAF, each 'moof' that has one.          *)
TfraFindsSyncs ==
    (phase # "failed") => \A t \in Tracks :
        LET found(e) == {i \in FragmentsOf(t) : out[i].moof = e.moof}
            at(e, i) == out[i].first + e.sample - 1
            hit      == UNION {{at(e, i) : i \in found(e)} : e \in Range(tfra[t])}
            wanted   == {i \in movie[t].sync : i < written[t]}
        IN  /\ \A e \in Range(tfra[t]) : \E i \in found(e) :
                  /\ at(e, i) \in movie[t].sync \cap (out[i].first)..(out[i].stop - 1)
                  /\ e.time = DtsFromIdx(t, at(e, i))
            /\ ~AllRap(t) =>
                  IF cfg.oneTfra /\ phase = "done"
                  THEN \A i \in FragmentsOf(t) :
                          LET own == (out[i].first)..(out[i].stop - 1)
                          IN  hit \cap own = IF wanted \cap own = {} THEN {}
                                             ELSE {Min(wanted \cap own)}
                  ELSE hit = wanted /\ Len(tfra[t]) = Cardinality(wanted)

(* In CCFF style the fragments of a file are in the order of their decode   *)
(* times, whatever the time scales of the tracks.                           *)
StartOf(o) == InMicros(o.track, DtsFromIdx(o.track, o.first))

InDecodeOrder ==
    cfg.ccff => \A i \in 2..Len(out) : StartOf(out[i - 1]) <= StartOf(out[i])

(* For one track, and for the first one in the default style, the entries   *)
(* of 'sidx' give the sizes and durations of its fragments.  The last       *)
(* duration of the default style is left out: get_moof_by_TrackIndex takes  *)
(* the last sample to be as long as the first.                              *)
SidxDescribesFragments ==
    (~cfg.ccff \/ Len(movie) = 1) => \A n \in 1..Len(subsegments) :
        LET plan == movie[1].plan
            end  == IF n = Len(plan) THEN movie[1].duration ELSE DtsFromIdx(1, plan[n].stop)
        IN  \E i \in FragmentsOf(1) :
              /\ Nth(1, i) = n
              /\ subsegments[n].size = MoofSize + 8 + out[i].bytes
              /\ cfg.ccff \/ n < Len(plan) =>
                    subsegments[n].duration = end - DtsFromIdx(1, plan[n].start)

(* The same for all tracks, as "reset stsd-lst" before the output says; it  *)
(* is violated by a second track with two descriptions.                     *)
DescriptionOfFragment == \A i \in DOMAIN out : out[i].sdi = DescriptionOf(out[i])

(* The loops end, in both styles.                                           *)
OutputEnds == <>(phase \in {"done", "failed", "not supported"})
=============================================================================
