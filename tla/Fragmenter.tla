----------------------------- MODULE Fragmenter -----------------------------
(***************************************************************************)
(* Cutting one track into fragments before anything is written:            *)
(* create_fragment_lst of src/src/mp4_muxer.c.  One step is one turn of    *)
(* its while loop.  Samples are numbered from 0, as there; the cursors of  *)
(* dts_lst and sync_lst always stand at the first entry not before the     *)
(* sample the next fragment starts with, so that one variable is enough    *)
(* for both; the cursor of stsd_lst moves on its own.                      *)
(***************************************************************************)
EXTENDS Integers, Sequences, FiniteSetsExt

CONSTANTS
    TrackSet,           \* the tracks that may come in
    Ranges,             \* frag_range_max and _min, rescaled to media time
    Styles              \* the values of first_sample_is_sync: TRUE for the
                        \* default fragment style, FALSE for CCFF

(* A track has samples; the first one is decoded at time 0 (each parser     *)
(* sees to it), decode times grow, and each sample description starts with  *)
(* a sync sample, as the comment of create_fragment_lst assumes.            *)
IsTrack(t) ==
    /\ t.dts \in Seq(Nat) /\ t.dts # << >> /\ t.dts[1] = 0
    /\ \A i, j \in 1..Len(t.dts) : i < j => t.dts[i] < t.dts[j]
    /\ t.duration \in Nat /\ t.duration > t.dts[Len(t.dts)]
    /\ t.sync \subseteq 0..(Len(t.dts) - 1)
    /\ t.sds \in Seq(0..(Len(t.dts) - 1)) /\ t.sds # << >> /\ t.sds[1] = 0
    /\ \A i, j \in 1..Len(t.sds) : i < j => t.sds[i] < t.sds[j]
    /\ \A i \in 2..Len(t.sds) : t.sds[i] \in t.sync
    /\ t.stpp \in BOOLEAN

ASSUME FragmenterAssumption ==
    /\ \A t \in TrackSet : IsTrack(t)
    /\ Ranges \subseteq [max : Nat, min : Nat]
    /\ Styles \subseteq BOOLEAN

VARIABLES
    track,      \* dts_lst, sync_lst, stsd_lst (as sds), media_duration,
                \* and whether one sample makes a fragment
    range,
    firstIsSync, \* first_sample_is_sync
    next,       \* where the cursors of dts_lst and sync_lst stand
    sdNext,     \* where the cursor of stsd_lst stands, from 1
    fragDts,    \* frag_dts
    segments,   \* segment_lst
    noSync,     \* EMAMP4_WARNFLAG_FRAG_NO_SYNC
    phase

vars == <<track, range, firstIsSync, next, sdNext, fragDts, segments, noSync, phase>>
-----------------------------------------------------------------------------
Num           == Len(track.dts)
Dts(i)        == track.dts[i + 1]
AllRapSamples == Cardinality(track.sync) = Num
SyncsLeft     == {s \in track.sync : s >= next}

(* get_dts_max_sd: the stsd cursor steps over the description that the      *)
(* opening sample starts, and the next one limits the fragment.             *)
SdSkipped ==
    IF sdNext <= Len(track.sds) /\ track.sds[sdNext] = next
    THEN sdNext + 1 ELSE sdNext

MutMaxTooLarge ==
    Min({fragDts + range.max + 1} \cup
        {Dts(track.sds[i]) : i \in {SdSkipped} \cap 1..Len(track.sds)})

DtsMax ==
    Min({fragDts + range.max} \cup
        {Dts(track.sds[i]) : i \in {SdSkipped} \cap 1..Len(track.sds)})

(* A cut is where the fragment stops, the decode time that goes with it,    *)
(* and whether a sync sample was what stopped it.  To begin with, the       *)
(* fragment is its first sample ...                                         *)

OneSample ==
    [stop |-> next + 1,
     dts  |-> IF next + 1 < Num THEN Dts(next + 1) ELSE track.duration + Dts(0),
     sync |-> FALSE]

(* ... then it goes on to the last sync sample in range ...                 *)
MutToSyncTime(c) ==
    LET stops == {s \in SyncsLeft : s > c.stop /\ Dts(s) <= DtsMax}
    IN  IF AllRapSamples \/ stops = {} THEN c
        ELSE [stop |-> Max(stops), dts |-> c.dts, sync |-> TRUE]

MutToSyncUnflagged(c) ==
    LET stops == {s \in SyncsLeft : s > c.stop /\ Dts(s) <= DtsMax}
    IN  IF AllRapSamples \/ stops = {} THEN c
        ELSE [stop |-> Max(stops), dts |-> Dts(Max(stops)), sync |-> FALSE]

ToSync(c) ==
    LET stops == {s \in SyncsLeft : s > c.stop /\ Dts(s) <= DtsMax}
    IN  IF AllRapSamples \/ stops = {} THEN c
        ELSE [stop |-> Max(stops), dts |-> Dts(Max(stops)), sync |-> TRUE]

(* ... or takes all the rest if no sync sample lies out of range and the    *)
(* track ends in range ...                                                  *)
TakeRest(c) ==
    IF /\ ~AllRapSamples
       /\ \A s \in SyncsLeft : Dts(s) <= DtsMax
       /\ track.duration < DtsMax
    THEN [c EXCEPT !.stop = Num, !.dts = track.duration]
    ELSE c

(* ... and is filled up with any samples if no sync sample stopped it or if *)
(* it is still too short.                                                   *)
MutFillUp(c) ==
    LET reach == {i \in next..(Num - 1) : Dts(i) <= DtsMax}
    IN  IF c.sync THEN c
        ELSE IF reach = next..(Num - 1) /\ track.duration <= DtsMax
        THEN [c EXCEPT !.stop = Num, !.dts = track.duration + Dts(0)]
        ELSE IF reach # {} /\ (Max(reach) > c.stop \/ c.dts > DtsMax)
        THEN [c EXCEPT !.stop = Max(reach), !.dts = Dts(Max(reach))]
        ELSE c

FillUp(c) ==
    LET reach  == {i \in next..(Num - 1) : Dts(i) <= DtsMax}
        filled == IF reach # {} /\ (Max(reach) > c.stop \/ c.dts > DtsMax)
                  THEN [c EXCEPT !.stop = Max(reach), !.dts = Dts(Max(reach))]
                  ELSE c
    IN  IF c.sync /\ c.dts > fragDts + range.min THEN c
        ELSE IF reach = next..(Num - 1) /\ track.duration <= DtsMax
        THEN [c EXCEPT !.stop = Num, !.dts = track.duration + Dts(0)]
        ELSE filled

Cut == IF track.stpp THEN OneSample ELSE FillUp(TakeRest(ToSync(OneSample)))

(* The fragment does not start at a sync sample.                            *)
StartsOffSync == ~track.stpp /\ ~AllRapSamples /\ next \notin track.sync
-----------------------------------------------------------------------------
Init ==
    /\ track \in TrackSet /\ range \in Ranges /\ firstIsSync \in Styles
    /\ next = 0 /\ sdNext = 1 /\ fragDts = 0
    /\ segments = << >> /\ noSync = FALSE
    /\ phase = "check"

CheckRange ==
    /\ phase = "check"
    /\ phase' = IF range.max <= range.min THEN "range error" ELSE "cut"
    /\ UNCHANGED <<track, range, firstIsSync, next, sdNext, fragDts, segments, noSync>>

(* A turn of the loop that adds a fragment ...                              *)
CutFragment ==
    /\ phase = "cut"
    /\ fragDts < track.duration /\ next < Num
    /\ ~(StartsOffSync /\ firstIsSync)
    /\ segments' = Append(segments, [start |-> next, stop |-> Cut.stop])
    /\ next' = Cut.stop
    /\ fragDts' = Cut.dts
    /\ sdNext' = IF track.stpp THEN sdNext ELSE SdSkipped
    /\ noSync' = (noSync \/ StartsOffSync)
    /\ UNCHANGED <<track, range, firstIsSync, phase>>

(* ... or finds none that starts at a sync sample, when it has to.          *)
GiveUp ==
    /\ phase = "cut"
    /\ fragDts < track.duration /\ next < Num
    /\ StartsOffSync /\ firstIsSync
    /\ sdNext' = SdSkipped
    /\ noSync' = TRUE
    /\ phase' = "rap error"
    /\ UNCHANGED <<track, range, firstIsSync, next, fragDts, segments>>

(* The lists are rewound for the writing that follows; stsd_lst is not.     *)
MutFinish ==
    /\ phase = "cut"
    /\ fragDts > track.duration
    /\ next' = 0
    /\ phase' = "ready"
    /\ UNCHANGED <<track, range, firstIsSync, sdNext, fragDts, segments, noSync>>

Finish ==
    /\ phase = "cut"
    /\ fragDts >= track.duration \/ next >= Num
    /\ next' = 0
    /\ phase' = "ready"
    /\ UNCHANGED <<track, range, firstIsSync, sdNext, fragDts, segments, noSync>>

Next == CheckRange \/ CutFragment \/ GiveUp \/ Finish

(* A loop of one thread.                                                    *)
Spec == Init /\ [][Next]_vars /\ WF_vars(Next)
-----------------------------------------------------------------------------
Fragments     == 1..Len(segments)
Start(f)      == segments[f].start
Stop(f)       == segments[f].stop
DtsAt(i)      == IF i < Num THEN Dts(i) ELSE track.duration
DurationOf(f) == DtsAt(Stop(f)) - Dts(Start(f))

TypeOK ==
    /\ IsTrack(track) /\ range \in Ranges /\ firstIsSync \in Styles
    /\ next \in 0..Num
    /\ sdNext \in 1..(Len(track.sds) + 1)
    /\ fragDts \in Nat
    /\ segments \in Seq([start : 0..(Num - 1), stop : 0..Num])
    /\ noSync \in BOOLEAN
    /\ phase \in {"check", "cut", "range error", "rap error", "ready"}

(* The comment of get_dts_max_sd: a new sample description "shall start a   *)
(* new fragment".                                                           *)
DescriptionsStartFragments ==
    phase = "ready" =>
        \A i \in 1..Len(track.sds) : \E f \in Fragments : Start(f) = track.sds[i]

(* The fragments follow one another without gap or overlap, the loop's      *)
(* decode time stays that of the sample it stands at, and when the list is  *)
(* handed over it covers the track to its last sample, each fragment having *)
(* a sample, and a description comes with a fragment of its own.            *)
FragmentsCoverTrack ==
    /\ \A f \in Fragments : Start(f) = IF f = 1 THEN 0 ELSE Stop(f - 1)
    /\ phase = "cut" => fragDts = DtsAt(next)
    /\ phase = "ready" =>
         /\ segments # << >> /\ Stop(Len(segments)) = Num
         /\ \A f \in Fragments : Start(f) < Stop(f)
    /\ TypeOK /\ DescriptionsStartFragments

(* The comment at mp4_muxer.c:3346, "The first sample in a fragment must be *)
(* sync sample", and the comment's "each fragment's start/end sample        *)
(* index": a fragment has a first sample, so the loop gets on.              *)
FragmentsNotEmpty == \A f \in Fragments : Start(f) < Stop(f)

(* In the default style the cut succeeds, each fragment starting at a sync  *)
(* sample, whenever sync samples are more than one sample and more than the *)
(* minimum apart and none is farther than the maximum from the next one, or *)
(* from the end of the track.                                               *)
SyncOrEndAfter(s) == Min({u \in track.sync : u > s} \cup {Num})

EvenlySynced ==
    /\ 0 \in track.sync
    /\ \A s \in track.sync :
         LET u == SyncOrEndAfter(s) IN
         /\ DtsAt(u) - Dts(s) <= range.max
         /\ u < Num => u > s + 1 /\ Dts(u) - Dts(s) > range.min

CutSucceeds ==
    firstIsSync /\ ~track.stpp =>
        /\ EvenlySynced => phase # "rap error"
        /\ phase = "ready" =>
             AllRapSamples \/ \A f \in Fragments : Start(f) \in track.sync

(* The comment at mp4_muxer.c:3344: "Fragment duration will not exceed      *)
(* usr_cfg_mux_ref->frag_range_max".  The range is not applied to subtitle  *)
(* tracks: there a fragment is one sample, however long.                    *)
DurationNotAboveMax ==
    \A f \in Fragments :
        IF track.stpp THEN Stop(f) = Start(f) + 1 ELSE DurationOf(f) <= range.max

(* A fragment is cut at or below the minimum only where it has to be: at    *)
(* the end, at a new description, or because the next sample is too long.   *)
ShortOnlyIfNeeded ==
    ~track.stpp => \A f \in Fragments :
        \/ DurationOf(f) > range.min
        \/ Stop(f) = Num
        \/ \E i \in 1..Len(track.sds) : track.sds[i] = Stop(f)
        \/ DtsAt(Stop(f) + 1) - Dts(Start(f)) > range.max

(* The message at mp4_muxer.c:3446: "rap distance larger than max fragment  *)
(* duration".                                                               *)
RapDistanceTooLarge ==
    \/ 0 \notin track.sync
    \/ \E s \in track.sync : DtsAt(SyncOrEndAfter(s)) - Dts(s) > range.max

GivesUpOnlyOnRapDistance == phase = "rap error" => RapDistanceTooLarge

(* The loop ends.                                                           *)
CutEnds == <>(phase \notin {"check", "cut"})
=============================================================================
