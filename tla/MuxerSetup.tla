----------------------------- MODULE MuxerSetup -----------------------------
(***************************************************************************)
(* From mp4_muxer_create to the end of 'moov': tracks are added, their     *)
(* samples collected (TrackIntake; here a stream comes with its lists      *)
(* complete), and mp4_muxer_output_tracks sets every track up and writes   *)
(* the boxes in front of the media data.  Init segments take a shorter way *)
(* (mp4_muxer_output_init_segment).                                        *)
(*                                                                         *)
(* movie is mp4_ctrl with its configuration, tracks its tracks; out are    *)
(* the boxes written.  Times have the unit of their time scale.            *)
(***************************************************************************)
EXTENDS MovieBoxes, FiniteSetsExt

CONSTANTS
    Movies,         \* configurations of the muxer
    Streams,        \* elementary streams, with their samples
    WantedIds,      \* track IDs users ask for; 0: none
    SampleEntries,  \* sample entry names users ask for
    Codings,        \* sample entry names there are
    MaxStreams,     \* MAX_STREAMS
    MaxTracks       \* tracks of an instance

(* mp4_ctrl and its configuration.                                          *)
Movie ==
    [frag : BOOLEAN, co64 : BOOLEAN, timescale : Nat \ {0}, duration : Nat,
     modTime : Nat, iods : BOOLEAN, ainf : Nat,
     meta : [xml : Nat, name : Nat, items : Seq(Nat)],
     atoms : Seq([parent : {"moov", "trak"}, id : Nat, size : Nat]),
     udta : Seq(Nat), free : Nat, brands : Nat, commas : Nat, mdat : Nat,
     pdin : BOOLEAN, bloc : Nat, dvNonComp : BOOLEAN, cttsV1 : BOOLEAN,
     est : Nat, nextId : Nat \ {0}, ctrl : Nat]

(* A track with its parser; fixed are the offsets the parser knows at the   *)
(* end of the stream, warp the user's time scale over the stream's.         *)
Track ==
    [type : {"vide", "soun", "meta", "text", "data", "hint", "subt"},
     coding : Codings, id : Nat, timescale : Nat \ {0}, dsi : Nat, nal : BOOLEAN,
     dvDsi : Nat, elDsi : Nat, pasp : BOOLEAN, strings : [1..3 -> Nat],
     fonts : Seq(Nat), descs : Nat, preRoll : BOOLEAN, modTime : Nat,
     sumEdits : Nat, edits : Seq([duration : Nat, mediaTime : Int]),
     elstLong : BOOLEAN, hdlrName : Nat, sdp : Nat, rpu : BOOLEAN,
     dvProfile : Nat, el : BOOLEAN, dts : Seq(Nat), duration : Nat, mdat : Nat,
     cts : Seq([count : Nat, value : Int]), fixed : Seq(Nat),
     warp : (Nat \ {0}) \X (Nat \ {0}),
     sizes : Seq([count : Nat, value : Nat]), sync : Seq(Nat),
     chunks : Seq([num : Nat, sdi : Nat, offset : Nat, idx : Nat]),
     writeStss : BOOLEAN]

(* What intake leaves.  Nobody but setup adds edits.                        *)
IsStream(s) ==
    /\ s \in Track /\ s.edits = << >>
    /\ IsIntaken(s) \/ (sampleNum(s) = 0 /\ s.sync = << >>)

ASSUME SetupAssumption ==
    /\ MaxStreams \in Nat \ {0}
    /\ MaxTracks \in 0..(MaxStreams + 1)
    /\ 0 \in WantedIds /\ WantedIds \subseteq Nat
    /\ {"hev1", "dvh1", "dvhe"} \subseteq Codings
    /\ Movies \subseteq Movie
    /\ \A s \in Streams : IsStream(s)

VARIABLES movie, tracks, phase, next, ret, out

setupVars == <<movie, tracks, phase, next, ret, out>>

(* rescale_u64: to the nearest, halves up.                                  *)
Rescale(u, new, old) == (u * new + old \div 2) \div old

UInt(n) == n % (Max32 + 1)
-----------------------------------------------------------------------------
(* mp4_muxer_create.                                                        *)
SetupInit ==
    /\ movie \in {[m EXCEPT !.duration = 0, !.mdat = 0, !.est = 0,
                            !.nextId = 1, !.ctrl = 0] : m \in Movies}
    /\ tracks = << >> /\ phase = "adding" /\ next = 1 /\ ret = "ok" /\ out = << >>

Ids == {tracks[i].id : i \in 1..Len(tracks)}

(* The wanted ID or the next one; another unused one if that is taken.      *)
MutTrackId(want) == IF want # 0 THEN want ELSE movie.nextId

TrackId(want) ==
    LET id   == IF want # 0 THEN want ELSE movie.nextId
        free == 1..MaxStreams \ Ids
    IN  IF id \in Ids /\ free # {} THEN Min(free) ELSE id

(* The sample entry of HEVC is hvc1 only if asked for; a non-compatible     *)
(* base layer has a Dolby Vision name, which for AVC is then replaced.      *)
CodingOf(s, entry) ==
    LET name == IF s.coding # "hvc1" \/ entry = "hvc1" THEN s.coding ELSE "hev1"
    IN  CASE movie.dvNonComp /\ s.type = "vide" /\ entry = "dvh1" -> "dvh1"
          [] movie.dvNonComp /\ s.type = "vide" /\ entry # "dvh1" -> "dvhe"
          [] OTHER -> name

NextId(id) == Max({movie.nextId + 1, id + 1})

AddTrack(s, want, entry) ==
    LET id == TrackId(want)
    IN  /\ phase = "adding"
        /\ Len(tracks) < Min({MaxStreams, MaxTracks})
        /\ s.el => tracks # << >> /\ ~Final(tracks).el   \* after its base layer
        /\ tracks' = Append(tracks,
             [s EXCEPT !.id = id, !.coding = CodingOf(s, entry),
                       !.modTime = movie.modTime])
        /\ movie' = [movie EXCEPT !.nextId = NextId(id),
                                  !.ctrl = IF s.type = "vide" THEN id ELSE @]
        /\ UNCHANGED <<phase, next, ret, out>>

(* There is no stream more.                                                 *)
RefuseTrack ==
    /\ phase = "adding"
    /\ Len(tracks) = MaxStreams
    /\ ret' = "no track"
    /\ UNCHANGED <<movie, tracks, phase, next, out>>
-----------------------------------------------------------------------------
(* setup_muxer, one track after the other.                                  *)

(* count_value_lst_update for every value.                                  *)
AddValue(runs, v) ==
    IF runs # << >> /\ Final(runs).value = v
    THEN [runs EXCEPT ![Len(runs)].count = @ + 1]
    ELSE Append(runs, [count |-> 1, value |-> v])

CountRuns(values) ==
    LET f[i \in 0..Len(values)] == IF i = 0 THEN << >> ELSE AddValue(f[i - 1], values[i])
    IN  f[Len(values)]

(* update_ctts: the offsets known at the end of the stream, warped to the   *)
(* user's time scale, in version 1 relative to the first.                   *)
FixCts(t) ==
    IF t.fixed = << >> THEN t
    ELSE LET warped == [i \in 1..Len(t.fixed) |-> Rescale(t.fixed[i], t.warp[1], t.warp[2])]
             base   == IF movie.cttsV1 THEN warped[1] ELSE 0
         IN  [t EXCEPT !.cts = CountRuns([i \in 1..Len(warped) |-> UInt(warped[i] - base)])]

(* An enhancement layer has the time base and the sync samples of its base  *)
(* layer.                                                                   *)
FromBase(t, i) ==
    IF t.rpu /\ t.el THEN [t EXCEPT !.timescale = tracks[i - 1].timescale,
                                    !.duration  = tracks[i - 1].duration]
    ELSE t

SyncOfBase(t, i) == IF t.el THEN [t EXCEPT !.sync = tracks[i - 1].sync] ELSE t

(* mp4_muxer_add_to_track_edit_list.  The duration passes through 32 bits.  *)
AddEdit(t, duration, mediaTime) ==
    LET d == UInt(Rescale(duration, movie.timescale, t.timescale))
    IN  [t EXCEPT !.edits = Append(@, [duration |-> d, mediaTime |-> mediaTime]),
                  !.sumEdits = @ + d,
                  !.elstLong = @ \/ mediaTime > Max32 \div 2]

(* A first sample that is not presented at once is cut off by an edit.      *)
MutCompensate(t) == t

Compensate(t) ==
    IF ~NoCtsOffset(t) /\ t.edits = << >> /\ t.cts # << >> /\ t.cts[1].value # 0
    THEN AddEdit(t, t.duration, t.cts[1].value)
    ELSE t

SumEdits(t) ==
    IF t.edits # << >> THEN t
    ELSE [t EXCEPT !.sumEdits = Rescale(t.duration, movie.timescale, t.timescale)]

SetUp(t, i) == SumEdits(Compensate(SyncOfBase(FixCts(FromBase(t, i)), i)))

(* The worst case of 'trak', with mvhd once more for every track.           *)
EntryEstimate(t) ==
    CASE t.type = "vide" -> 16 + 70 + t.dsi + 8
      [] t.type = "soun" -> 16 + 20 + t.dsi + 8
      [] t.type = "data" -> 16 + t.dsi + 8
      [] OTHER           -> 0

MutTrakEstimate(t) ==
    120 + 8 + 104 + 8 + 44 + 64 + 8 + 20 + 36 + 8 + 16 + EntryEstimate(t)

TrakEstimate(t) ==
    120 + 8 + 104 + (12 + 12 * (1 + Len(t.edits))) + 8 + 44 + 64 + 8 + 20 + 36 + 8
    + (16 + 8 * sampleNum(t)) + (16 + 8 * Len(t.cts)) + (16 + 4 * Len(t.sync))
    + (16 + 12 * Len(t.chunks))
    + (20 + 4 * (IF Len(t.sizes) = 1 THEN 0 ELSE sampleNum(t)))
    + (16 + 8 * Len(t.chunks)) + 16 + EntryEstimate(t)

(* What stops the setup of a track, in the order of the checks.             *)
SetupError(t, i) ==
    CASE t.descs = 0 -> "buggy"
      [] t.descs # 0 /\ t.rpu /\ t.el
            /\ (i = 1 \/ sampleNum(t) # sampleNum(tracks[i - 1])) -> "buggy"
      [] t.descs # 0 /\ sampleNum(t) = 0
            /\ (t.rpu /\ t.el => i > 1 /\ sampleNum(tracks[i - 1]) = 0) -> "empty"
      [] t.descs # 0 /\ sampleNum(t) # 0 /\ t.el /\ i > 1
            /\ (t.rpu => sampleNum(t) = sampleNum(tracks[i - 1]))
            /\ Len(t.sync) < Len(tracks[i - 1].sync) -> "read error"
      [] OTHER -> "ok"

(* mp4_muxer_output_hdrs: the first term of the estimate is what            *)
(* write_ftyp_box returns.                                                  *)
OutputHdrs ==
    /\ phase = "adding" /\ tracks # << >>
    /\ out' = << FtypBox(movie) >>
    /\ movie' = [movie EXCEPT !.est = FtypReturned(movie)]
    /\ phase' = "setup"
    /\ UNCHANGED <<tracks, next, ret>>

SetupTrack ==
    /\ phase = "setup" /\ next <= Len(tracks)
    /\ SetupError(tracks[next], next) = "ok"
    /\ LET t == SetUp(tracks[next], next)
       IN  /\ tracks' = [tracks EXCEPT ![next] = t]
           /\ movie' = [movie EXCEPT
                !.mdat = @ + t.mdat,
                !.duration = Max({@, t.sumEdits}),
                !.est = IF movie.frag THEN @ ELSE @ + TrakEstimate(t),
                !.ctrl = IF movie.frag /\ t.id = @ /\ AllRapSamples(t) THEN 0 ELSE @]
           /\ phase' = IF movie.frag /\ t.id = movie.ctrl /\ t.sync = << >>
                       THEN "undefined"   \* the first sync sample is dereferenced
                       ELSE phase
    /\ next' = next + 1
    /\ UNCHANGED <<ret, out>>

SetupFails ==
    /\ phase = "setup" /\ next <= Len(tracks)
    /\ SetupError(tracks[next], next) # "ok"
    /\ ret' = SetupError(tracks[next], next)
    /\ phase' = "failed"
    /\ UNCHANGED <<movie, tracks, next, out>>

WritePdin ==
    /\ phase = "setup" /\ next = Len(tracks) + 1 /\ phase' = "moov"
    /\ LET pdin == Optional(movie.pdin,
                            PdinBox(movie, Rescale(movie.duration, 1000, movie.timescale)))
           bloc == Optional(movie.bloc > 0, Announced("bloc", movie.bloc, movie.bloc - 8))
       IN  /\ out' = Append(Append(out, pdin), bloc)
           /\ movie' = [movie EXCEPT !.est = @ + pdin.size + movie.bloc]
    /\ UNCHANGED <<tracks, next, ret>>

(* write_moov_box: 64-bit chunk offsets are chosen by the estimate, with    *)
(* mvhd, ainf and iods as written, before the tracks are written.           *)
EstimateInMoov ==
    movie.est + MvhdBox(movie).size + movie.ainf
    + (IF movie.iods /\ Filled(tracks) > 0 THEN IodsBox(tracks).size ELSE 0)

WriteMoov ==
    /\ phase = "moov"
    /\ LET m == [movie EXCEPT
                   !.est = EstimateInMoov,
                   !.co64 = @ \/ (~movie.frag /\ EstimateInMoov + 16 + movie.mdat > Max32)]
       IN  /\ out' = Append(out, MoovBox(m, tracks))
           /\ movie' = m
    /\ phase' = "done"
    /\ UNCHANGED <<tracks, next, ret>>

(* setup_muxer_short: an init segment for a track without samples, which is *)
(* given one, and a chunk, to have 'trak' and 'stsd' written.               *)
InitSegment ==
    /\ phase = "adding" /\ movie.frag /\ Len(tracks) = 1
    /\ tracks[1].type \in {"vide", "soun"} /\ sampleNum(tracks[1]) = 0
    /\ tracks' = [tracks EXCEPT ![1].dts = <<0>>,
                                ![1].chunks = << [num |-> 1, sdi |-> 1, offset |-> 0, idx |-> 1] >>]
    /\ out' = << FtypBox(movie), MoovBox(movie, tracks') >>
    /\ movie' = [movie EXCEPT !.est = FtypReturned(movie) + EstimateInMoov]
    /\ phase' = "init segment"
    /\ UNCHANGED <<next, ret>>

(* mp4_muxer_destroy.                                                       *)
Finished ==
    /\ phase \in {"done", "failed", "init segment", "undefined"}
    /\ UNCHANGED setupVars

SetupNext ==
    \/ \E s \in Streams, w \in WantedIds, e \in SampleEntries : AddTrack(s, w, e)
    \/ RefuseTrack \/ OutputHdrs \/ SetupTrack \/ SetupFails \/ WritePdin \/ WriteMoov
    \/ InitSegment \/ Finished

SetupSpec == SetupInit /\ [][SetupNext]_setupVars
-----------------------------------------------------------------------------
SetupTypeOK ==
    /\ phase \in {"adding", "setup", "moov", "done", "failed", "init segment", "undefined"}
    /\ ret \in {"ok", "no track", "buggy", "empty", "read error"}
    /\ next \in 1..(MaxTracks + 1)
    /\ movie.est \in Nat /\ movie.duration \in Nat

(* No two tracks have the same ID, and the next ID written into mvhd is     *)
(* above all of them, however users choose theirs; the track that controls  *)
(* the cutting of fragments is a video track.                               *)
TrackIDsUsable ==
    /\ SetupTypeOK
    /\ \A i, j \in 1..Len(tracks) : tracks[i].id = tracks[j].id => i = j
    /\ \A i \in 1..Len(tracks) : tracks[i].id \in 1..(movie.nextId - 1)
    /\ \/ movie.ctrl = 0
       \/ \E i \in 1..Len(tracks) : tracks[i].id = movie.ctrl /\ tracks[i].type = "vide"

(* Every size written into the header of a box, announced or measured, is   *)
(* what the box takes up with all the boxes in it.                          *)
FileIsReadable == \A i \in 1..Len(out) : Tiled(out[i])

(* "worst case moov size": as long as a sample entry, a name and a          *)
(* description are of the kind the estimate counts on, the estimate the     *)
(* choice of stco or co64 rests on is not below the bytes written.          *)
Counted ==
    /\ ~movie.frag /\ movie.meta.xml = 0 /\ movie.atoms = << >>
    /\ movie.udta = << >> /\ movie.free = 0
    /\ \A i \in 1..Len(tracks) :
         /\ tracks[i].type \in {"vide", "soun", "data"} /\ tracks[i].descs = 1
         /\ tracks[i].dvDsi + tracks[i].elDsi = 0 /\ ~tracks[i].preRoll
         /\ tracks[i].hdlrName < 32 /\ ~tracks[i].elstLong

EstimateCovers ==
    phase = "done" /\ Counted => movie.est >= Row(out).bytes

(* The presentation: each track starts with its first sample, whichever of  *)
(* edits and offsets are written; the movie lasts as long as its longest    *)
(* track; an enhancement layer can be entered where its base layer can and  *)
(* lasts as long.                                                           *)
FirstOffset(t) == IF Ctts(t) = << >> THEN 0 ELSE Ctts(t)[1].value

StartOfEdits(t) == IF t.edits = << >> THEN 0 ELSE t.edits[1].mediaTime

PresentationFits ==
    phase = "done" =>
        /\ \A i \in 1..Len(tracks) : LET t == tracks[i] IN
             /\ FirstOffset(t) = StartOfEdits(t)
             /\ t.sumEdits <= movie.duration
             /\ t.el => /\ t.sync = tracks[i - 1].sync
                        /\ t.rpu => t.duration * tracks[i - 1].timescale
                                    = tracks[i - 1].duration * t.timescale
        /\ \E i \in 1..Len(tracks) : tracks[i].sumEdits = movie.duration
        /\ \A i \in 1..Len(tracks) :
             (tracks[i].el => tracks[i].rpu) /\ tracks[i].sync # << >>
                 => Final(tracks[i].sync) < sampleNum(tracks[i])
=============================================================================
