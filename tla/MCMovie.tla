------------------------------- MODULE MCMovie -------------------------------
(* The boxes in front of the media, or the queries on the tables in them:   *)
(* the muxer sets up and writes up to two tracks out of one stream of every *)
(* kind and the kinds' special cases, with the 32-bit limit among the sizes *)
(* and times; or a track of up to four samples is looked up.                *)
EXTENDS MuxerSetup, StreamLookup, SequencesExt

VARIABLE part

MCChunk(n, from) == [num |-> n, sdi |-> 1, offset |-> 0, idx |-> from]

MCVideo ==
    [type |-> "vide", coding |-> "avc1", id |-> 0, timescale |-> 20,
     dsi |-> 40, nal |-> TRUE, dvDsi |-> 0, elDsi |-> 0, pasp |-> TRUE,
     strings |-> <<4, 4, 4>>, fonts |-> <<5, 6>>, descs |-> 1, preRoll |-> FALSE,
     modTime |-> 0, sumEdits |-> 0, edits |-> << >>, elstLong |-> FALSE,
     hdlrName |-> 12, sdp |-> 30, rpu |-> FALSE, dvProfile |-> 0, el |-> FALSE,
     dts |-> <<0, 4, 8>>, duration |-> 12, mdat |-> 300,
     cts |-> <<[count |-> 3, value |-> 0]>>, fixed |-> <<4, 8, 4>>, warp |-> <<1, 1>>,
     sizes |-> <<[count |-> 1, value |-> 200], [count |-> 2, value |-> 50]>>,
     sync |-> <<0>>, chunks |-> <<MCChunk(2, 1), MCChunk(1, 3)>>, writeStss |-> TRUE]

MCAudio ==
    [MCVideo EXCEPT !.type = "soun", !.coding = "mp4a", !.timescale = 10,
        !.nal = FALSE, !.preRoll = TRUE, !.dts = <<0, 3>>, !.duration = 6,
        !.cts = <<[count |-> 2, value |-> 0]>>, !.fixed = << >>,
        !.sizes = <<[count |-> 2, value |-> 60]>>, !.sync = <<0, 1>>,
        !.chunks = <<MCChunk(2, 1)>>, !.mdat = 120]

MCEmpty(t) == [t EXCEPT !.dts = << >>, !.sync = << >>, !.chunks = << >>, !.cts = << >>,
                        !.fixed = << >>, !.sizes = << >>, !.duration = 0]

MCEnhancement ==
    [MCVideo EXCEPT !.el = TRUE, !.rpu = TRUE, !.coding = "hvc1", !.dvDsi = 24,
                    !.dvProfile = 4, !.timescale = 15, !.fixed = << >>, !.sync = <<0, 2>>]

MCStreams ==
    {MCVideo, MCAudio, MCEmpty(MCVideo), MCEmpty(MCAudio),
     [MCVideo EXCEPT !.fixed = << >>, !.sync = << >>, !.pasp = FALSE],
     [MCVideo EXCEPT !.fixed = <<0, 0, 0>>, !.writeStss = FALSE, !.elDsi = 12],
     [MCVideo EXCEPT !.fixed = <<5, 9, 5>>, !.warp = <<2, 1>>],
     [MCVideo EXCEPT !.fixed = <<900, 904, 902>>, !.duration = 3200,
                     !.dts = <<0, 3000, 3100>>],
     MCEnhancement,
     [MCEnhancement EXCEPT !.sync = << >>],
     [MCEnhancement EXCEPT !.dts = <<0, 4>>, !.dvProfile = 5, !.sync = <<0, 1>>,
        !.cts = <<[count |-> 2, value |-> 0]>>, !.chunks = <<MCChunk(2, 1)>>,
        !.sizes = <<[count |-> 2, value |-> 50]>>],
     [MCEnhancement EXCEPT !.rpu = FALSE, !.dvProfile = 5, !.sync = <<0, 1, 2>>],
     [MCAudio EXCEPT !.coding = "ec-3", !.preRoll = FALSE, !.duration = 1800, !.mdat = 700],
     [MCAudio EXCEPT !.dsi = 150, !.descs = 2, !.chunks = <<MCChunk(1, 1), MCChunk(1, 2)>>],
     [MCAudio EXCEPT !.descs = 0],
     [MCAudio EXCEPT !.type = "meta", !.coding = "metx"],
     [MCAudio EXCEPT !.type = "text", !.coding = "tx3g"],
     [MCAudio EXCEPT !.type = "data", !.coding = "dats"],
     [MCAudio EXCEPT !.type = "hint", !.coding = "rtp "],
     [MCAudio EXCEPT !.type = "subt", !.coding = "stpp"]}

BaseMovie ==
    [frag |-> FALSE, co64 |-> FALSE, timescale |-> 10, duration |-> 0, modTime |-> 5,
     iods |-> TRUE, ainf |-> 0, meta |-> [xml |-> 0, name |-> 4, items |-> << >>],
     atoms |-> << >>, udta |-> << >>, free |-> 0, brands |-> 12, commas |-> 2,
     mdat |-> 0, pdin |-> TRUE, bloc |-> 0, dvNonComp |-> FALSE, cttsV1 |-> FALSE,
     est |-> 0, nextId |-> 1, ctrl |-> 0]

MCMovies ==
    {BaseMovie,
     [BaseMovie EXCEPT !.iods = FALSE, !.cttsV1 = TRUE, !.dvNonComp = TRUE, !.modTime = 1600],
     [BaseMovie EXCEPT !.frag = TRUE, !.pdin = FALSE, !.free = 20, !.udta = <<10, 12>>],
     [BaseMovie EXCEPT !.co64 = TRUE, !.ainf = 30, !.bloc = 40,
        !.meta = [xml |-> 50, name |-> 4, items |-> <<30, 40>>],
        !.atoms = <<[parent |-> "trak", id |-> 1, size |-> 20],
                    [parent |-> "moov", id |-> 0, size |-> 24]>>]}

MCWantedIds == {0, 1, 2, 5}
MCSampleEntries == {"none", "hvc1", "dvh1"}
MCCodings == {s.coding : s \in MCStreams} \cup {"hev1", "dvh1", "dvhe"}
MCMax32 == 1500
-----------------------------------------------------------------------------
(* The tables are written and read independently of each other, except stts *)
(* with ctts and stsc with stsz and stco, so a track varies in one group    *)
(* and is plain in the others.                                              *)
MCRuns(values) ==
    LET Add(runs, v) ==
          IF runs # << >> /\ Final(runs).value = v
          THEN [runs EXCEPT ![Len(runs)].count = @ + 1]
          ELSE Append(runs, [count |-> 1, value |-> v])
    IN  FoldLeft(Add, << >>, values)

(* Decode times from the first on, by the distances between them.           *)
MCTimes(deltas) ==
    [i \in 1..(Len(deltas) + 1) |->
        FoldLeft(+, 0, SubSeq(deltas, 1, i - 1))]

MCChunks(nums, sdis) ==
    [i \in 1..Len(nums) |->
        [num |-> nums[i], sdi |-> sdis[i], offset |-> 40 * i,
         idx |-> 1 + FoldLeft(+, 0, SubSeq(nums, 1, i - 1))]]

MCPlain == [dts |-> <<0, 1, 2, 3>>, duration |-> 4,
            cts |-> <<[count |-> 4, value |-> 0]>>,
            sizes |-> <<[count |-> 4, value |-> 1]>>,
            sync |-> <<0>>, writeStss |-> TRUE,
            chunks |-> MCChunks(<<4>>, <<1>>)]

MCTimed ==
    {[MCPlain EXCEPT !.dts = MCTimes(d), !.duration = Final(MCTimes(d)) + last,
                     !.cts = MCRuns(c)] :
        d \in [1..3 -> {1, 2}], last \in {-1, 1, 2},
        c \in {<<0, 0, 0, 0>>, <<0, 3, 3, 0>>, <<3, 3, 1, 0>>}}

MCSplits == {<<4>>, <<1, 3>>, <<3, 1>>, <<2, 2>>, <<1, 1, 2>>, <<1, 2, 1>>,
             <<2, 1, 1>>, <<1, 1, 1, 1>>}

MCPlaced ==
    UNION {{[MCPlain EXCEPT !.chunks = MCChunks(n, s), !.sizes = MCRuns(z)] :
              s \in {x \in [1..Len(n) -> 1..2] :
                       x[1] = 1 /\ \A i \in 1..(Len(n) - 1) : x[i] <= x[i + 1]},
              z \in {<<2, 2, 2, 2>>, <<2, 2, 5, 5>>, <<2, 5, 2, 5>>}} : n \in MCSplits}

MCSynced ==
    {[MCPlain EXCEPT !.sync = SetToSortSeq(s, <), !.writeStss = w] :
        s \in SUBSET (0..3), w \in BOOLEAN}

MCSingle ==
    {[MCPlain EXCEPT !.dts = <<0>>, !.duration = 3,
                     !.cts = <<[count |-> 1, value |-> 0]>>,
                     !.sizes = <<[count |-> 1, value |-> 2]>>,
                     !.chunks = MCChunks(<<1>>, <<1>>)]}

MCTracks == MCTimed \union MCPlaced \union MCSynced \union MCSingle

MCDtsOffsets == {0, 2}

ASSUME LookedUpAssumption == \A t \in Tracks : IsIntaken(t)
-----------------------------------------------------------------------------
NoLookup == track = MCPlain /\ dtsOffset = 0 /\ Init

NoSetup ==
    /\ movie = BaseMovie /\ tracks = << >> /\ phase = "adding" /\ next = 1
    /\ ret = "ok" /\ out = << >>

MCInit ==
    \/ part = "setup" /\ SetupInit /\ NoLookup
    \/ part = "lookup" /\ Init /\ NoSetup

SetupStep == part = "setup" /\ SetupNext /\ UNCHANGED <<part, vars>>
LookupStep == part = "lookup" /\ Next /\ UNCHANGED <<part, setupVars>>

MCNext == SetupStep \/ LookupStep

MCSpec == MCInit /\ [][MCNext]_<<part, setupVars, vars>>
=============================================================================
