------------------------------ MODULE ParserAc4 -----------------------------
(***************************************************************************)
(* The AC-4 parser, src/src/esparser/parser_ac4.c: frames found by their   *)
(* sync words, what the table of contents (toc) of each leaves in the      *)
(* parser, the channels and times that follow from it, and the dac4        *)
(* configuration made of it after the last frame.                          *)
(*                                                                         *)
(* The stream es is a sequence of bytes, each with what the code makes of  *)
(* it.  ac: it is 0xAC.  sync: it and the next byte are a sync word, and   *)
(* then the other fields are the frame's that begins here: hdr (the bytes  *)
(* of the sync word and the size, 4 or 7), toc, len (the bytes of payload, *)
(* which begins with the toc) and crc (two bytes more).  A toc is a record *)
(*   [version, rate, iframe, pres, groups]                                 *)
(* of the bit stream version, the frame rate index (at 48 kHz), whether    *)
(* the frame is an I-frame, its presentations and its substream groups.    *)
(*   presentation: [single, config, version, id, groups, skip, emdf]       *)
(*   group:        [coded, subs, content, lang]                            *)
(*   substream:    [mode, back, centre, top] if coded, or                  *)
(*                 [ajoc, static, lfe]                                     *)
(* groups of a presentation are the indexes of its groups, skip its number *)
(* of skipped bytes, emdf that of added substreams (0: none).              *)
(***************************************************************************)
EXTENDS Integers, Sequences, FiniteSetsExt, SequencesExt, Resync

CONSTANTS
    Streams,        \* the streams that may be met
    MaxPres,        \* presentations a toc may have
    MaxGroups,      \* groups a toc may have
    MaxSubs,        \* substreams a group may have
    Rest            \* what may be read as a group behind the last one

VARIABLES
    es,
    p,          \* parser_ac4_t: pos, n (n_presentations), pres, index
                \* (group_index), maxGroup, total (total_n_substream_groups),
                \* groups, seats (the b_4_back_channels_, b_centre_ and
                \* top_channels_present of a group and substream), ticks,
                \* channels, num (sample_num), dac4 (sizes of the records of
                \* the configuration)
    out,
    status

vars == <<es, p, out, status>>

Cell(i) == es[i + 1]

(* What streams are made of, as far as it matters to finding the frames.    *)
IsStream(s) ==
    /\ Len(s) \in Nat
    /\ \A i \in 1..Len(s) :
        /\ s[i].ac \in BOOLEAN /\ s[i].sync \in BOOLEAN
        /\ s[i].sync =>
             /\ s[i].ac /\ i < Len(s) /\ ~s[i + 1].ac
             /\ s[i].hdr \in Nat \ {0} /\ s[i].len \in Nat /\ s[i].crc \in BOOLEAN
-----------------------------------------------------------------------------
(* superset_channel_mode.                                                   *)
SupersetTable ==
    << <<0,1,2,3,4,5,6,7,8,9,10,11,12,13,14,15>>,
       <<1,1,2,3,4,5,6,7,8,9,10,11,12,13,14,15>>,
       <<2,2,2,3,4,5,6,7,8,9,10,11,12,13,14,15>>,
       <<3,3,3,3,4,5,6,7,8,9,10,11,12,13,14,15>>,
       <<4,4,4,4,4,6,6,8,8,10,10,12,12,14,14,15>>,
       <<5,5,5,5,6,5,6,7,8,9,10,11,12,13,14,15>>,
       <<6,6,6,6,6,6,6,6,8,6,10,12,12,14,14,15>>,
       <<7,7,7,7,8,7,6,7,8,9,10,12,12,13,14,15>>,
       <<8,8,8,8,8,8,8,8,8,8,10,11,12,14,14,15>>,
       <<9,9,9,9,10,9,10,9,9,9,10,11,12,13,14,15>>,
       <<10,10,10,10,10,10,10,10,10,10,10,10,12,13,14,15>>,
       <<11,11,11,11,12,11,12,11,12,11,12,11,13,13,14,15>>,
       <<12,12,12,12,12,12,12,12,12,12,12,12,12,13,14,15>>,
       <<13,13,13,13,14,13,14,13,14,13,14,13,14,13,14,15>>,
       <<14,14,14,14,14,14,14,14,14,14,14,14,14,14,14,15>>,
       <<15,15,15,15,15,15,15,15,15,15,15,15,15,15,15,15>> >>

Superset(a, b) ==
    IF a = -1 \/ a > 15 THEN b
    ELSE IF b = -1 \/ b > 15 THEN a
    ELSE SupersetTable[a + 1][b + 1]

(* chmode_2_channel_mask, as the numbers of the bits set.                   *)
MaskTable ==
    << {1}, {0}, {0, 1}, 0..2, {0, 1, 2, 6}, 0..3, {0, 1, 2, 3, 6}, {0, 1, 2, 17},
       {0, 1, 2, 6, 17}, {0, 1, 2, 18}, {0, 1, 2, 6, 18}, 0..5, 0..6,
       0..5 \cup {16}, 0..6 \cup {16}, (0..15 \ {7}) \cup {17} >>

Immersive == 11..14

(* The groups among the first three of presentation i, in group order, and  *)
(* their substreams one after another.  (q is the parser's state.)          *)
MutOwnGroups(q, i) == [g \in 1..q.total |-> g - 1]

OwnGroups(q, i) ==
    SetToSortSeq({q.index[i][k] : k \in DOMAIN q.index[i] \cap 1..3}, <)

SubstreamsOf(q, i) ==
    FlattenSeq([k \in DOMAIN OwnGroups(q, i) |-> q.groups[OwnGroups(q, i)[k]].subs])

SupersetOf(modes) == FoldLeft(Superset, -1, modes)

(* generate_presentation_ch_mode; -1, kept as 0xff, if there are objects.   *)
PresMode(q, i) ==
    LET subs == SubstreamsOf(q, i)
        mode == SupersetOf([k \in DOMAIN subs |-> subs[k].mode])
    IN  IF \E k \in DOMAIN OwnGroups(q, i) : ~q.groups[OwnGroups(q, i)[k]].coded THEN -1
        ELSE IF mode \in {5, 6} /\ q.pres[i].version = 2 THEN 1
        ELSE mode

(* generate_presentation_ch_mode_core.                                      *)
CoreOf(s) ==
    IF "mode" \in DOMAIN s
    THEN IF s.mode \in {11, 13} THEN 5 ELSE IF s.mode \in {12, 14} THEN 6 ELSE -1
    ELSE IF s.ajoc /\ s.static THEN IF s.lfe THEN 4 ELSE 3 ELSE -1

PresCore(q, i) ==
    LET subs == SubstreamsOf(q, i)
    IN  IF \E k \in DOMAIN subs : "mode" \notin DOMAIN subs[k] /\ CoreOf(subs[k]) = -1
        THEN -1
        ELSE SupersetOf([k \in DOMAIN subs |-> CoreOf(subs[k])])

(* generate_presentation_ch_present: over all groups, not only its own.     *)
Present(q) ==
    {q.seats[gs] : gs \in {x \in DOMAIN q.seats :
                              x[1] < q.total /\ x[2] <= Len(q.groups[x[1]].subs)}}

(* generate_real_channel_mask for a presentation.                           *)
RealMask(q, i) ==
    LET mode == PresMode(q, i)
        top  == Max({0} \cup {s.top : s \in Present(q)})
        kept == MaskTable[mode + 1]
                  \ ((IF \E s \in Present(q) : s.centre THEN {} ELSE {1})
                      \cup (IF \E s \in Present(q) : s.back THEN {} ELSE {3}))
    IN  IF mode \notin Immersive THEN MaskTable[mode + 1]
        ELSE CASE top \in {1, 2} -> (kept \ 4..7) \cup {6, 7}
               [] top = 0 -> (kept \ 4..7) \cup {6}
               [] OTHER -> kept

(* get_channel_count_new: these bits of a mask stand for one channel, the   *)
(* others for two.                                                          *)
Singles == {1, 6, 9, 10, 11, 12, 14, 15}

ChannelCount(q) ==
    IF q.n = 0 THEN 1
    ELSE IF PresMode(q, 0) = -1 THEN 2
    ELSE Cardinality(RealMask(q, 0)) + Cardinality(RealMask(q, 0) \ Singles)
-----------------------------------------------------------------------------
(* get_time_scale at 48 kHz, as a duration in units of 1/240000 second.     *)
Ticks(rate) ==
    CASE rate = 0 -> 10010 [] rate = 1 -> 10000 [] rate = 2 -> 9600
      [] rate = 3 -> 8008 [] rate = 4 -> 8000 [] rate = 5 -> 5005
      [] rate = 6 -> 5000 [] rate = 7 -> 4800 [] rate = 8 -> 4004
      [] rate = 9 -> 4000 [] rate = 10 -> 2400 [] rate = 11 -> 2002
      [] rate = 12 -> 2000 [] rate = 13 -> 10240 [] OTHER -> 0

NoPres == [single |-> FALSE, config |-> 0, version |-> 0, id |-> FALSE, skip |-> 0,
           addEmdf |-> FALSE, emdf |-> 0, count |-> 0, atmos |-> FALSE]

NoSeats == [back |-> FALSE, centre |-> FALSE, top |-> 0]

NoGroup == [coded |-> FALSE, subs |-> << >>, content |-> FALSE, lang |-> 0]

Start(stream) ==
    /\ es = stream /\ out = << >> /\ status = "open"
    /\ p = [pos |-> -1, n |-> 0, pres |-> [i \in 0..(MaxPres - 1) |-> NoPres],
            index |-> [i \in 0..(MaxPres - 1) |-> << >>], maxGroup |-> 0, total |-> 0,
            groups |-> [g \in 0..(MaxGroups - 1) |-> NoGroup],
            seats |-> [gs \in (0..(MaxGroups - 1)) \X (1..MaxSubs) |-> NoSeats], ticks |-> 0,
            channels |-> 0, num |-> 0, dac4 |-> << >>]

Init == \E stream \in Streams : Start(stream)

(* parser_ac4_get_sync.  A byte 0xAC takes the next one with it, even if    *)
(* that one is 0xAC again, of a sync word perhaps.  (Beyond the end of the  *)
(* stream the 0xAC is left in what src_read_u8 returns: no sync word.)      *)
Skipping == {i \in 0..(Len(es) - 1) : Cell(i).ac /\ ~Cell(i).sync}

SyncFrom(pos) == {i \in pos..(Len(es) - 1) : Cell(i).sync /\ Reached(Skipping, pos, i)}

(* parser_ac4_init.                                                         *)
InitParser ==
    /\ p.pos = -1 /\ status = "open"
    /\ IF SyncFrom(0) = {} THEN status' = "eoes" /\ UNCHANGED p
                           ELSE p' = [p EXCEPT !.pos = 0] /\ UNCHANGED status
    /\ UNCHANGED <<es, out>>

(* ac4_presentation_v1_info: which fields are read, the others stay.  Those *)
(* of config 6 and above name no groups.                                    *)
GroupCount(pr) ==
    CASE pr.single \/ pr.config = 1 -> 1
      [] ~pr.single /\ pr.config \in {0, 2, 4} -> 2
      [] ~pr.single /\ pr.config = 3 -> 3
      [] OTHER -> Len(pr.groups)

ReadPresentation(old, pr) ==
    LET base == [old EXCEPT !.single = pr.single, !.version = pr.version,
                            !.config = IF pr.single THEN @ ELSE pr.config]
        body == [base EXCEPT !.id = pr.id, !.addEmdf = pr.emdf > 0,
                    !.count = IF pr.single \/ pr.config < 6 THEN GroupCount(pr) ELSE @,
                    !.skip = IF ~pr.single /\ pr.config > 6 THEN pr.skip ELSE @]
        emdf == IF ~pr.single /\ pr.config = 6 THEN [base EXCEPT !.addEmdf = TRUE] ELSE body
    IN  IF emdf.addEmdf THEN [emdf EXCEPT !.emdf = pr.emdf] ELSE emdf

(* Of several presentations, and in IMS, each must have an id.              *)
Refused(toc) ==
    \/ toc.version <= 1
    \/ \E i \in 1..Len(toc.pres) :
        /\ toc.pres[i].single \/ toc.pres[i].config # 6
        /\ ~toc.pres[i].id
        /\ ~(Len(toc.pres) = 1 /\ toc.pres[i].version # 2)

(* ac4_sgi_specifier: the largest index ever named.                         *)
Named(toc) == UNION {ToSet(toc.pres[i].groups) : i \in 1..Len(toc.pres)}

MaxGroup(toc) == Max(Named(toc) \cup {p.maxGroup})

(* ac4_substream_group_info.  In IMS, a presentation of version 2, 5.0 and  *)
(* 5.1 stand for stereo.                                                    *)
Ims(toc, g) ==
    \E i \in 1..Len(toc.pres) : toc.pres[i].version = 2 /\ toc.pres[i].groups # << >>
                                /\ toc.pres[i].groups[1] = g

ReadGroup(toc, g, group) ==
    IF group.coded /\ Ims(toc, g)
    THEN [group EXCEPT !.subs =
            [k \in DOMAIN @ |-> IF @[k].mode \in {5, 6} THEN [@[k] EXCEPT !.mode = 1] ELSE @[k]]]
    ELSE group

(* Of a substream without height the toc says nothing about its seats.      *)
ReadSeats(group, s, old) ==
    IF group.coded /\ s <= Len(group.subs) /\ group.subs[s].mode \in Immersive
    THEN [back |-> group.subs[s].back, centre |-> group.subs[s].centre,
          top |-> group.subs[s].top]
    ELSE old

Atmos(toc, i, all) ==
    LET pr == toc.pres[i + 1]
        Leads(j) == toc.pres[j].version = 2 /\ toc.pres[j].groups # << >>
                    /\ toc.pres[j].groups[1] = pr.groups[1]
    IN  /\ pr.version = 2 /\ pr.groups # << >> /\ all[pr.groups[1]].coded
        /\ ~\E j \in 1..i : Leads(j)   \* the mode is stereo by then
        /\ \E k \in DOMAIN all[pr.groups[1]].subs : all[pr.groups[1]].subs[k].mode = 6

(* parser_ac4_toc.  As many groups are read as were ever named; behind the  *)
(* groups of the toc comes the substream index table.                       *)
ReadToc(toc, rest) ==
    LET total  == 1 + MaxGroup(toc)
        all    == [g \in 0..(MaxGroups - 1) |->
                     IF g >= total THEN p.groups[g]
                     ELSE IF g < Len(toc.groups) THEN toc.groups[g + 1] ELSE rest]
        pres   == [i \in 0..(MaxPres - 1) |->
                     IF i < Len(toc.pres) THEN ReadPresentation(p.pres[i], toc.pres[i + 1])
                     ELSE p.pres[i]]
    IN  [p EXCEPT !.n = Len(toc.pres), !.maxGroup = MaxGroup(toc), !.total = total,
                  !.index = [i \in 0..(MaxPres - 1) |->
                               IF i < Len(toc.pres) THEN toc.pres[i + 1].groups ELSE << >>],
                  !.groups = [g \in 0..(MaxGroups - 1) |->
                                IF g < total THEN ReadGroup(toc, g, all[g]) ELSE @[g]],
                  !.seats = [gs \in DOMAIN @ |->
                               IF gs[1] < total THEN ReadSeats(all[gs[1]], gs[2], @[gs])
                               ELSE @[gs]],
                  !.pres = [i \in 0..(MaxPres - 1) |->
                              IF i < Len(toc.pres) /\ Atmos(toc, i, all)
                              THEN [pres[i] EXCEPT !.atmos = TRUE] ELSE pres[i]]]
-----------------------------------------------------------------------------
(* parser_ac4_get_sample.  The channels and the times are the first         *)
(* frame's.  Its payload is taken from the toc on, without the CRC.         *)
FrameEnd(i) == i + Cell(i).hdr + Cell(i).len + (IF Cell(i).crc THEN 2 ELSE 0)

Clip(pos) == IF pos > Len(es) THEN Len(es) ELSE pos

EndOfStream ==
    /\ p.pos >= 0 /\ status = "open" /\ SyncFrom(p.pos) = {}
    /\ status' = "eoes"
    /\ UNCHANGED <<es, p, out>>

TocError ==
    /\ p.pos >= 0 /\ status = "open" /\ SyncFrom(p.pos) # {}
    /\ Refused(Cell(Min(SyncFrom(p.pos))).toc)
    /\ status' = "es error"
    /\ UNCHANGED <<es, p, out>>

Sample(i, ticks) ==
    [dts |-> IF out = << >> THEN 0 ELSE Last(out).dts + ticks, duration |-> ticks,
     size |-> Cell(i).len, head |-> i, at |-> i + Cell(i).hdr,
     sync |-> Cell(i).toc.iframe, newSd |-> p.num = 0]

GetSample ==
    /\ p.pos >= 0 /\ status = "open" /\ SyncFrom(p.pos) # {}
    /\ LET i == Min(SyncFrom(p.pos))
           ticks == IF p.num = 0 THEN Ticks(Cell(i).toc.rate) ELSE p.ticks
       IN  /\ ~Refused(Cell(i).toc)
           /\ \E rest \in Rest :
                LET q == ReadToc(Cell(i).toc, rest)
                IN  p' = [q EXCEPT !.pos = Clip(FrameEnd(i)), !.ticks = ticks, !.num = @ + 1,
                                   !.channels = IF p.num = 0 THEN ChannelCount(q) ELSE @]
           /\ out' = Append(out, Sample(i, ticks))
    /\ UNCHANGED <<es, status>>

-----------------------------------------------------------------------------
(* The dac4 box.  Of each presentation the size is computed first, and then *)
(* counted anew as it is written.  ac4_substream_group_dsi:                 *)
SubstreamBits(s) ==
    IF "mode" \in DOMAIN s THEN <<2, 1, 24>>
    ELSE <<2, 1, 1>> \o (IF ~s.ajoc THEN << >>
                         ELSE IF s.static THEN <<1, 6>> ELSE <<1, 4, 6>>) \o <<4>>

MutContentBits(g) == (IF g.content THEN <<1, 3, 1>> ELSE <<1>>) \o [k \in 1..g.lang |-> 8]

ContentBits(g) ==
    IF ~g.content THEN <<1>>
    ELSE <<1, 3, 1>> \o (IF g.lang = 0 THEN << >> ELSE <<6>> \o [k \in 1..g.lang |-> 8])

GroupBits(g) ==
    <<1, 1, 1, 8>> \o FlattenSeq([k \in 1..Len(g.subs) |-> SubstreamBits(g.subs[k])])
                   \o ContentBits(g)

SumUp(s) == FoldLeft(+, 0, s)

(* calc_ac4_substream_group_dsi.                                            *)
CalcGroup(g) ==
    11 + SumUp([k \in 1..Len(g.subs) |->
                  3 + (IF g.coded THEN 24
                       ELSE 1 + (IF g.subs[k].ajoc
                                 THEN 1 + (IF g.subs[k].static THEN 0 ELSE 4) + 6 ELSE 0) + 4)])
       + 1 + (IF ~g.content THEN 0 ELSE 4 + (IF g.lang = 0 THEN 0 ELSE 6 + 8 * g.lang))

(* The groups a presentation is written with.                               *)
GroupsWritten(i) ==
    LET pr == p.pres[i]
        n  == IF pr.single THEN 1 ELSE IF pr.config < 3 THEN 2 ELSE IF pr.config < 5 THEN 3
              ELSE IF pr.config = 5 THEN pr.count ELSE 0
    IN  [k \in 1..n |-> p.groups[p.index[i][k]]]

EmdfOf(i) == IF p.pres[i].addEmdf \/ p.pres[i].config = 6 THEN p.pres[i].emdf ELSE -1

Aligned(bits) == ((bits + 7) \div 8) * 8

(* calc_presentation_v1_dsi.                                                *)
CalcV1(i) ==
    LET pr == p.pres[i]
        mode == PresMode(p, i)
        own == SumUp([k \in DOMAIN GroupsWritten(i) |-> CalcGroup(GroupsWritten(i)[k])])
        multi == IF pr.single THEN 0
                 ELSE 1 + (IF pr.config = 5 THEN 3 ELSE IF pr.config > 6 THEN 7 + 8 * pr.skip ELSE 0)
        body == 4 + (IF pr.id THEN 5 ELSE 0) + 20
                  + (IF mode = -1 THEN 0 ELSE 29 + (IF mode \in Immersive THEN 3 ELSE 0))
                  + 1 + (IF PresCore(p, i) = -1 THEN 0 ELSE 3) + 1 + own + multi + 2
    IN  Aligned(5 + (IF pr.config = 6 THEN 0 ELSE body)
                  + (IF EmdfOf(i) < 0 THEN 0 ELSE 7 + 15 * EmdfOf(i)) + 2) + 8

(* presentation_v1_dsi: the widths of the fields written.                   *)
ModeFields(i) ==
    LET mode == PresMode(p, i)
    IN  IF mode = -1 THEN << >>
        ELSE <<5>> \o (IF mode \in Immersive THEN <<1, 2>> ELSE << >>) \o <<24>>

ConfigFields(i) ==
    LET pr == p.pres[i]
    IN  IF pr.single THEN << >>
        ELSE <<1>> \o (IF pr.config = 5 THEN <<3>> ELSE IF pr.config > 6
                       THEN <<7>> \o [k \in 1..pr.skip |-> 8] ELSE << >>)

EmdfFields(i) ==
    IF EmdfOf(i) < 0 THEN << >>
    ELSE <<7>> \o [k \in 1..(2 * EmdfOf(i)) |-> IF k % 2 = 1 THEN 5 ELSE 10]

V1Fields(i) ==
    LET pr == p.pres[i]
        body == <<3, 1>> \o (IF pr.id THEN <<5>> ELSE << >>) \o <<2, 2, 5, 10, 1>>
                \o ModeFields(i) \o <<1>> \o (IF PresCore(p, i) = -1 THEN << >> ELSE <<1, 2>>)
                \o <<1>> \o ConfigFields(i)
                \o FlattenSeq([k \in DOMAIN GroupsWritten(i) |-> GroupBits(GroupsWritten(i)[k])])
                \o <<1, 1>>
        all == <<5>> \o (IF pr.config = 6 THEN << >> ELSE body) \o EmdfFields(i) \o <<1, 1>>
    IN  all \o <<Aligned(SumUp(all)) - SumUp(all), 1, 1, 6>>

(* Version 0.  The toc of a stream the parser accepts has no such           *)
(* substreams: their fields are as parser_ac4_create leaves them, with no   *)
(* bit rate and no content, and with the channel mode 0xff, which has an    *)
(* add_ch_base in either function.                                          *)
V0Substreams(config) == IF config < 3 THEN 2 ELSE IF config < 5 THEN 3 ELSE 1

SubstreamV0 == <<5, 2, 1, 1, 1>>

CalcSubstreamV0 == 8 + 1 + 1

CalcV0(i) ==
    LET pr == p.pres[i]
        subs == IF pr.config < 6 THEN CalcSubstreamV0 * V0Substreams(pr.config)
                ELSE 7 + 8 * pr.skip
    IN  Aligned(5 + (IF pr.config = 6 THEN 0
                     ELSE 4 + (IF pr.id THEN 5 ELSE 0) + 41 + 1 + subs + 2)
                  + (IF pr.addEmdf THEN 7 + 15 * pr.emdf ELSE 0))

V0Fields(i) ==
    LET pr == p.pres[i]
        subs == IF pr.config < 6
                THEN FlattenSeq([k \in 1..V0Substreams(pr.config) |-> SubstreamV0])
                ELSE <<7>> \o [k \in 1..pr.skip |-> 8]
        all == <<5>> \o (IF pr.config = 6 THEN << >>
                         ELSE <<3, 1>> \o (IF pr.id THEN <<5>> ELSE << >>)
                              \o <<2, 5, 10, 24, 1>> \o subs \o <<1, 1>>)
                     \o EmdfFields(i)
    IN  Append(all, Aligned(SumUp(all)) - SumUp(all))

(* A record of dac4: the size that is written ahead of it (pre_calc_bytes)  *)
(* and its bytes.  The record of a later version is not written.            *)
RecordOf(i) ==
    LET version == p.pres[i].version
    IN  [ahead |-> (IF version = 0 THEN CalcV0(i) ELSE CalcV1(i)) \div 8,
         bytes |-> (CASE version = 0 -> SumUp(V0Fields(i))
                      [] version \in {1, 2} -> SumUp(V1Fields(i))
                      [] OTHER -> 0) \div 8,
         version |-> version]

(* In IMS it is written once more, for version 1.                           *)
RecordsOf(i) ==
    IF p.pres[i].version = 2
    THEN << RecordOf(i), [RecordOf(i) EXCEPT !.version = 1] >>
    ELSE << RecordOf(i) >>

(* parser_ac4_get_mp4_cfg.                                                  *)
GetMp4Cfg ==
    /\ status = "eoes" /\ p.num > 0
    /\ status' = "configured"
    /\ p' = [p EXCEPT !.dac4 = FlattenSeq([i \in 1..p.n |-> RecordsOf(i - 1)])]
    /\ UNCHANGED <<es, out>>

Next == InitParser \/ EndOfStream \/ TocError \/ GetSample \/ GetMp4Cfg

Spec == Init /\ [][Next]_vars
-----------------------------------------------------------------------------
TypeOK ==
    /\ p.pos \in -1..Len(es)
    /\ status \in {"open", "eoes", "es error", "configured"}

(* Each sample is what follows a sync word and as long as the frame says,   *)
(* the samples do not overlap, and a sync word begins a frame or lies       *)
(* within one (and its CRC), unless it follows a 0xAC of no sync word.      *)
FramesAreSamples ==
    /\ \A k \in 1..Len(out) :
        LET h == out[k].head
        IN  /\ Cell(h).sync /\ out[k].at = h + Cell(h).hdr /\ out[k].size = Cell(h).len
            /\ k > 1 => h >= FrameEnd(out[k - 1].head)
    /\ status = "eoes" => \A i \in 0..(Len(es) - 1) : Cell(i).sync =>
        \/ \E k \in 1..Len(out) : out[k].head <= i /\ i < FrameEnd(out[k].head)
        \/ i - 1 \in Skipping

(* After each frame the channel mode of a presentation is that of the       *)
(* groups this frame's toc names, whatever earlier frames had, and in       *)
(* whatever order they are taken.                                           *)
LastToc == Cell(Last(out).head).toc

ModesOfOwnGroups ==
    out # << >> => \A i \in 1..Len(LastToc.pres) :
        LET pr   == LastToc.pres[i]
            mine == [k \in 1..Len(pr.groups) |-> LastToc.groups[pr.groups[k] + 1]]
            subs == FlattenSeq([k \in 1..Len(mine) |-> mine[k].subs])
            mode == SupersetOf([k \in 1..Len(subs) |-> subs[Len(subs) + 1 - k].mode])
        IN  PresMode(p, i - 1) =
              IF \E k \in 1..Len(mine) : ~mine[k].coded THEN -1
              ELSE IF mode \in {5, 6} /\ \E j \in 1..Len(LastToc.pres) :
                        /\ LastToc.pres[j].version = 2 /\ pr.groups # << >>
                        /\ LastToc.pres[j].groups[1] \in ToSet(pr.groups)
                   THEN PresMode(p, i - 1)
              ELSE mode

(* The records of dac4 are as long as is written ahead of them, for the     *)
(* versions 1 and 2, and for 0 unless it is left with the config 6.         *)
ConfigSizesAgree ==
    \A k \in 1..Len(p.dac4) :
        p.dac4[k].version \in {1, 2} \/ (p.dac4[k].version = 0 /\ \A i \in 0..(p.n - 1) : p.pres[i].config # 6)
            => p.dac4[k].ahead = p.dac4[k].bytes
=============================================================================
