----------------------------- MODULE MCParsers ------------------------------
(* The parsers, one of which runs on a stream of its kind, or the AAC       *)
(* configuration.  Streams are put together from units each parser treats   *)
(* in its own way.                                                          *)
EXTENDS Parsers, SequencesExt

Cat(S, T) == {s \o t : s \in S, t \in T}
Seqs(S, lens) == UNION {[1..n -> S] : n \in lens}
-----------------------------------------------------------------------------
(* AAC: headers of two bytes, and bytes of no sync word.  A header whose    *)
(* second byte is left out is followed by a byte 0xFF, or by nothing.       *)
Cfg(sfi, channels) == [profile |-> 1, sfi |-> sfi, channels |-> channels]
AacByte(ff) ==
    [ff |-> ff, sync |-> FALSE, hdr |-> 1, len |-> 0, blocks |-> 0, past |-> FALSE,
     cfg |-> Cfg(0, 0)]
Adts(c, len, blocks, past) ==
    [ff |-> TRUE, sync |-> TRUE, hdr |-> 2, len |-> len, blocks |-> blocks, past |-> past,
     cfg |-> c]
Whole(header) == <<header, AacByte(FALSE)>>
AacUnits ==
    {<<AacByte(FALSE)>>, <<AacByte(TRUE)>>, <<Adts(Cfg(0, 2), 0, 0, FALSE)>>,
     <<Adts(Cfg(0, 2), 3, 0, TRUE)>>}
    \union {Whole(Adts(Cfg(0, 2), len, 0, FALSE)) : len \in {-1, 0, 1, 3}}
    \union {Whole(Adts(Cfg(1, 2), 1, 0, FALSE)), Whole(Adts(Cfg(0, 0), 1, 0, FALSE)),
            Whole(Adts(Cfg(0, 7), 0, 0, FALSE)), Whole(Adts(Cfg(0, 2), 1, 1, FALSE)),
            Whole(Adts(Cfg(0, 2), 9, 0, TRUE))}
AacFewUnits ==
    {<<AacByte(FALSE)>>, <<AacByte(TRUE)>>, <<Adts(Cfg(0, 2), 2, 0, FALSE)>>,
     Whole(Adts(Cfg(0, 2), 1, 0, FALSE)), Whole(Adts(Cfg(0, 0), 2, 0, FALSE))}
AacBytes(units, lens) == {FlattenSeq(u) : u \in Seqs(units, lens)}

Bytes == INSTANCE ParserAac WITH Streams <- {}

MCAacStreams ==
    {s \in AacBytes(AacUnits, 0..3) \union AacBytes(AacFewUnits, 4..5) : Bytes!IsStream(s)}

AscBase ==
    [aot |-> 2, aot2 |-> 0, sfi |-> 3, channels |-> 2, sbrSfi |-> 0, extAot |-> 0,
     hasSbr |-> FALSE, hasPs |-> FALSE, haveSbr |-> FALSE, havePs |-> FALSE,
     coreDelay |-> FALSE, extension |-> FALSE, elements |-> 0, lfe |-> 0, comment |-> 0,
     mono |-> FALSE]
AscSbr == [AscBase EXCEPT !.extAot = 5, !.hasSbr = TRUE, !.haveSbr = TRUE, !.sbrSfi = 3]
Ascs ==
    {AscBase, AscSbr, [AscSbr EXCEPT !.havePs = TRUE, !.hasPs = TRUE],
     [AscSbr EXCEPT !.hasSbr = FALSE],
     [AscBase EXCEPT !.channels = 0, !.elements = 2, !.lfe = 1, !.comment = 1],
     [AscBase EXCEPT !.aot = 22, !.extension = TRUE]}
    \union {[AscBase EXCEPT !.aot = a, !.aot2 = 2, !.hasSbr = TRUE, !.hasPs = (a = 29), !.sbrSfi = f] :
              a \in {5, 29}, f \in {3, 15}}
-----------------------------------------------------------------------------
(* AC-3 and E-AC-3: frames of six or of three blocks, cut short or not.     *)
DdUnit(t, id, blks, ok) == [t |-> t, id |-> id, blks |-> blks, ok |-> ok]
DdUnits(blks) ==
    {DdUnit(t, id, blks, TRUE) : t \in {"ind", "dep"}, id \in 0..1}
    \union {DdUnit("junk", 0, blks, TRUE)}
    \union IF blks < 6 THEN {} ELSE {DdUnit("ac3", 0, 6, ok) : ok \in BOOLEAN}
MCDdStreams ==
    UNION {{[units |-> s, cut |-> c] :
              s \in Seqs(DdUnits(blks), 0..4), c \in {"none", "header", "payload"}} :
           blks \in {3, 6}}
-----------------------------------------------------------------------------
(* AC-4: contents tables with each kind of presentation and substream.      *)
Coded(m) == [mode |-> m, back |-> TRUE, centre |-> FALSE, top |-> 1]
Group(modes) ==
    [coded |-> TRUE, subs |-> [i \in 1..Len(modes) |-> Coded(modes[i])],
     content |-> FALSE, lang |-> 0]
Objects(ajoc, static, content, lang) ==
    [coded |-> FALSE, subs |-> <<[ajoc |-> ajoc, static |-> static, lfe |-> TRUE]>>,
     content |-> content, lang |-> lang]
Pres(config, version, id, groups, skip, emdf) ==
    [single |-> FALSE, config |-> config, version |-> version, id |-> id, groups |-> groups,
     skip |-> skip, emdf |-> emdf]
OneGroup(version, id, group) ==
    [Pres(0, version, id, <<group>>, 0, 0) EXCEPT !.single = TRUE]
Toc(pres, groups) ==
    [version |-> 2, rate |-> 3, iframe |-> TRUE, pres |-> pres, groups |-> groups]

Tocs ==
    {Toc(<<OneGroup(1, TRUE, 0)>>, <<Group(<<2, 4>>)>>),
     Toc(<<OneGroup(2, TRUE, 0)>>, <<Group(<<6>>)>>),
     Toc(<<OneGroup(0, TRUE, 0)>>, <<Group(<<3>>)>>),
     Toc(<<OneGroup(3, TRUE, 0)>>, <<Group(<<3>>)>>),
     Toc(<<OneGroup(1, FALSE, 0)>>, <<Group(<<12>>)>>),
     Toc(<<OneGroup(2, FALSE, 0)>>, <<Group(<<2>>)>>),
     Toc(<<OneGroup(1, TRUE, 1), Pres(0, 1, TRUE, <<0, 1>>, 0, 2)>>, <<Group(<<1>>), Group(<<0, 5>>)>>),
     Toc(<<Pres(3, 1, TRUE, <<2, 0, 1>>, 0, 0)>>,
         <<Group(<<1>>), Objects(TRUE, FALSE, TRUE, 2), Group(<<1>>)>>),
     Toc(<<Pres(5, 1, TRUE, <<0, 1>>, 0, 0)>>,
         <<Objects(TRUE, TRUE, TRUE, 0), Objects(FALSE, FALSE, FALSE, 2)>>),
     Toc(<<Pres(6, 0, TRUE, << >>, 0, 1)>>, <<Group(<<1>>)>>),
     Toc(<<Pres(7, 1, TRUE, << >>, 2, 1)>>, <<Group(<<1>>)>>),
     Toc(<< >>, <<Group(<<2>>)>>)}

Ac4Byte(ac) == [ac |-> ac, sync |-> FALSE]
Ac4Header(toc, len, crc) ==
    <<[ac |-> TRUE, sync |-> TRUE, hdr |-> 2, toc |-> toc, len |-> len, crc |-> crc],
      Ac4Byte(FALSE)>>
Ac4Junk == Ac4Byte(FALSE)
StereoToc == Toc(<<OneGroup(1, TRUE, 0)>>, <<Group(<<2, 4>>)>>)
Ac4Frames ==
    {Append(Ac4Header(t, 1, FALSE), Ac4Junk) : t \in Tocs}
    \union {Ac4Header(StereoToc, 3, TRUE) \o Ac4Header(StereoToc, 0, FALSE) \o <<Ac4Junk>>,
            <<Ac4Junk>>, <<Ac4Byte(TRUE)>>,
            Ac4Header(Toc(<<OneGroup(2, TRUE, 0)>>, <<Group(<<6>>)>>), 2, TRUE)}

MCAc4Streams == {FlattenSeq(f) : f \in Seqs(Ac4Frames, 0..3)}
MCRest == {[coded |-> FALSE, subs |-> << >>, content |-> FALSE, lang |-> 0], Group(<<13>>)}
-----------------------------------------------------------------------------
(* AVC and HEVC: up to three access units, each with sets, messages and     *)
(* delimiters before the picture and the NALs that may follow it.           *)
N(t) == [t |-> t]
Pps(id, c) == [t |-> "pps", id |-> id, c |-> c, sps |-> 0]
Sps(id, c) == [t |-> "sps", id |-> id, c |-> c]
Sei(msgs, zeros) == [t |-> "sei", msgs |-> msgs, c |-> 0, zeros |-> zeros]
Slice(pic, pps, red) == [t |-> "slice", pic |-> pic, pps |-> pps, red |-> red]
IdrSlice(pic) == [t |-> "idr", pic |-> pic, pps |-> 0, red |-> FALSE]

AvcFirst ==
    {<<N("aud"), Sps(0, 1), Pps(0, 1)>>,
     <<Sps(0, 1), Pps(0, 1), Pps(1, 1), Sei(<<"bp">>, 0)>>,
     <<N("aud"), Sps(0, 1), [t |-> "spsext", id |-> 0, c |-> 1], Pps(0, 1)>>,
     <<Sps(0, 1), Pps(0, 1), Pps(0, 2)>>,
     <<Sps(0, 1)>>}
AvcHeads ==
    {<< >>, <<N("aud")>>, <<Sei(<<"keep">>, 0)>>, <<N("aud"), Pps(0, 2)>>,
     <<Sps(0, 2), Pps(0, 1)>>, <<Pps(1, 2)>>, <<N("aud"), Sei(<<"drop">>, 0)>>,
     <<N("aud"), Sei(<<"drop", "bp">>, 1)>>}
AvcBodies(k) ==
    {<<IdrSlice(k)>>, <<Slice(k, 0, FALSE), Slice(k, 0, FALSE)>>,
     <<Slice(k, 0, FALSE), Slice(k, 0, TRUE), N("rpu")>>,
     <<Slice(k, 1, FALSE), N("filler")>>}
AvcOdd(k) ==
    {<<N("prefix"), Slice(k, 0, FALSE)>>, <<IdrSlice(k), N("eos")>>,
     <<Slice(k, 0, FALSE), N("vdrd"), [t |-> "subset", id |-> 1, c |-> 2], N("viewslice")>>,
     <<Slice(k, 0, FALSE), N("vdrd"), Pps(1, 2), N("viewslice")>>,
     <<Slice(k, 0, FALSE), [t |-> "subset", id |-> 1, c |-> 1]>>}
AvcUnits(heads, k) == Cat(heads, AvcBodies(k) \union AvcOdd(k))
AvcNals ==
    AvcUnits(AvcFirst, 1)
    \union Cat(AvcUnits(AvcFirst, 1), AvcUnits(AvcHeads, 2))
    \union Cat(Cat(Cat(AvcFirst, {<<IdrSlice(1)>>}), Cat(AvcHeads, AvcBodies(2))),
               Cat(AvcHeads, AvcBodies(3)))
(* In the samples, several descriptions: no, yes; yes, yes; no, no.         *)
SetOptions == {<<FALSE, TRUE>>, <<TRUE, TRUE>>, <<FALSE, FALSE>>}

MCAvcStreams == {[nals |-> s, avc3 |-> o[1], sd |-> o[2]] : s \in AvcNals, o \in SetOptions}
MCTicks == [c \in 0..2 |-> 1]

El(inner, c) == [t |-> "el", inner |-> inner, c |-> c]
Vps(c) == [t |-> "vps", c |-> c]
Hevc1(t, poc) == [t |-> t, poc |-> poc, tid |-> 0, pps |-> 0, first |-> TRUE, dep |-> FALSE]
HevcSets == <<Vps(1), Sps(0, 1), Pps(0, 1)>>
HevcFirst ==
    {<<N("aud")>> \o HevcSets, HevcSets \o <<Pps(1, 1), N("sei")>>,
     HevcSets \o <<Pps(0, 2), El("sps", 1)>>, <<Vps(1), Sps(1, 1), Pps(0, 1)>>}
HevcHeads ==
    {<< >>, <<N("aud")>>, <<N("sei"), Pps(0, 2)>>, <<N("aud"), Vps(2), Sps(0, 2)>>,
     <<Pps(1, 2)>>, <<N("aud"), Pps(1, 2)>>, <<El("sps", 2), El("slice", 1)>>}
HevcTails ==
    {<< >>, <<N("filler")>>, <<N("suffix")>>, <<N("rpu"), N("eos")>>,
     <<[Hevc1("trail_n", 0) EXCEPT !.first = FALSE, !.dep = TRUE]>>}
UpperPps(n) == [n EXCEPT !.pps = 1]
HevcNals ==
    Cat(Cat(HevcFirst, {<<Hevc1("idr_n_lp", 0)>>, <<Hevc1("cra", 1)>>,
                        <<UpperPps(Hevc1("idr_w_radl", 0))>>}), HevcTails)
    \union Cat(Cat(Cat(HevcFirst, {<<Hevc1("cra", 1)>>}), HevcTails),
               Cat(HevcHeads,
                   {<<Hevc1("idr_w_radl", 0)>>, <<Hevc1("trail_r", 1)>>, <<Hevc1("bla_n_lp", 2)>>,
                    <<[UpperPps(Hevc1("trail_n", 1)) EXCEPT !.tid = 1]>>}))
    \union Cat(Cat(Cat(HevcFirst, {<<Hevc1("idr_n_lp", 0)>>}),
                   Cat(HevcHeads, {<<Hevc1("trail_r", 1)>>})),
               Cat(HevcHeads, {<<UpperPps(Hevc1("trail_n", 2))>>}))

(* Picture orders: any of a few pictures, and long pyramids whose order     *)
(* counts wrap around, a second sequence after them or not.                 *)
Pictures ==
    {Hevc1("trail_r", c) : c \in 1..5} \union {Hevc1("trail_n", 1), Hevc1("trail_n", 3)}
    \union {Hevc1("rasl_r", 2), Hevc1("cra", 3), Hevc1("idr_n_lp", 0)}
Short ==
    {s \in Seqs(Pictures, 1..4) :
        \/ Cardinality({s[i].poc : i \in DOMAIN s}) = Len(s)
        \/ Len(s) = 3 /\ s[2].t = "idr_n_lp"}
Pyramid(r, n) ==
    <<Hevc1("trail_r", 2), Hevc1(n, 1), Hevc1(r, 4), Hevc1(n, 3), Hevc1("trail_r", 6),
      Hevc1(n, 5), Hevc1(r, 8), Hevc1(n, 7), Hevc1("trail_r", 10), Hevc1(n, 9)>>
Long ==
    {SubSeq(Pyramid(r, n), 1, k) :
        r \in {"trail_r", "cra"}, n \in {"trail_n", "rasl_r", "radl_r"}, k \in 5..10}
NextSequence == <<Hevc1("idr_n_lp", 0), Hevc1("trail_r", 2), Hevc1("trail_n", 1)>>
Orders == Short \union Long \union Cat(Long, {NextSequence})

PlainTiming == [forced |-> FALSE, user |-> 1, vui |-> 0, vps |-> 0]
Timings ==
    {[PlainTiming EXCEPT !.vui = 2], [PlainTiming EXCEPT !.vui = 2, !.vps = 3],
     [PlainTiming EXCEPT !.vui = 2, !.forced = TRUE]}
HevcStream(nals, o, t, least) ==
    [nals |-> nals, hev1 |-> o[1], sd |-> o[2], timing |-> t, least |-> least]
MCHevcStreams ==
    {HevcStream(s, o, PlainTiming, 0) : s \in HevcNals, o \in SetOptions}
    \union {HevcStream(HevcSets \o <<Hevc1("idr_w_radl", 0)>> \o s, <<FALSE, TRUE>>, PlainTiming, 0) :
              s \in Orders}
    \union {HevcStream(HevcSets \o NextSequence, <<FALSE, TRUE>>, t, l) :
              t \in Timings \union {PlainTiming}, l \in {0, -5}}
=============================================================================
