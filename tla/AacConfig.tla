----------------------------- MODULE AacConfig ------------------------------
(***************************************************************************)
(* The AudioSpecificConfig of an AAC stream in parser_aac.c: reading one   *)
(* (parser_aac_codec_config), adjusting it, and writing it for 'esds'      *)
(* (parser_aac_write_binary_dsis).                                         *)
(*                                                                         *)
(* A configuration on the wire is the sequence of its fields, each with    *)
(* its width in bits.  The writer and the reader decide which fields there *)
(* are, each from the values it has so far.                                *)
(***************************************************************************)
EXTENDS Integers, Sequences, FiniteSetsExt, SequencesExt

CONSTANTS
    Configs,        \* configurations users set from outside (set_asc)
    FreqIndexes     \* places of frequencies in sfi_2_freq_tbl, 15: not in it;
                    \* not 2, 64 kHz, twice of which is no AAC rate

VARIABLES
    dsi,            \* mp4_dsi_aac_t
    mode,           \* the signaling mode chosen last; "none" after a change
    cfg             \* the fields written last

vars == <<dsi, mode, cfg>>

LC == 2     \* AOT_AAC_LC
SBR == 5    \* AOT_SBR
PS == 29    \* AOT_PS
BSAC == 22  \* AOT_ER_BSAC
Scalable == {6, 20}
Resilient == {17, 19, 20, 23}

F(name, width) == << [name |-> name, width |-> width] >>

If(c, fields) == IF c THEN fields ELSE << >>

Bits(fields) == FoldLeft(LAMBDA n, f : n + f.width, 0, fields)

Named(name, fields) == \E i \in 1..Len(fields) : fields[i].name = name
-----------------------------------------------------------------------------
(* An object type above 30 is escaped, a frequency not in the table spelt   *)
(* out.                                                                     *)
ObjectType(name, aot) == F(name, IF aot > 31 THEN 11 ELSE 5)

Frequency(name, index) == F(name, IF index = 15 THEN 28 ELSE 4)

Hierarchical(d) == d.aot \in {SBR, PS}

CoreType(d) == IF Hierarchical(d) THEN d.aot2 ELSE d.aot

(* What both begin with.                                                    *)
CommonStart(d) ==
    ObjectType("aot", d.aot) \o Frequency("sfi", d.sfi) \o F("channels", 4)
    \o If(Hierarchical(d), Frequency("sbrSfi", d.sbrSfi) \o ObjectType("aot2", d.aot2)
                           \o If(d.aot2 = BSAC, F("extChannels", 4)))
    \o F("frameLength", 1) \o F("dependsOnCore", 1)
    \o If(d.coreDelay, F("coreDelay", 14)) \o F("extension", 1)

(* The program configuration, up to its last element.                       *)
Elements(d) ==
    F("pceHeader", 4 + 2 + 4 + 4 + 4 + 4 + 2 + 3 + 4)
    \o F("mono", 1) \o If(d.mono, F("monoElement", 4)) \o F("stereo", 1) \o F("matrix", 1)
    \o F("channelElements", 5 * d.elements) \o F("lfe", 4 * d.lfe)

ToByte(n) == (8 - (n % 8)) % 8

Padding(fields) == F("padding", ToByte(Bits(fields)))

(* parser_aac_write_binary_dsis: the length of the comment is not written.  *)
SbrExtension(d) ==
    If(~Hierarchical(d) /\ d.haveSbr,
       F("sync2b7", 11) \o ObjectType("extAot", d.extAot)
       \o If(d.extAot = SBR,
             F("hasSbr", 1) \o If(d.hasSbr, Frequency("sbrSfi", d.sbrSfi))
             \o If(d.havePs, F("sync548", 11) \o F("hasPs", 1)))
       \o If(d.extAot = BSAC,
             F("hasSbr", 1) \o If(d.hasSbr, Frequency("sbrSfi", d.sbrSfi))
             \o F("extChannels", 4)))

Comment(d) == F("comment", 8 * d.comment)

Written(d) ==
    LET start == CommonStart(d) \o If(d.channels = 0, Elements(d))
        whole == start \o If(d.channels = 0, Padding(start) \o Comment(d)) \o SbrExtension(d)
    IN  whole \o Padding(whole)

(* parser_aac_codec_config, of total bits.  The end of the data is seen     *)
(* only between bytes.                                                      *)
MoreBytes(fields, total) == Bits(fields) + ToByte(Bits(fields)) < total

ReadPs(d, before, total) ==
    If(MoreBytes(before, total), F("sync548", 11) \o F("hasPs", 1))

ReadSbrExtension(d, before, total) ==
    LET sbr == before \o F("sync2b7", 11) \o ObjectType("extAot", d.extAot)
                      \o F("hasSbr", 1) \o If(d.hasSbr, Frequency("sbrSfi", d.sbrSfi))
    IN  IF Hierarchical(d) \/ ~MoreBytes(before, total) THEN before
        ELSE CASE d.extAot = SBR  -> sbr \o If(d.hasSbr, ReadPs(d, sbr, total))
               [] d.extAot = BSAC -> sbr \o F("extChannels", 4)
               [] OTHER -> before \o F("sync2b7", 11) \o ObjectType("extAot", d.extAot)

Read(d, total) ==
    LET start == CommonStart(d) \o If(d.channels = 0, Elements(d))
        pce   == start \o If(d.channels = 0,
                             Padding(start) \o F("commentLength", 8) \o Comment(d))
        core  == CoreType(d)
        whole == pce \o If(core \in Scalable, F("layerNr", 3))
                     \o If(d.extension,
                           If(core = BSAC, F("subFrames", 16))
                           \o If(core \in Resilient, F("resilience", 3))
                           \o F("extension3", 1))
    IN  ReadSbrExtension(d, whole, total)
-----------------------------------------------------------------------------
NoConfig ==
    [aot |-> LC, aot2 |-> 0, sfi |-> 3, channels |-> 2, sbrSfi |-> 0, extAot |-> 0,
     hasSbr |-> FALSE, hasPs |-> FALSE, haveSbr |-> FALSE, havePs |-> FALSE,
     coreDelay |-> FALSE, extension |-> FALSE, elements |-> 0, lfe |-> 0, comment |-> 0,
     mono |-> FALSE]

Init == dsi = NoConfig /\ mode = "none" /\ cfg = << >>

(* parser_aac_set_asc: the fields that are read are stored, the others keep *)
(* what they had; any byte that is left counts as an SBR extension.         *)
SetAsc(asc) ==
    /\ cfg = << >>
    /\ LET fields == Read(asc, Bits(Written(asc)))
           Take(name, new, old) == IF Named(name, fields) THEN new ELSE old
       IN dsi' = [asc EXCEPT
             !.aot2    = Take("aot2", asc.aot2, dsi.aot2),
             !.sbrSfi  = Take("sbrSfi", asc.sbrSfi, dsi.sbrSfi),
             !.extAot  = Take("extAot", asc.extAot, dsi.extAot),
             !.hasSbr  = IF Hierarchical(asc) THEN TRUE ELSE Take("hasSbr", asc.hasSbr, dsi.hasSbr),
             !.hasPs   = IF asc.aot = PS THEN TRUE ELSE Take("hasPs", asc.hasPs, dsi.hasPs),
             !.haveSbr = dsi.haveSbr \/ Named("sync2b7", fields),
             !.havePs  = dsi.havePs \/ Named("sync548", fields)]
    /\ mode' = "none"
    /\ UNCHANGED cfg

(* parser_aac_set_config.                                                   *)
SetConfig(idx, sbr, ps) ==
    /\ cfg = << >>
    /\ dsi' = [dsi EXCEPT
         !.hasSbr = sbr, !.haveSbr = sbr, !.hasPs = ps, !.havePs = ps,
         !.sbrSfi = IF sbr THEN (idx - 3) % 256 ELSE @,
         !.extAot = IF ps THEN PS ELSE IF sbr THEN SBR ELSE @]
    /\ mode' = "none"
    /\ UNCHANGED cfg

(* parser_aac_set_signaling_mode.                                           *)
TypeFor(m) ==
    CASE m = "PS_NBC" /\ dsi.hasPs -> PS
      [] m \in {"SBR_NBC", "PS_NBC"} /\ ~(m = "PS_NBC" /\ dsi.hasPs) /\ dsi.hasSbr -> SBR
      [] OTHER -> LC

SetSignalingMode(m) ==
    /\ cfg = << >>
    /\ dsi' = [dsi EXCEPT
         !.aot     = TypeFor(m),
         !.aot2    = IF m \in {"SBR_NBC", "PS_NBC"} THEN LC ELSE @,
         !.extAot  = IF m \in {"SBR_BC", "PS_BC"} THEN SBR ELSE @,
         !.haveSbr = IF m \in {"SBR_BC", "PS_BC"} THEN TRUE
                     ELSE IF m = "IMPLICIT" THEN FALSE ELSE @,
         !.havePs  = IF m \in {"SBR_BC", "PS_BC"} THEN m = "PS_BC"
                     ELSE IF m = "IMPLICIT" THEN FALSE ELSE @]
    /\ mode' = m
    /\ UNCHANGED cfg

(* parser_aac_get_mp4_cfg.                                                  *)
GetMp4Cfg ==
    /\ cfg' = Written(dsi)
    /\ UNCHANGED <<dsi, mode>>

Modes == {"IMPLICIT", "SBR_BC", "SBR_NBC", "PS_BC", "PS_NBC"}

Next ==
    \/ \E asc \in Configs : SetAsc(asc)
    \/ \E idx \in FreqIndexes, sbr, ps \in BOOLEAN : SetConfig(idx, sbr, ps)
    \/ \E m \in Modes : SetSignalingMode(m)
    \/ GetMp4Cfg

Spec == Init /\ [][Next]_vars
-----------------------------------------------------------------------------
TypeOK ==
    /\ mode \in Modes \union {"none"}
    /\ dsi.sbrSfi \in 0..255 /\ dsi.hasSbr \in BOOLEAN /\ dsi.hasPs \in BOOLEAN

(* A configuration without a program element, for one of the plain object   *)
(* types, is read back as it was written, field by field; what the reader   *)
(* leaves is padding, or the presence of PS without SBR.                    *)
Plain(d) == d.channels # 0 /\ CoreType(d) = LC /\ ~d.extension

ReadsBack(back) == Len(back) <= Len(cfg) /\ back = SubSeq(cfg, 1, Len(back))

(* Whatever calls came before, once a mode with explicit signalling is      *)
(* chosen last, a reader of the configuration learns of SBR and, in a PS    *)
(* mode, of PS, and reads the fields at the places they were written to.    *)
Signals ==
    cfg # << >> =>
    LET back == Read([dsi EXCEPT !.sbrSfi = @ % 16], Bits(cfg))
    IN  /\ Plain(dsi) => ReadsBack(back)
        /\ mode \in {"SBR_BC", "SBR_NBC", "PS_BC", "PS_NBC"} /\ dsi.channels # 0 /\ dsi.hasSbr
             => dsi.aot \in {SBR, PS} \/ Named("hasSbr", back)
        /\ mode \in {"PS_BC", "PS_NBC"} /\ dsi.channels # 0 /\ dsi.hasSbr /\ dsi.hasPs
             => dsi.aot = PS \/ Named("hasPs", back)
=============================================================================
