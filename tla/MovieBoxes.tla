----------------------------- MODULE MovieBoxes -----------------------------
(***************************************************************************)
(* The boxes of 'moov' as the write_*_box functions of                     *)
(* src/src/mp4_muxer.c lay them out: which boxes a container gets, in      *)
(* which order, and how long each is.                                      *)
(*                                                                         *)
(* A box is given by its length: the size in its header, the bytes it      *)
(* takes up, and the pairs of both of all boxes in it, itself included.    *)
(* Most functions write the size last, as the distance to the start of the *)
(* box (SKIP_SIZE_FIELD, WRITE_SIZE_FIELD): Measured.  Others announce it  *)
(* and then write: Announced.  Fields are given by their length, too; what *)
(* is in them matters only where it decides on a length.                   *)
(*                                                                         *)
(* A track is a record as in SampleTables with the fields named below, a   *)
(* movie is the record of mp4_ctrl and its configuration.                  *)
(***************************************************************************)
EXTENDS SampleTables, FiniteSets

CONSTANT Max32      \* the largest value of a 32-bit field (UINT32_MAX)

ASSUME MovieBoxesAssumption == Max32 \in Nat

Total(lens) == SumOver(lens, 1, Len(lens))

(* Boxes one after the other.                                               *)
Row(boxes) ==
    LET n == Total([i \in 1..Len(boxes) |-> boxes[i].bytes])
    IN  [size |-> n, bytes |-> n, spans |-> UNION {boxes[i].spans : i \in 1..Len(boxes)}]

(* write_size_field: bytes after the header, and boxes.                     *)
Measured(type, body, kids) ==
    LET n == 8 + body + Row(kids).bytes
    IN  [size |-> n, bytes |-> n, spans |-> {<<n, n>>} \cup Row(kids).spans]

Announced(type, size, body) ==
    [size |-> size, bytes |-> 8 + body, spans |-> {<<size, 8 + body>>}]

Optional(c, box) == IF c THEN box ELSE Row(<< >>)

(* Version and flags.                                                       *)
FullHeader == 4
-----------------------------------------------------------------------------
(* Descriptors of esds: tag, length in groups of seven bits, content.       *)
LengthBytes(n) ==
    CASE n < 128                     -> 1
      [] n >= 128 /\ n < 16384       -> 2
      [] n >= 16384 /\ n < 2097152   -> 3
      [] OTHER                       -> 4   \* content is shorter than 2^28 bytes

DescriptorSize(n) == 1 + LengthBytes(n) + n

(* write_descriptor_hdr writes the tag, bytes_more bytes with the high bit  *)
(* set, and the last seven bits.                                            *)
DescriptorHdr(n) == (DescriptorSize(n) - n - 2) + 2

Esds(t) ==
    LET dsi    == IF t.dsi > 0 THEN DescriptorSize(t.dsi) ELSE 0
        config == 13 + dsi
    IN  Measured("esds",
          FullHeader
          + DescriptorHdr(3 + DescriptorSize(config) + DescriptorSize(1)) + 3
          + DescriptorHdr(config) + 13
          + (IF t.dsi > 0 THEN DescriptorHdr(t.dsi) + t.dsi ELSE 0)
          + DescriptorHdr(1) + 1,
          << >>)

(* write_dsi_box: the decoder configuration, and after it, as boxes of      *)
(* their own, the Dolby Vision configuration and the enhancement layer's.   *)
Dsi(t) ==
    Row(<< Announced("dsi", t.dsi + 8, t.dsi),
           Optional(t.nal /\ t.dvDsi > 0, Announced("dvcC", t.dvDsi + 8, t.dvDsi)),
           Optional(t.nal /\ t.elDsi > 0, Announced("elcE", t.elDsi + 8, t.elDsi)) >>)

Pasp(t) == Measured("pasp", 8, << >>)

(* What is in a sample entry besides the fields of its kind.                *)
SampleEntry == 8

Extension(t) ==
    IF t.coding \in {"mp4v", "mp4a"} THEN Esds(t)
    ELSE Optional(t.dsi > 0, Dsi(t))

VideoEntry(t) ==
    Measured(t.coding, SampleEntry + 70, << Optional(t.pasp, Pasp(t)), Extension(t) >>)

AudioEntry(t) == Measured(t.coding, SampleEntry + 20, << Extension(t) >>)

MetadataEntry(t) ==
    Measured(t.coding, SampleEntry + Total([i \in 1..3 |-> t.strings[i] + 1]), << >>)

Ftab(t) == Measured("ftab", 2 + Total([i \in 1..Len(t.fonts) |-> 3 + t.fonts[i]]), << >>)

TextEntry(t) == Measured(t.coding, SampleEntry + 30, << Ftab(t) >>)

DataEntry(t) == Measured(t.coding, SampleEntry, << Optional(t.dsi > 0, Dsi(t)) >>)

RtpEntry(t) == Measured("rtp ", 16, << Measured("tims", 4, << >>) >>)

SubtEntry(t) ==
    Measured(t.coding, SampleEntry + Total([i \in 1..3 |-> t.strings[i] + 1]), << >>)

(* build_stsd_entry.                                                        *)
StsdEntry(t) ==
    CASE t.type = "vide" -> VideoEntry(t)
      [] t.type = "soun" -> AudioEntry(t)
      [] t.type = "meta" -> MetadataEntry(t)
      [] t.type = "text" -> TextEntry(t)
      [] t.type = "data" -> DataEntry(t)
      [] t.type = "hint" -> RtpEntry(t)
      [] t.type = "subt" -> SubtEntry(t)
-----------------------------------------------------------------------------
(* 'stbl'.  The tables of a fragmented file are empty.                      *)
Table(m, entries) == IF m.frag THEN 0 ELSE entries

StsdBox(t) ==
    Measured("stsd", FullHeader + 4, [i \in 1..t.descs |-> StsdEntry(t)])

SttsBox(m, t) == Measured("stts", FullHeader + 4 + 8 * Table(m, Len(Stts(t))), << >>)

MutCttsBox(t) == Announced("ctts", 16 + 4 * Len(Ctts(t)), FullHeader + 4 + 8 * Len(Ctts(t)))

CttsBox(t) ==
    LET n == Len(Ctts(t)) IN Announced("ctts", 16 + 8 * n, FullHeader + 4 + 8 * n)

HasCtts(m, t) == t.type # "hint" /\ ~m.frag /\ Len(Ctts(t)) > 0

StssBox(m, t) == Measured("stss", FullHeader + 4 + 4 * Table(m, Len(Stss(t))), << >>)

StscBox(m, t) == Measured("stsc", FullHeader + 4 + 12 * Table(m, Len(Stsc(t))), << >>)

StszBox(m, t) ==
    Measured("stsz", FullHeader + 8 + 4 * Table(m, Len(Stsz(t).table)), << >>)

StcoBox(m, t) ==
    Measured(IF m.co64 THEN "co64" ELSE "stco",
             FullHeader + 4 + (IF m.co64 THEN 8 ELSE 4) * Table(m, Len(t.chunks)), << >>)

SbgpBox(t) == Measured("sbgp", FullHeader + 16, << >>)
SgpdBox    == Measured("sgpd", FullHeader + 10, << >>)

StblBox(m, t) ==
    Measured("stbl", 0,
      << Optional(t.chunks # << >>,
           Row(<< StsdBox(t), SttsBox(m, t),
                  Optional(HasCtts(m, t), CttsBox(t)),
                  Optional(Stss(t) # << >>, StssBox(m, t)),
                  StscBox(m, t), StszBox(m, t), StcoBox(m, t),
                  Optional(t.preRoll, Row(<< SbgpBox(t), SgpdBox >>)) >>)) >>)
-----------------------------------------------------------------------------
(* Headers whose version, and length, depends on the times in them.         *)
MdhdDuration(m, t) == IF m.frag THEN 0 ELSE t.duration

MdhdLong(m, t) == MdhdDuration(m, t) > Max32 \/ t.modTime > Max32

MdhdBox(m, t) ==
    IF MdhdLong(m, t) THEN Announced("mdhd", 44, FullHeader + 8 + 8 + 4 + 8 + 2 + 2)
    ELSE Announced("mdhd", 32, FullHeader + 4 + 4 + 4 + 4 + 2 + 2)

HdlrBox(t) == Measured("hdlr", FullHeader + 4 + 4 + 12 + t.hdlrName + 1, << >>)

MediaHeader(t) ==
    CASE t.type = "vide" -> Announced("vmhd", 20, FullHeader + 2 + 6)
      [] t.type = "soun" -> Announced("smhd", 16, FullHeader + 2 + 2)
      [] t.type = "subt" -> Measured("sthd", FullHeader, << >>)
      [] t.type = "hint" -> Announced("hmhd", 28, FullHeader + 2 + 2 + 4 + 4 + 4)
      [] OTHER           -> Announced("nmhd", 12, FullHeader)

DrefBox == Announced("dref", 28, FullHeader + 4 + 12)
DinfBox == Measured("dinf", 0, << DrefBox >>)

MinfBox(m, t) == Measured("minf", 0, << MediaHeader(t), DinfBox, StblBox(m, t) >>)

MdiaBox(m, t) == Measured("mdia", 0, << MdhdBox(m, t), HdlrBox(t), MinfBox(m, t) >>)

TkhdDuration(m, t) == IF m.frag THEN 0 ELSE t.sumEdits

TkhdLong(m, t) == TkhdDuration(m, t) > Max32 \/ t.modTime > Max32

TkhdBox(m, t) ==
    LET fixed == 4 + 4 + 8 + 2 + 2 + 2 + 2 + 36 + 4 + 4
    IN  IF TkhdLong(m, t) THEN Announced("tkhd", 104, FullHeader + 8 + 8 + 8 + fixed)
        ELSE Announced("tkhd", 92, FullHeader + 4 + 4 + 4 + fixed)

ElstBox(t) ==
    Measured("elst", FullHeader + 4 + (IF t.elstLong THEN 20 ELSE 12) * Len(t.edits), << >>)

EdtsBox(t) == Measured("edts", 0, << ElstBox(t) >>)

(* write_tref_box ends with vdep whatever it starts with.                   *)
TrefBox(t) ==
    Measured("tref", 0, << Optional(t.type = "hint", Measured("hint", 4, << >>)),
                           Measured("vdep", 4, << >>) >>)

UdtaTrackBox(t) ==
    Measured("udta", 0,
      << Optional(t.type = "hint",
                  Measured("hnti", 0, << Measured("sdp ", t.sdp, << >>) >>)) >>)

(* A Dolby Vision enhancement layer refers to the base layer's track.       *)
RefersToBase(t) == t.rpu /\ t.elDsi = 0 /\ t.dvProfile \notin {5, 8} /\ t.id > 1

(* write_private_box: atoms given to the muxer, for the movie (track 0) or  *)
(* for a track.                                                             *)
Private(m, parent, id) ==
    Row([i \in 1..Len(m.atoms) |->
           LET a == m.atoms[i]
           IN  Optional(a.parent = parent /\ a.id = id, Announced("priv", a.size, a.size - 8))])

TrakBox(m, t) ==
    Measured("trak", 0,
      << TkhdBox(m, t),
         Optional(t.type = "hint", Row(<< TrefBox(t), UdtaTrackBox(t) >>)),
         Optional(RefersToBase(t), TrefBox(t)),
         Optional(t.edits # << >>, EdtsBox(t)),
         MdiaBox(m, t),
         Private(m, "trak", t.id) >>)
-----------------------------------------------------------------------------
(* The movie level.                                                         *)
MvhdLong(m) == m.duration > Max32 \/ m.modTime > Max32

MvhdBox(m) ==
    LET fixed == 4 + 2 + 10 + 36 + 24 + 4
    IN  IF MvhdLong(m) THEN Announced("mvhd", 120, FullHeader + 8 + 8 + 4 + 8 + fixed)
        ELSE Announced("mvhd", 108, FullHeader + 4 + 4 + 4 + 4 + fixed)

(* One reference of six bytes per track that has samples, in a descriptor   *)
(* whose length field has one byte; no box without a track.                 *)
Filled(tracks) == Cardinality({i \in 1..Len(tracks) : sampleNum(tracks[i]) > 0})

IodsBox(tracks) ==
    LET n == Filled(tracks)
    IN  Announced("iods", 21 + 6 * n, FullHeader + 2 + 2 + 5 + 6 * n)

IodsLengthFits(tracks) == 7 + 6 * Filled(tracks) < 128

(* write_meta_box: handler, XML, and the places and bytes of binary items,  *)
(* whose offsets are 64 bits wide when the largest one needs it.            *)
IlocBox(items) ==
    LET start  == SumOver(items, 1, Len(items) - 1)
        offset == IF start > Max32 THEN 8 ELSE 4
    IN  Measured("iloc", FullHeader + 2 + 2 + Len(items) * (8 + offset + 4), << >>)

IdatBox(items) == Measured("idat", Total(items), << >>)

MetaBox(x) ==
    Measured("meta", FullHeader,
      << Measured("hdlr", FullHeader + 20 + x.name + 1, << >>),
         Announced("xml ", 13 + x.xml, FullHeader + x.xml + 1),
         Optional(x.items # << >>, Row(<< IlocBox(x.items), IdatBox(x.items) >>)) >>)

UdtaBox(m) ==
    Measured("udta", 0, [i \in 1..Len(m.udta) |-> Announced("user", m.udta[i], m.udta[i] - 8)])

MehdBox(m) ==
    IF m.duration > Max32 THEN Announced("mehd", 20, FullHeader + 8)
    ELSE Announced("mehd", 16, FullHeader + 4)

TrexBox == Announced("trex", 32, FullHeader + 20)

MvexBox(m, tracks) ==
    Measured("mvex", 0, << MehdBox(m), Row([i \in 1..Filled(tracks) |-> TrexBox]) >>)

(* A track without samples has no box.                                      *)
Traks(m, tracks) ==
    Row([i \in 1..Len(tracks) |->
           Optional(sampleNum(tracks[i]) > 0, TrakBox(m, tracks[i]))])

MoovBox(m, tracks) ==
    Measured("moov", 0,
      << Optional(tracks # << >>,
           Row(<< MvhdBox(m),
                  Optional(m.ainf > 0, Announced("ainf", m.ainf, m.ainf - 8)),
                  Optional(m.iods /\ Filled(tracks) > 0, IodsBox(tracks)),
                  Optional(m.meta.xml > 0, MetaBox(m.meta)),
                  Traks(m, tracks) >>)),
         Private(m, "moov", 0),
         Optional(m.udta # << >>, UdtaBox(m)),
         Optional(m.frag, MvexBox(m, tracks)),
         Optional(m.free > 0, Announced("free", 8 + m.free, m.free)) >>)
-----------------------------------------------------------------------------
(* Before 'moov'.  The commas of the list of compatible brands are dropped  *)
(* from the box but counted in the value returned.                          *)
FtypBox(m)      == Announced("ftyp", 16 + m.brands, 8 + m.brands)
FtypReturned(m) == 16 + m.brands + m.commas

StypBox == Announced("styp", 16 + 16, 8 + 16)

(* pdin: two or three pairs of rate and initial delay.                      *)
PdinBaserate(m, millis) ==
    LET r == (m.mdat + 1) \div (millis + 1) + 1 IN r + r \div 8

PdinBox(m, millis) ==
    LET fields == IF PdinBaserate(m, millis) >= 2 THEN 3 ELSE 2
    IN  Announced("pdin", 12 + 8 * fields, FullHeader + 8 * fields)
-----------------------------------------------------------------------------
(* The size in a box's header is what the box takes up, and so for all the  *)
(* boxes in it: a reader that goes from box to box meets every one.         *)
Tiled(b) == \A span \in b.spans : span[1] = span[2]
=============================================================================
