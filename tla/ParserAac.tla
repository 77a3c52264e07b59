----------------------------- MODULE ParserAac ------------------------------
(***************************************************************************)
(* The ADTS parser, src/src/esparser/parser_aac.c: scanning for headers,   *)
(* the second look that confirms one, changes of configuration, and the    *)
(* samples get_sample makes.                                               *)
(*                                                                         *)
(* The stream es is a sequence of bytes, each with what the code makes of  *)
(* it.  ff: it is 0xFF.  sync: it and the next byte are a sync word, and   *)
(* then the other fields are the header's that begins here: cfg, blocks    *)
(* (the number of further blocks; a header with some is one without CRC),  *)
(* hdr (its bytes, 7 or 9, as far as the stream has them), len (the bytes  *)
(* that follow it, negative when the length field is less than the         *)
(* header).  Any byte may be 0xFF, those of a frame or a header too, so    *)
(* that sync words lie anywhere, even one byte apart (0xFF 0xFF 0xF).      *)
(* past: src_read_u8 returns an uninitialised byte beyond the end of the   *)
(* stream (io_base.c:167); whether it is 0xFF when the second look of this *)
(* header reads there.  The calls before that read are the same whenever   *)
(* the header is looked at, and so is what they leave in that byte.        *)
(***************************************************************************)
EXTENDS Integers, Sequences, FiniteSets, Resync

CONSTANTS
    Streams,            \* the streams that may be met
    SamplesPerFrame     \* 1024

VARIABLES
    es,
    p,          \* parser_aac_t: hdr (the fields of the last header read, frame
                \* is frame_size), pos, dsis (dsi_lst); aac_frame_length_remain
                \* is 0 between calls
    out,        \* samples
    status

vars == <<es, p, out, status>>

Cell(i) == es[i + 1]

(* What streams are made of.                                                *)
Cells ==
    [ff : BOOLEAN, sync : BOOLEAN, hdr : Nat \ {0}, len : Int, blocks : Nat, past : BOOLEAN,
     cfg : [profile : Nat, sfi : Nat, channels : Nat]]

IsStream(s) ==
    /\ s \in Seq(Cells)
    /\ \A i \in 1..Len(s) : s[i].sync => s[i].ff /\ i < Len(s)
    /\ \A i \in 1..(Len(s) - 1) : s[i].ff /\ s[i + 1].ff => s[i].sync

EOD(pos) == pos >= Len(es)
-----------------------------------------------------------------------------
(* The second look: the frame ends with the stream, or a sync word follows. *)
NextHeader(pos) == pos + Cell(pos).hdr + Cell(pos).len

Confirmed(pos) ==
    /\ Cell(pos).len >= 0
    /\ \/ NextHeader(pos) = Len(es)
       \/ NextHeader(pos) < Len(es) /\ Cell(NextHeader(pos)).sync

(* It finds 0xFF and then something else (beyond the end bits are 0).       *)
HalfConfirmed(pos) ==
    /\ Cell(pos).len >= 0
    /\ IF NextHeader(pos) > Len(es) THEN Cell(pos).past
       ELSE /\ NextHeader(pos) < Len(es)
            /\ Cell(NextHeader(pos)).ff /\ ~Cell(NextHeader(pos)).sync

(* The scan goes on one byte after a header that is not confirmed, or two   *)
(* (pos_sync + 2) after one that is by half.  (A 0xFF that is no sync word  *)
(* takes the next byte with it as well, which is not 0xFF then and so       *)
(* begins nothing.)                                                         *)
Skipping == {i \in 0..(Len(es) - 1) : Cell(i).sync /\ HalfConfirmed(i)}

MutHeaders(pos) ==
    LET false == {i \in 0..(Len(es) - 1) : Cell(i).sync /\ ~Confirmed(i)}
    IN  {i \in pos..(Len(es) - 1) : Cell(i).sync /\ Reached(false, pos, i)}

(* The headers a scan comes by, if it stops at none.                        *)
Headers(pos) == {i \in pos..(Len(es) - 1) : Cell(i).sync /\ Reached(Skipping, pos, i)}

(* channel_configuration 0 is taken for 6.                                  *)
Override(cfg) == IF cfg.channels = 0 THEN [cfg EXCEPT !.channels = 6] ELSE cfg

(* parser_aac_adts_hdr.  The fields of a header are stored before it is     *)
(* confirmed.                                                               *)
Stored(c) ==
    [cfg |-> Override(c.cfg), blocks |-> c.blocks,
     frame |-> IF c.blocks > 0 THEN c.len \div (c.blocks + 1) ELSE 0]

Scan(pos) ==
    LET good == {i \in Headers(pos) : Confirmed(i)}
        Least(S)  == CHOOSE i \in S : \A j \in S : i <= j
        Latest(S) == CHOOSE i \in S : \A j \in S : j <= i
    IN  IF good # {}
        THEN LET i == Least(good)
             IN  [found |-> IF Cell(i).blocks = 0 THEN "yes" ELSE "unsupported",
                  head |-> i, pos |-> i + Cell(i).hdr, hdr |-> Stored(Cell(i)),
                  remain |-> Cell(i).len]
        ELSE [found |-> "no", head |-> Len(es), pos |-> Len(es), remain |-> 0,
              hdr |-> IF Headers(pos) = {} THEN p.hdr
                      ELSE Stored(Cell(Latest(Headers(pos))))]

(* parser_aac_init_dsi.  The buffer size follows the channels.              *)
ChannelCount(c) == IF c = 7 THEN 8 ELSE c

BufferSize(c) ==
    LET n == ChannelCount(c) IN 768 * 8 * (IF n \in {6, 8} THEN n - 1 ELSE n)

InitDsi(cfg) ==
    [aot |-> cfg.profile + 1, sfi |-> cfg.sfi, channels |-> cfg.channels,
     buffer |-> BufferSize(cfg.channels)]

CurrDsi == p.dsis[Len(p.dsis)]
-----------------------------------------------------------------------------
NoHdr == [cfg |-> [profile |-> 0, sfi |-> 0, channels |-> 0], blocks |-> 0, frame |-> 0]

Start(stream) ==
    /\ es = stream /\ out = << >> /\ status = "open"
    /\ p = [pos |-> 0, hdr |-> NoHdr, dsis |-> << >>]

Init == \E stream \in Streams : Start(stream)

(* parser_aac_init: a first look; then from the very beginning.             *)
InitParser ==
    /\ p.dsis = << >> /\ status = "open"
    /\ LET s == Scan(0)
       IN  IF s.found = "yes"
           THEN /\ p' = [p EXCEPT !.hdr = s.hdr, !.dsis = << InitDsi(s.hdr.cfg) >>]
                /\ UNCHANGED status
           ELSE /\ status' = "eoes"
                /\ p' = [p EXCEPT !.hdr = s.hdr, !.pos = s.pos]
    /\ UNCHANGED <<es, out>>

(* A configuration other than the current description's.                    *)
Changed(s) ==
    \/ CurrDsi.aot # s.hdr.cfg.profile + 1
    \/ CurrDsi.sfi # s.hdr.cfg.sfi
    \/ CurrDsi.channels # s.hdr.cfg.channels

(* parser_aac_get_sample.  Without a further header there is a last sample, *)
(* of no bytes, or of frame_size when the last header read has blocks.      *)
(* (head and at say where the header and the bytes of a sample come from.)  *)
Sample(s) ==
    [dts |-> IF out = << >> THEN 0 ELSE out[Len(out)].dts + SamplesPerFrame,
     duration |-> SamplesPerFrame,
     size |-> IF s.hdr.blocks = 0 THEN s.remain ELSE s.hdr.frame,
     head |-> s.head, at |-> s.pos, sync |-> TRUE, newSd |-> out = << >> \/ Changed(s)]

EndOfStream ==
    /\ p.dsis # << >> /\ status = "open"
    /\ \/ EOD(p.pos)
       \/ ~EOD(p.pos) /\ out = << >> /\ Scan(p.pos).found = "no"
    /\ status' = "eoes"
    /\ UNCHANGED <<es, p, out>>

NoSupport ==
    /\ p.dsis # << >> /\ status = "open" /\ ~EOD(p.pos)
    /\ Scan(p.pos).found = "unsupported"
    /\ status' = "no support"
    /\ UNCHANGED <<es, p, out>>

RateChanged ==
    LET s == Scan(p.pos)
    IN  /\ p.dsis # << >> /\ status = "open" /\ ~EOD(p.pos)
        /\ s.found = "yes" \/ (s.found = "no" /\ out # << >>)
        /\ CurrDsi.sfi # s.hdr.cfg.sfi
        /\ status' = "config error"
        /\ p' = [p EXCEPT !.pos = s.pos, !.hdr = s.hdr]
        /\ UNCHANGED <<es, out>>

Describe(s) == IF Changed(s) THEN Append(p.dsis, InitDsi(s.hdr.cfg)) ELSE p.dsis

GetSample ==
    LET s == Scan(p.pos)
    IN  /\ p.dsis # << >> /\ status = "open" /\ ~EOD(p.pos)
        /\ s.found = "yes" \/ (s.found = "no" /\ out # << >>)
        /\ CurrDsi.sfi = s.hdr.cfg.sfi
        /\ out' = Append(out, Sample(s))
        /\ p' = [p EXCEPT !.pos = s.pos + s.remain, !.hdr = s.hdr,
                          !.dsis = Describe(s)]
        /\ UNCHANGED <<es, status>>

Next == InitParser \/ EndOfStream \/ NoSupport \/ RateChanged \/ GetSample

Spec == Init /\ [][Next]_vars
-----------------------------------------------------------------------------
TypeOK ==
    /\ p.pos \in 0..Len(es)
    /\ status \in {"open", "eoes", "no support", "config error"}

(* The samples within the stream are its frames, each right after a header  *)
(* that the next one or the end of the stream confirms, one after the       *)
(* other, and under the description of their header.                        *)
DescriptionOf(s, k) == Cardinality({i \in 2..k : s[i].newSd}) + 1

FramesFollowHeaders ==
    \A k \in 1..Len(out) : out[k].head < Len(es) =>
        LET h == out[k].head
        IN  /\ Cell(h).sync /\ Confirmed(h)
            /\ out[k].at = h + Cell(h).hdr /\ out[k].size = Cell(h).len
            /\ \A i \in 1..(k - 1) : out[i].at + out[i].size <= h
            /\ p.dsis[DescriptionOf(out, k)] = InitDsi(Override(Cell(h).cfg))

(* A header that is confirmed begins a sample or lies within one, unless    *)
(* the byte before it begins a header as well that is confirmed by half.    *)
NoFrameLost ==
    status = "eoes" /\ p.dsis # << >> => \A i \in 0..(Len(es) - 1) :
        Cell(i).sync /\ Confirmed(i) /\ Cell(i).blocks = 0 =>
            \/ \E k \in 1..Len(out) : out[k].head <= i /\ i < out[k].at + out[k].size
            \/ i - 1 \in Skipping
=============================================================================
