----------------------------- MODULE ParserHevc -----------------------------
(***************************************************************************)
(* Access units and picture order of an H.265 stream,                      *)
(* src/src/esparser/parser_hevc.c with parser_hevc_dec.c: where an access  *)
(* unit ends, which NALs it keeps, how parameter sets become sample        *)
(* descriptions, and the composition time of a picture.                    *)
(*                                                                         *)
(* The stream es has nals, and the options of the parser: hev1 (sets stay  *)
(* in the samples), sd (several descriptions are allowed), timing (the     *)
(* ticks of an access unit by source, 0 where there are none: user, which  *)
(* is forced or not, vui, vps) and least, what the composition offset      *)
(* shared by all HEVC parsers of the process has come to.                  *)
(* A NAL has a type t, and by type                                         *)
(*   vps c;  sps id, c;  pps id, c, sps;  el (of the enhancement layer)    *)
(*   inner, c;                                                             *)
(*   a slice: poc, which is the true order count of the picture (its low   *)
(*   bits are in the stream), tid, pps, first (of its picture) and dep     *)
(*   (slice of the one before).                                            *)
(***************************************************************************)
EXTENDS ParamSets

CONSTANTS
    Streams,        \* the streams that may be met
    Ids,            \* identifiers of parameter sets; 0 is one
    MaxNals,        \* NAL_IN_AU_MAX
    MaxLsb          \* the order counts the low bits tell apart

VARIABLES
    es,
    p,          \* parser_hevc_t: i (the NAL loaded), dec, dsis, enh, auNum,
                \* ticks, deltas (hevc_cts_offset_lst), info (the file of NAL
                \* locations), failed (NO_CONFIG calls); of the call that
                \* runs: kept, newSd, err, vcl (the type of the first slice
                \* met) and run: "idle", "unit", or "end"
    out,
    status

vars == <<es, p, out, status>>

Nal(i) == es.nals[i]

NoId == -1
None == "none"

Bla == {"bla_w_lp", "bla_w_radl", "bla_n_lp"}
Idr == {"idr_w_radl", "idr_n_lp"}
Irap == Bla \cup Idr \cup {"cra"}
Slices == Irap \cup {"trail_r", "trail_n", "rasl_r", "rasl_n", "radl_r", "radl_n"}

(* What streams are made of; a time scale is given when none is in them.    *)
IsNal(n) ==
    /\ n.t \in Slices \cup {"vps", "sps", "pps", "el", "aud", "sei", "filler", "suffix", "rpu", "eos"}
    /\ n.t \in Slices =>
         n.poc \in Nat /\ n.tid \in Nat /\ n.pps \in Ids /\ n.first \in BOOLEAN /\ n.dep \in BOOLEAN
    /\ n.t \in {"sps", "pps"} => n.id \in Ids
    /\ n.t = "pps" => n.sps \in Ids

IsStream(s) ==
    /\ Len(s.nals) \in Nat /\ s.hev1 \in BOOLEAN /\ s.sd \in BOOLEAN /\ s.least \in Int
    /\ s.timing.user \in Nat \ {0} /\ s.timing.forced \in BOOLEAN
    /\ s.timing.vui \in Nat /\ s.timing.vps \in Nat
    /\ \A i \in 1..Len(s.nals) : IsNal(s.nals[i])
-----------------------------------------------------------------------------
NoDec ==
    [vps |-> FALSE, sps |-> {}, pps |-> [id \in Ids |-> NoId], lastPps |-> 0,
     prevPoc |-> 0, prevTid0 |-> 0, pocOffset |-> 0]

NoDsi == [vps |-> << >>, sps |-> << >>, pps |-> << >>, profile |-> FALSE]

Start(stream) ==
    /\ es = stream /\ out = << >> /\ status = "open"
    /\ p = [i |-> 1, dec |-> NoDec, dsis |-> << NoDsi >>, enh |-> NoDsi,
            auNum |-> 0, ticks |-> 0, deltas |-> << >>, info |-> << >>, failed |-> 0,
            kept |-> << >>, newSd |-> FALSE, err |-> "", vcl |-> None, run |-> "idle"]

Init == \E stream \in Streams : Start(stream)
-----------------------------------------------------------------------------
(* parse_slice_header.  reference_nalu but for leading pictures: the ones   *)
(* the order counts to come are relative to.                                *)
Anchors(n) == n.tid = 0 /\ (n.t \in Irap \/ n.t = "trail_r")

MutPocMsb(prev, lsb) == prev - (prev % MaxLsb)

PocMsb(prev, lsb) ==
    LET low == prev % MaxLsb
        msb == prev - low
    IN  CASE lsb < low /\ low - lsb >= MaxLsb \div 2 -> msb + MaxLsb
          [] lsb > low /\ lsb - low > MaxLsb \div 2 -> msb - MaxLsb
          [] OTHER -> msb

Poc(d, n) ==
    LET lsb == n.poc % MaxLsb
    IN  CASE n.t \in Idr -> 0
          [] n.t \in Bla -> lsb
          [] OTHER -> PocMsb(d.prevTid0, lsb) + lsb

(* A slice of an SPS that is not there (that of a PPS not there is 0), or a *)
(* dependent one, tells nothing; a picture of a higher layer leaves the     *)
(* order count of the one before it.                                        *)
SpsOf(d, pps) == IF d.pps[pps] = NoId THEN 0 ELSE d.pps[pps]

DecodeSlice(d, n) ==
    IF n.dep \/ SpsOf(d, n.pps) \notin d.sps THEN d
    ELSE [d EXCEPT !.prevPoc = IF n.tid = 0 \/ n.t \in Idr THEN Poc(d, n) ELSE @,
                   !.prevTid0 = IF Anchors(n) THEN Poc(d, n) ELSE @]

Decoded(d, n) ==
    CASE n.t = "vps" -> [d EXCEPT !.vps = TRUE]
      [] n.t = "sps" -> [d EXCEPT !.sps = @ \cup {n.id}]
      [] n.t = "pps" -> [d EXCEPT !.pps[n.id] = n.sps, !.lastPps = n.id]
      [] n.t \in Slices -> DecodeSlice(d, n)
      [] OTHER -> d
-----------------------------------------------------------------------------
(* The handling of a NAL by get_sample, on the parser a.  VPSs and SPSs are *)
(* all filed under 0 (i_curr_sps_idx is never set).                         *)
Newest(dsis) == dsis[Len(dsis)]

CloneDsi(d) == [d EXCEPT !.vps = Cloned(@), !.sps = Cloned(@), !.pps = Cloned(@)]

FiledAs(n) == IF n.t = "pps" THEN n.id ELSE 0

ListOf(dsi, t) == CASE t = "vps" -> dsi.vps [] t = "sps" -> dsi.sps [] OTHER -> dsi.pps

WithSet(dsi, t, id, c) ==
    CASE t = "vps" -> [dsi EXCEPT !.vps = Updated(@, id, c)]
      [] t = "sps" -> [dsi EXCEPT !.sps = Updated(@, id, c)]
      [] t = "pps" -> [dsi EXCEPT !.pps = Updated(@, id, c)]
      [] OTHER -> dsi

Clashes(list, id, c) == Collides(list, id, c) /\ ~es.sd

OpensRecord(a, n) == Collides(ListOf(Newest(a.dsis), n.t), FiledAs(n), n.c) /\ ~a.newSd

StoreSet(a, n) ==
    LET dsis == IF OpensRecord(a, n) THEN Append(a.dsis, CloneDsi(Newest(a.dsis))) ELSE a.dsis
        list == ListOf(Newest(dsis), n.t)
        clash == Clashes(list, FiledAs(n), n.c)
    IN  [a EXCEPT !.dsis = [dsis EXCEPT ![Len(dsis)] = WithSet(@, n.t, FiledAs(n), n.c)],
                  !.newSd = @ \/ (IsNews(list, FiledAs(n), n.c) /\ ~clash /\ ~es.hev1),
                  !.err = IF clash THEN "multiple descriptions" ELSE @]

(* The sets of the enhancement layer, from the first access unit.           *)
StoreEnhancement(a, n) ==
    IF a.auNum > 0 \/ n.inner \notin {"vps", "sps", "pps"} THEN a
    ELSE [a EXCEPT !.enh = WithSet(@, n.inner, 0, n.c),
                   !.err = IF Clashes(ListOf(a.enh, n.inner), 0, n.c)
                           THEN "multiple descriptions" ELSE @]

Keeps(n) ==
    CASE n.t \in {"vps", "sps", "pps"} -> es.hev1
      [] OTHER -> n.t # "filler"

Book(a) ==
    IF ~Keeps(Nal(a.i)) \/ a.err # "" THEN a
    ELSE [a EXCEPT !.kept = Append(@, a.i),
                   !.err = IF Len(a.kept) + 1 >= MaxNals THEN "buggy" ELSE ""]

Take(a) ==
    LET n == Nal(a.i)
        b == [a EXCEPT !.dec = Decoded(@, n),
                       !.vcl = IF n.t \in Slices /\ @ = None THEN n.t ELSE @]
    IN  CASE n.t \in {"vps", "sps", "pps"} -> Book(StoreSet(b, n))
          [] n.t = "el" -> Book(StoreEnhancement(b, n))
          [] OTHER -> Book(b)

GetSample ==
    /\ status = "open" /\ p.run = "idle" /\ p.i <= Len(es.nals)
    /\ p' = [p EXCEPT !.kept = << >>, !.newSd = FALSE, !.vcl = None, !.run = "unit"]
    /\ UNCHANGED <<es, out, status>>

(* What ends a unit that has a slice: sets do not.                          *)
MutEndsUnit(n) == n.t = "aud" \/ (n.t \in Slices /\ n.first)

EndsUnit(n) == n.t \in {"aud", "sei"} \/ (n.t \in Slices /\ n.first)

TakeNal ==
    /\ p.run = "unit"
    /\ p' = LET b == Take(p)
            IN  CASE b.err # "" -> [b EXCEPT !.run = "end"]
                  [] b.err = "" /\ p.i = Len(es.nals) -> [b EXCEPT !.i = @ + 1, !.run = "end"]
                  [] OTHER -> [b EXCEPT !.i = @ + 1,
                                        !.run = IF b.vcl # None /\ EndsUnit(Nal(p.i + 1))
                                                THEN "end" ELSE @]
    /\ UNCHANGED <<es, out, status>>

Outcome ==
    CASE p.err # "" -> p.err
      [] p.err = "" /\ p.kept = << >> -> "eoes"
      [] OTHER -> "ok"

Configured(d) == d.vps /\ 0 \in d.sps /\ d.pps[d.lastPps] # NoId

(* timing_info_update, done for the first access unit only.                 *)
Timing(t) ==
    CASE t.forced -> t.user
      [] ~t.forced /\ t.vps > 0 -> t.vps
      [] ~t.forced /\ t.vps = 0 /\ t.vui > 0 -> t.vui
      [] OTHER -> t.user

TicksNow == IF p.auNum = 0 THEN Timing(es.timing) ELSE p.ticks

(* Counts are relative to the access unit at which the last was 0.          *)
PocOffset(dts) == IF p.dec.prevPoc = 0 THEN dts ELSE p.dec.pocOffset

Sample ==
    LET dts == p.auNum * TicksNow
    IN  [dts |-> dts, cts |-> PocOffset(dts) + p.dec.prevPoc * TicksNow, duration |-> TicksNow,
         sync |-> p.vcl \in Irap, newSd |-> p.newSd \/ p.auNum = 0, size |-> Len(p.kept),
         pos |-> Len(p.info) + 1, end |-> p.i - 1]

DeliverSample ==
    /\ p.run = "end" /\ Outcome = "ok"
    /\ p' = [p EXCEPT
               !.run = "idle", !.auNum = @ + 1, !.ticks = TicksNow,
               !.dec.pocOffset = PocOffset(Sample.dts),
               !.deltas = Append(@, Sample.cts - Sample.dts),
               !.info = Append(@, p.kept),
               !.failed = IF Configured(p.dec) THEN @ ELSE @ + 1,
               !.dsis[Len(p.dsis)].profile = @ \/ p.auNum = 0]
    /\ out' = IF Configured(p.dec) THEN Append(out, Sample) ELSE out
    /\ UNCHANGED <<es, status>>

EndOfStream ==
    /\ status = "open" /\ p.run = "idle" /\ p.i > Len(es.nals)
    /\ status' = "eoes"
    /\ UNCHANGED <<es, p, out>>

Fail ==
    /\ status = "open" /\ p.run = "end" /\ Outcome # "ok"
    /\ status' = Outcome
    /\ UNCHANGED <<es, p, out>>

Next == GetSample \/ TakeNal \/ DeliverSample \/ EndOfStream \/ Fail

Spec == Init /\ [][Next]_vars
-----------------------------------------------------------------------------
(* What comes out.  parser_hevc_get_cts_offset for sample k, the first of   *)
(* which only settles the shift all samples get.                            *)
LeastDelta ==
    LET S == {0, es.least} \cup {p.deltas[i] : i \in 1..Len(p.deltas)}
    IN  CHOOSE d \in S : \A e \in S : d <= e

CtsOffset(k) == (IF k = 1 THEN 0 ELSE p.deltas[k]) - LeastDelta

CompositionTime(k) == out[k].dts + CtsOffset(k)

(* get_subsample reads the NALs the location file has at pos.               *)
NalsOf(s) == p.info[s.pos]

HvcC(dsi) ==
    IF es.hev1 THEN [vps |-> << >>, sps |-> << >>, pps |-> << >>]
    ELSE [vps |-> dsi.vps, sps |-> dsi.sps, pps |-> dsi.pps]

TypeOK ==
    /\ p.i \in 1..(Len(es.nals) + 1)
    /\ p.auNum = Len(out) + p.failed /\ Len(p.deltas) = p.auNum
    /\ status \in {"open", "eoes", "multiple descriptions", "buggy"}

Extent(k) == ((IF k = 1 THEN 0 ELSE out[k - 1].end) + 1)..out[k].end

SlicesOf(k) == {i \in Extent(k) : Nal(i).t \in Slices}

FirstSliceOf(k) == Earliest(SlicesOf(k))

(* Sets are preceded by a delimiter or an SEI, unless no slice is before.   *)
SetsAfterDelimiter ==
    \A i, j \in 1..Len(es.nals) :
        i < j /\ Nal(i).t \in Slices /\ Nal(j).t \in {"vps", "sps", "pps"} =>
            \E m \in i..j : Nal(m).t \in {"aud", "sei"}

(* Streams of whole pictures: each begins with its first slice, and every   *)
(* delimiter or SEI is ahead of a picture.                                  *)
WholePictures ==
    /\ \E i \in 1..Len(es.nals) : Nal(i).t \in Slices
    /\ \A i \in 1..Len(es.nals) :
        /\ Nal(i).t \in {"aud", "sei"} => \E j \in i..Len(es.nals) : Nal(j).t \in Slices
        /\ Nal(i).t \in Slices /\ ~Nal(i).first =>
             \E j \in 1..(i - 1) :
                Nal(j).t \in Slices /\ \A m \in j..i : Nal(m).t \notin {"aud", "sei"}

(* A sample is a picture: it has all its slices, what is written of it is   *)
(* what its size says, and a delimiter, an SEI or sets before the picture   *)
(* (these after a delimiter) come with it.  It is a sync sample exactly if  *)
(* the picture is a random access point.                                    *)
AccessUnits ==
    p.failed = 0 => \A k \in 1..Len(out) :
        /\ SlicesOf(k) # {}
        /\ {i \in SlicesOf(k) : Nal(i).first} = {FirstSliceOf(k)}
        /\ out[k].sync = (Nal(FirstSliceOf(k)).t \in Irap)
        /\ Len(NalsOf(out[k])) = out[k].size
        /\ \A i \in 1..out[k].size : NalsOf(out[k])[i] \in Extent(k)
        /\ {i \in Extent(k) : Nal(i).t # "filler" /\ (es.hev1 \/ Nal(i).t \notin {"vps", "sps", "pps"})}
             = {NalsOf(out[k])[i] : i \in 1..out[k].size}
        /\ out[k].end < Len(es.nals) =>
             /\ Nal(out[k].end).t \notin {"aud", "sei"}
             /\ SetsAfterDelimiter => Nal(out[k].end).t \notin {"vps", "sps", "pps"}

(* Streams of sequences that begin with an IDR picture, without layers, and *)
(* whose order counts have no gap and can be told by their low bits.        *)
PicturesAt == {i \in 1..Len(es.nals) : Nal(i).t \in Slices /\ Nal(i).first}

SequenceAt(i) ==
    LET S == {j \in PicturesAt : j <= i /\ Nal(j).t \in Idr}
    IN  CHOOSE j \in S : \A m \in S : m <= j

Members(i) == {j \in PicturesAt : SequenceAt(j) = SequenceAt(i)}

AnchorOf(i) ==
    LET S == {j \in PicturesAt : j < i /\ Anchors(Nal(j))}
    IN  CHOOSE j \in S : \A m \in S : m <= j

Orderly ==
    /\ PicturesAt # {} /\ Nal(Earliest(PicturesAt)).t \in Idr
    /\ \A i \in 1..Len(es.nals) : Nal(i).t \in Slices =>
         Nal(i).tid = 0 /\ (Nal(i).t \in Idr => Nal(i).poc = 0) /\ Nal(i).t \notin Bla
    /\ \A i \in PicturesAt :
         /\ {Nal(j).poc : j \in Members(i)} = 0..(Cardinality(Members(i)) - 1)
         /\ Nal(i).t \notin Idr =>
              LET gap == Nal(i).poc - Nal(AnchorOf(i)).poc
              IN  -(MaxLsb \div 2) < gap /\ gap < MaxLsb \div 2

(* When such a stream is read, pictures are presented in their order, one   *)
(* after the other at the distance of their duration from the first one,    *)
(* and none before it is decoded.                                           *)
CtsFollowsPoc ==
    (status = "eoes" /\ p.failed = 0 /\ Orderly) => \A k \in 1..Len(out) :
        LET i == FirstSliceOf(k)
            earlier == {j \in PicturesAt : j < SequenceAt(i)}
        IN  /\ CompositionTime(k) - CompositionTime(1)
                 = (Cardinality(earlier) + Nal(i).poc) * out[k].duration
            /\ CompositionTime(k) >= out[k].dts

(* Streams whose sets the records can follow: a slice comes after its PPS,  *)
(* there is no second id of SPS, and a single PPS or none that changes.     *)
ContentsOf(t, id) == {Nal(i).c : i \in {j \in 1..Len(es.nals) : Nal(j).t = t /\ Nal(j).id = id}}

IdsOf(t) == {Nal(i).id : i \in {j \in 1..Len(es.nals) : Nal(j).t = t}}

Followable ==
    /\ SetsAfterDelimiter
    /\ \A i \in 1..Len(es.nals) : Nal(i).t \in Slices =>
         \E j \in 1..i : Nal(j).t = "pps" /\ Nal(j).id = Nal(i).pps
    /\ IdsOf("sps") = {0}
    /\ \/ Cardinality(IdsOf("pps")) = 1
       \/ /\ Cardinality({Nal(i).c : i \in {j \in 1..Len(es.nals) : Nal(j).t = "vps"}}) = 1
          /\ \A t \in {"sps", "pps"} : \A id \in IdsOf(t) : Cardinality(ContentsOf(t, id)) = 1

LastBefore(S, i) == CHOOSE j \in S : j <= i /\ \A m \in S : m <= i => m <= j

(* When all is read, the description of every sample has the PPS and SPS    *)
(* its picture uses with the content they had there.                        *)
SetsInDescription ==
    status = "eoes" /\ ~es.hev1 /\ p.failed = 0 /\ Followable => \A k \in 1..Len(out) :
        LET i   == FirstSliceOf(k)
            cfg == HvcC(p.dsis[DescriptionIdx(out, k, p.dsis)])
            Is(t) == {j \in 1..Len(es.nals) : Nal(j).t = t}
            pps == LastBefore({j \in Is("pps") : Nal(j).id = Nal(i).pps}, i)
        IN  /\ Gives(cfg.pps, Nal(i).pps, Nal(pps).c)
            /\ Gives(cfg.sps, 0, Nal(LastBefore(Is("sps"), i)).c)
            /\ Gives(cfg.vps, 0, Nal(LastBefore(Is("vps"), i)).c)

(* "all other sets would stay the same and just one set has to be updated": *)
(* a record has every set of the one it was cloned from.                    *)
SetsCarryOver ==
    \A i \in 2..Len(p.dsis) :
        Identifiers(p.dsis[i - 1].pps) \subseteq Identifiers(p.dsis[i].pps)
=============================================================================
