----------------------------- MODULE ParserAvc ------------------------------
(***************************************************************************)
(* Access units of an H.264 stream, src/src/esparser/parser_avc.c with the *)
(* two NAL phases of parser_avc_dec.c: where an access unit ends, which    *)
(* NALs are kept, and how parameter sets become sample descriptions.       *)
(*                                                                         *)
(* The stream es has nals, and the options of the parser: avc3 (parameter  *)
(* sets stay in the samples) and sd (several descriptions are allowed).    *)
(* A NAL has a type t, and by type                                         *)
(*   slice, idr    pic, which stands for all that tells a picture from the *)
(*                 one before (frame number, order count, ...), pps, and   *)
(*                 red, a slice of a redundant picture;                    *)
(*   sps, spsext   id and content c;   pps   id, content, and sps;         *)
(*   sei           msgs, each "drop" (filler, sub-sequences), "bp" (a      *)
(*                 buffering period, for the SPS c) or "keep", and zeros   *)
(*                 (trailing zero bytes);                                  *)
(*   prefix, aud, eos, filler, rpu, subset (sequence set of another view), *)
(*   vdrd (view delimiter), viewslice, dolby3d.                            *)
(* Composition times are the subject of Reorder.                           *)
(***************************************************************************)
EXTENDS ParamSets

CONSTANTS
    Streams,        \* the streams that may be met
    Ids,            \* identifiers of parameter sets; 0 is one
    MaxNals,        \* NAL_IN_AU_MAX
    Ticks           \* content of an SPS -> au_ticks

VARIABLES
    es,
    p,          \* parser_avc_t: i (the NAL loaded), dec, dsis, auNum, ticks,
                \* info (the file of NAL locations), failed (NO_CONFIG calls);
                \* of the call that runs: kept (the NALs), newSd, err, and run:
                \* "idle", "unit", or "end" when the unit is complete
    out,        \* the samples handed to the muxer
    status

vars == <<es, p, out, status>>

Nal(i) == es.nals[i]

(* What streams are made of.  The sequence sets of some describe one frame  *)
(* rate.                                                                    *)
NalTypes ==
    {"slice", "idr", "sps", "spsext", "pps", "sei", "prefix", "aud", "eos", "filler",
     "rpu", "subset", "vdrd", "viewslice", "dolby3d"}

IsNal(n) ==
    /\ "t" \in DOMAIN n /\ n.t \in NalTypes
    /\ n.t \in {"slice", "idr"} => n.pic \in Nat /\ n.pps \in Ids /\ n.red \in BOOLEAN
    /\ n.t \in {"sps", "spsext", "pps", "subset"} => n.id \in Ids /\ n.c \in DOMAIN Ticks
    /\ n.t = "pps" => n.sps \in Ids

IsStream(s) ==
    /\ Len(s.nals) \in Nat /\ s.avc3 \in BOOLEAN /\ s.sd \in BOOLEAN
    /\ \A i \in 1..Len(s.nals) : IsNal(s.nals[i])

OneFrameRate ==
    0 \in DOMAIN Ticks /\ \A c, d \in DOMAIN Ticks : Ticks[c] \in Nat \ {0} /\ Ticks[c] = Ticks[d]

NoId == -1
Undefined == 0      \* the content of an SPS that was never met
-----------------------------------------------------------------------------
(* nal_delimier_type_tbl.                                                   *)
Class(t) ==
    CASE t \in {"slice", "idr", "prefix"} -> "vcl"
      [] t \in {"sei", "sps", "pps", "aud"} -> "not vcl"
      [] t \in {"subset", "vdrd", "dolby3d"} -> "not view"
      [] t = "viewslice" -> "view"
      [] OTHER -> "no"

NoSlice == [pic |-> 0, pps |-> 0, idr |-> FALSE, red |-> FALSE, first |-> FALSE]

NoDec ==
    [cur |-> NoSlice, next |-> NoSlice, pd |-> "no", md |-> "no", layer |-> 0,
     idr |-> FALSE, sps |-> [i \in Ids |-> Undefined], pps |-> [i \in Ids |-> NoId], lastPps |-> 0,
     activeSps |-> NoId, activePps |-> NoId, ok |-> TRUE]

NoDsi == [sps |-> << >>, pps |-> << >>, ext |-> << >>, profile |-> Undefined]

Start(stream) ==
    /\ es = stream /\ out = << >> /\ status = "open"
    /\ p = [i |-> 1, dec |-> NoDec, dsis |-> << NoDsi >>, auNum |-> 0, ticks |-> 0,
            info |-> << >>, failed |-> 0,
            kept |-> << >>, newSd |-> FALSE, err |-> "", run |-> "idle"]

Init == \E stream \in Streams : Start(stream)
-----------------------------------------------------------------------------
(* Phase 1, before a NAL is taken.  parse_slice falls back on PPS 0 for one *)
(* that is not defined; without it the slice is left half read.             *)
ParseSlice(d, n) ==
    LET pps == IF d.pps[n.pps] = NoId /\ d.pps[0] # NoId THEN 0 ELSE n.pps
        s   == [d.next EXCEPT !.idr = n.t = "idr", !.pps = pps]
    IN  IF d.pps[pps] = NoId THEN s ELSE [s EXCEPT !.pic = n.pic, !.red = n.red]

(* is_first_slice *)
IsFirst(d, s) ==
    ~s.red /\ (s.pic # d.cur.pic \/ s.pps # d.cur.pps \/ s.idr # d.cur.idr)

(* parser_avc_parse_nal_1: a new access unit may start with the NAL.        *)
Starts(d, n) ==
    CASE n.t = "eos" -> TRUE
      [] n.t = "aud" -> d.pd # "not vcl"
      [] n.t \in {"pps", "sei"} /\ d.md = "not view" -> FALSE
      [] n.t \in {"slice", "idr"} -> d.pd # "not vcl" /\ IsFirst(d, ParseSlice(d, n))
      [] OTHER -> Class(n.t) = "not vcl" /\ d.pd = "vcl"

LookAhead(d, n) ==
    IF n.t \notin {"slice", "idr"} THEN d
    ELSE LET s == ParseSlice(d, n)
         IN  [d EXCEPT !.next = [s EXCEPT !.first = d.pd = "not vcl" \/ IsFirst(d, s)]]

(* Phase 2: a first slice makes its picture the current one and its sets    *)
(* the active ones (a prefix NAL finds the slot as it was left).            *)
Activate(d, n) ==
    IF ~d.next.first THEN [d EXCEPT !.cur.first = FALSE]
    ELSE [d EXCEPT !.cur = d.next, !.next = d.cur, !.idr = n.t = "idr",
                   !.activePps = d.next.pps,
                   !.activeSps = IF d.pps[d.next.pps] = NoId THEN 0 ELSE d.pps[d.next.pps]]

(* parse_sei_messages: a buffering period counts if it is the first message *)
(* but for those that are dropped.                                          *)
SeiSps(d, n) ==
    LET id == IF n.c \in Ids /\ d.sps[n.c] # Undefined THEN n.c ELSE 0
        msgs == SelectSeq(n.msgs, LAMBDA m : m # "drop")
    IN  IF msgs # << >> /\ msgs[1] = "bp" /\ d.sps[id] # Undefined THEN id ELSE d.activeSps

KeepsSei(n) == (\E i \in 1..Len(n.msgs) : n.msgs[i] # "drop") \/ n.zeros > 0

Refused(n) == n.t \in {"sps", "subset"} /\ n.c = Undefined

Parsed(d, n) ==
    CASE Class(n.t) = "vcl" -> Activate(d, n)
      [] n.t \in {"sps", "subset"} -> [d EXCEPT !.sps[n.id] = n.c, !.activeSps = n.id]
      [] n.t = "pps" /\ d.md # "not view" -> 
               [d EXCEPT !.pps[n.id] = n.sps, !.activeSps = n.sps, !.lastPps = n.id]
      [] OTHER -> d

(* The delimiting of the other views of a stream.                           *)
Delimit(d, t) ==
    LET c == Class(t)
        Move == [d EXCEPT !.md = c, !.pd = c]
    IN  CASE d.md = "not view" /\ t = "viewslice" -> [d EXCEPT !.md = "view", !.ok = d.layer = 1]
          [] d.md = "not view" /\ t # "viewslice" ->
               [d EXCEPT !.ok = d.layer = 1 /\ t \in {"pps", "sei", "subset", "dolby3d"}]
          [] d.md = "view" /\ t \in {"viewslice", "filler", "eos"} -> d
          [] d.md = "view" /\ t \notin {"viewslice", "filler", "eos"} ->
               IF c \in {"view", "not view"} THEN [d EXCEPT !.md = c, !.ok = FALSE]
               ELSE [Move EXCEPT !.layer = 0]
          [] OTHER ->
               IF c \notin {"view", "not view"} THEN [Move EXCEPT !.ok = d.layer = 0]
               ELSE [d EXCEPT !.md = c, !.pd = "no", !.ok = t = "vdrd" /\ d.layer = 0, !.layer = 1]

PhaseTwo(d, n) == Delimit(Parsed(d, n), n.t)
-----------------------------------------------------------------------------
(* The handling of a NAL by get_sample, on the parser a.  A set with        *)
(* another content opens a new record, unless this sample opened one.       *)
Newest(dsis) == dsis[Len(dsis)]

CloneDsi(d) == [d EXCEPT !.sps = Cloned(@), !.pps = Cloned(@), !.ext = Cloned(@)]

ListOf(dsi, t) == CASE t = "sps" -> dsi.sps [] t = "pps" -> dsi.pps [] OTHER -> dsi.ext

WithSet(dsi, n) ==
    CASE n.t = "sps" -> [dsi EXCEPT !.sps = Updated(@, n.id, n.c)]
      [] n.t = "pps" -> [dsi EXCEPT !.pps = Updated(@, n.id, n.c)]
      [] OTHER -> [dsi EXCEPT !.ext = Updated(@, n.id, n.c)]

OpensRecord(a, n) == Collides(ListOf(Newest(a.dsis), n.t), n.id, n.c) /\ ~a.newSd

StoreSet(a, n) ==
    LET dsis == IF OpensRecord(a, n) THEN Append(a.dsis, CloneDsi(Newest(a.dsis))) ELSE a.dsis
        list == ListOf(Newest(dsis), n.t)
        clash == Collides(list, n.id, n.c) /\ ~es.sd
    IN  [a EXCEPT !.dsis = [dsis EXCEPT ![Len(dsis)] = WithSet(@, n)],
                  !.newSd = @ \/ (IsNews(list, n.id, n.c) /\ ~clash),
                  !.err = IF clash THEN "multiple descriptions" ELSE @]

Keeps(n) ==
    CASE n.t \in {"sps", "pps", "spsext"} -> es.avc3
      [] n.t = "sei" -> KeepsSei(n)
      [] OTHER -> n.t # "filler"

Book(a) ==
    IF ~Keeps(Nal(a.i)) \/ a.err # "" THEN a
    ELSE [a EXCEPT !.kept = Append(@, a.i),
                   !.err = IF Len(a.kept) + 1 >= MaxNals THEN "buggy" ELSE ""]

(* (A PPS of another view is stored with the id of the last one parsed.)    *)
Take(a) ==
    LET n == Nal(a.i)
        d == PhaseTwo(a.dec, n)
        b == [a EXCEPT !.dec = IF n.t = "sei" THEN [d EXCEPT !.activeSps = SeiSps(d, n)] ELSE d,
                       !.err = IF d.ok /\ ~Refused(n) THEN "" ELSE "bad stream"]
    IN  CASE b.err # "" -> b
          [] b.err = "" /\ n.t \in {"sps", "spsext"} -> Book(StoreSet(b, n))
          [] b.err = "" /\ n.t = "pps" -> Book(StoreSet(b, [n EXCEPT !.id = d.lastPps]))
          [] OTHER -> Book(b)

(* A call begins; the first NAL of the stream has not been looked at yet.   *)
GetSample ==
    /\ status = "open" /\ p.run = "idle" /\ p.i <= Len(es.nals)
    /\ p' = [p EXCEPT !.dec = IF p.auNum = 0 THEN LookAhead(@, Nal(p.i)) ELSE @,
                      !.kept = << >>, !.newSd = FALSE, !.run = "unit"]
    /\ UNCHANGED <<es, out, status>>

(* The loop, NAL by NAL to the end of the unit.                             *)
TakeNal ==
    /\ p.run = "unit"
    /\ p' = LET b == Take(p)
                n == Nal(p.i + 1)
            IN  CASE b.err # "" -> [b EXCEPT !.run = "end"]
                  [] b.err = "" /\ p.i = Len(es.nals) -> [b EXCEPT !.i = @ + 1, !.run = "end"]
                  [] OTHER ->
                       [b EXCEPT !.i = @ + 1, !.dec = LookAhead(@, n),
                                 !.run = IF b.kept # << >> /\ Starts(b.dec, n) THEN "end" ELSE @]
    /\ UNCHANGED <<es, out, status>>

(* The end of the call.                                                     *)
ActiveContent(d) == d.sps[d.activeSps]

Outcome ==
    CASE p.err # "" -> p.err
      [] p.err = "" /\ p.kept = << >> -> "eoes"
      [] p.err = "" /\ p.kept # << >> /\ (p.dec.activeSps = NoId \/ p.dec.activePps = NoId) ->
           "bad stream"
      [] OTHER -> "ok"

Configured(d) == ActiveContent(d) # Undefined /\ d.pps[d.activePps] # NoId

NewSequence == p.dec.idr \/ p.auNum = 0

TicksNow == IF NewSequence THEN Ticks[ActiveContent(p.dec)] ELSE p.ticks

Sample ==
    [dts |-> p.auNum * TicksNow, duration |-> TicksNow, sync |-> p.dec.idr,
     newSd |-> p.newSd, size |-> Len(p.kept), pos |-> Len(p.info) + 1, end |-> p.i - 1]

(* A unit without its sets is counted, but mux_es_parsing passes over it.   *)
DeliverSample ==
    /\ p.run = "end" /\ Outcome = "ok"
    /\ p' = [p EXCEPT
               !.run = "idle", !.auNum = @ + 1, !.ticks = TicksNow,
               !.info = Append(@, p.kept),
               !.failed = IF Configured(p.dec) THEN @ ELSE @ + 1,
               !.dsis[Len(p.dsis)].profile =
                   IF NewSequence THEN ActiveContent(p.dec) ELSE @]
    /\ out' = IF Configured(p.dec) THEN Append(out, Sample) ELSE out
    /\ UNCHANGED <<es, status>>

EndOfStream ==
    /\ status = "open" /\ p.run = "idle" /\ p.i > Len(es.nals)
    /\ status' = "eoes"
    /\ UNCHANGED <<es, p, out>>

Fail ==
    /\ status = "open" /\ p.run = "end" /\ Outcome # "ok"
    /\ status' = Outcome
    /\ UNCHANGED <<es, p, out>>

Next == GetSample \/ TakeNal \/ DeliverSample \/ EndOfStream \/ Fail

Spec == Init /\ [][Next]_vars
-----------------------------------------------------------------------------
(* What comes out: copy_sample writes the NALs the location file has at     *)
(* pos, get_cfg the lists of a record, or none of them for avc3.            *)
CopySample(s) == p.info[s.pos]

Count(list, width) == Len(list) % width

AvcC(dsi) ==
    IF es.avc3 THEN [sps |-> << >>, pps |-> << >>]
    ELSE [sps |-> SubSeq(dsi.sps, 1, Count(dsi.sps, 32)),
          pps |-> SubSeq(dsi.pps, 1, Count(dsi.pps, 256))]

TypeOK ==
    /\ p.i \in 1..(Len(es.nals) + 1) /\ p.auNum = Len(out) + p.failed
    /\ status \in {"open", "eoes", "bad stream", "multiple descriptions", "buggy"}

Pictures(S) == {Nal(i).pic : i \in {j \in S : Nal(j).t \in {"slice", "idr"}}}

(* The NALs of a sample, kept or not.                                       *)
Extent(k) == ((IF k = 1 THEN 0 ELSE out[k - 1].end) + 1)..out[k].end

(* Streams whose units can be told apart: no NAL between two pictures that  *)
(* hides the first one (end of stream, filler, RPU, prefix, other views)    *)
(* unless a delimiter follows.                                              *)
Hides(t) == Class(t) = "no" \/ t \in {"prefix", "subset", "vdrd", "viewslice", "dolby3d"}

IsSlice(i) == Nal(i).t \in {"slice", "idr"}

WellDelimited ==
    /\ \A i \in 1..Len(es.nals) : Nal(i).t \notin {"eos", "prefix"}
    /\ \A i \in 1..(Len(es.nals) - 1) :
         Hides(Nal(i).t) => Nal(i + 1).t \in {"aud", "slice", "idr"} \/ Hides(Nal(i + 1).t)

(* Streams of whole pictures: the set of a picture, or the one taken for    *)
(* it, is ahead of it, what hides it follows it, delimiters, messages and   *)
(* sets have a picture behind them; pic tells a picture from the one before *)
(* it, and a redundant slice follows the picture it repeats.                *)
WholePictures ==
    /\ \A i \in 1..Len(es.nals) :
        /\ IsSlice(i) => \E j \in 1..(i - 1) : Nal(j).t = "pps" /\ Nal(j).id \in {Nal(i).pps, 0}
        /\ Hides(Nal(i).t) => i > 1 /\ (IsSlice(i - 1) \/ Hides(Nal(i - 1).t))
        /\ Class(Nal(i).t) = "not vcl" => \E j \in i..Len(es.nals) : IsSlice(j)
    /\ \A i, j \in 1..Len(es.nals) :
        IsSlice(i) /\ IsSlice(j) /\ i < j /\ (\A m \in (i + 1)..(j - 1) : ~IsSlice(m)) =>
            /\ Nal(j).red => Nal(j).pic = Nal(i).pic
            /\ Nal(j).pic = Nal(i).pic =>
                 /\ Nal(j).pps = Nal(i).pps /\ Nal(j).t = Nal(i).t
                 /\ \A m \in i..j : Class(Nal(m).t) # "not vcl"

(* One sample is one picture, with its own NALs: neighbouring samples do    *)
(* not share a picture, none has two, what is written of a sample is what   *)
(* its size says, and parameter sets, messages and the delimiter before a   *)
(* picture come with it.                                                    *)
AccessUnits ==
    WellDelimited /\ p.failed = 0 => \A k \in 1..Len(out) :
        /\ Cardinality(Pictures(Extent(k))) = 1
        /\ k > 1 => Pictures(Extent(k - 1)) # Pictures(Extent(k))
        /\ Len(CopySample(out[k])) = out[k].size
        /\ \A i \in 1..out[k].size : CopySample(out[k])[i] \in Extent(k)
        /\ {i \in Extent(k) : Nal(i).t \in {"slice", "idr", "aud"}}
             \subseteq {CopySample(out[k])[i] : i \in 1..out[k].size}
        /\ Class(Nal(out[k].end).t) = "not vcl" => out[k].end = Len(es.nals)

(* The sets in force where the picture of a sample begins.                  *)
FirstSliceOf(k) == Earliest({i \in Extent(k) : Nal(i).t \in {"slice", "idr"}})

InForce(t, id, i) ==
    LET S == {j \in 1..i : Nal(j).t = t /\ Nal(j).id = id}
    IN  Nal(CHOOSE j \in S : \A m \in S : m <= j).c

(* Streams whose sets the records can follow: every slice comes after its   *)
(* PPS, and there is one id of each kind, or none whose content changes.    *)
Contents(t, id) == {Nal(i).c : i \in {j \in 1..Len(es.nals) : Nal(j).t = t /\ Nal(j).id = id}}

IdsOf(t) == {Nal(i).id : i \in {j \in 1..Len(es.nals) : Nal(j).t = t}}

Followable ==
    /\ \A i \in 1..Len(es.nals) : Nal(i).t \in {"slice", "idr"} =>
         \E j \in 1..i : Nal(j).t = "pps" /\ Nal(j).id = Nal(i).pps
    /\ \/ \A t \in {"sps", "pps"} : Cardinality(IdsOf(t)) <= 1
       \/ \A t \in {"sps", "pps"} : \A id \in IdsOf(t) : Cardinality(Contents(t, id)) = 1

(* When all is read, the description of every sample has the PPS and SPS    *)
(* its picture uses, with the content they had there (not for avc3, where   *)
(* they are in the samples).                                                *)
SetsInDescription ==
    status = "eoes" /\ ~es.avc3 /\ WellDelimited /\ p.failed = 0 /\ Followable =>
        \A k \in 1..Len(out) :
            LET i    == FirstSliceOf(k)
                cfg  == AvcC(p.dsis[DescriptionIdx(out, k, p.dsis)])
                pps  == Nal(i).pps
                used == {j \in 1..i : Nal(j).t = "pps" /\ Nal(j).id = pps}
                sps  == Nal(CHOOSE j \in used : \A m \in used : m <= j).sps
            IN  /\ Gives(cfg.pps, pps, InForce("pps", pps, i))
                /\ Gives(cfg.sps, sps, InForce("sps", sps, i))

(* "all other sets would stay the same and just one set has to be updated": *)
(* a record has every set of the one it was cloned from.                    *)
SetsCarryOver ==
    \A i \in 2..Len(p.dsis) :
        /\ Identifiers(p.dsis[i - 1].sps) \subseteq Identifiers(p.dsis[i].sps)
        /\ Identifiers(p.dsis[i - 1].pps) \subseteq Identifiers(p.dsis[i].pps)
=============================================================================
