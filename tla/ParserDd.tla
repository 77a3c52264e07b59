------------------------------ MODULE ParserDd ------------------------------
(***************************************************************************)
(* The AC-3 and E-AC-3 parser, src/src/esparser/parser_dd.c.  A Dolby      *)
(* Digital frame is an independent substream frame for each program, each  *)
(* followed by its dependent ones, and only the next frame's header shows  *)
(* that it is complete.  get_sample puts frames together until they have   *)
(* six blocks of audio.                                                    *)
(*                                                                         *)
(* The stream es has units, the substream frames, and says whether the     *)
(* data stop in the header or the payload of the last one.  A unit is      *)
(*   "ac3"   an AC-3 frame, ok unless its rate or size code is invalid,    *)
(*   "ind"   an independent E-AC-3 frame (stream types 0 and 2),           *)
(*   "dep"   a dependent one (type 1),                                     *)
(*   "junk"  a frame with another version or of the reserved type 3;       *)
(* with a substream id and a number of blocks.  A header that does not fit *)
(* is skipped for the next sync word.                                      *)
(***************************************************************************)
EXTENDS Integers, Sequences, FiniteSets, Sums

CONSTANTS
    Streams,            \* the streams that may be met
    MaxStreams,         \* EC3_MAX_STREAMS and EC3_MAX_SUBSTREAMS
    SamplesPerBlock,    \* SAMPLES_PER_BLOCK
    FullBlocks          \* blocks of a sample: 1536 / SAMPLES_PER_BLOCK

VARIABLES
    es,
    p,      \* parser_dd_t: pos, lastIndep, lastDep, numblks, aud (blocks of
            \* aud_sample_num), taken (the units in sample_buf), inds and deps
            \* (the substreams ever met), dts, num (mp4_sample_num), counted
            \* (substreams in bit_rate), numInd; calling: get_sample runs
    out,
    status

vars == <<es, p, out, status>>

Unit(i) == es.units[i]

(* What streams are made of: the number of blocks, 6 for AC-3 and one of    *)
(* numblks_tbl else, divides that of a sample; the ids have 3 bits.  Of a   *)
(* stream with one number of blocks, all samples last equally long.         *)
IsUnit(u) ==
    /\ u.t \in {"ac3", "ind", "dep", "junk"} /\ u.id \in 0..(MaxStreams - 1)
    /\ u.blks \in Nat /\ u.ok \in BOOLEAN
    /\ u.t # "junk" => \E n \in 1..FullBlocks : n * u.blks = FullBlocks
    /\ u.t = "ac3" => u.id = 0 /\ u.blks = FullBlocks

IsStream(s) ==
    /\ Len(s.units) \in Nat /\ s.cut \in {"none", "header", "payload"}
    /\ \A i \in 1..Len(s.units) : IsUnit(s.units[i])

OneBlockCount(s) ==
    \E b \in 1..FullBlocks : \A i \in 1..Len(s.units) :
        s.units[i].t # "junk" => s.units[i].blks = b

(* The last header cannot be read if the data stop in it.                   *)
HeaderAt(i) == i < Len(es.units) \/ (i = Len(es.units) /\ es.cut # "header")
-----------------------------------------------------------------------------
Start(stream) ==
    /\ es = stream /\ out = << >> /\ status = "open"
    /\ p = [pos |-> 1, lastIndep |-> -1, lastDep |-> -1, numblks |-> 0, aud |-> 0,
            taken |-> << >>, inds |-> 0, deps |-> [i \in 0..(MaxStreams - 1) |-> 0],
            dts |-> 0, num |-> 0, counted |-> 0, numInd |-> 0, calling |-> FALSE]

Init == \E stream \in Streams : Start(stream)

GetSample ==
    /\ ~p.calling /\ status = "open"
    /\ p' = [p EXCEPT !.lastIndep = -1, !.taken = << >>, !.aud = 0, !.calling = TRUE]
    /\ UNCHANGED <<es, out, status>>

(* A header that ends the frame: of an AC-3 frame, or of independent        *)
(* substream 0, when one is being collected.  (Nothing else in it is read.) *)
EndsFrame(u) ==
    p.lastIndep >= 0 /\ (u.t = "ac3" \/ (u.t = "ind" /\ u.id = 0))

(* parse_ac3_substream, parse_ec3_substream: the substreams of a frame come *)
(* in the order of their numbers.                                           *)
Belongs(u) ==
    \/ u.t = "ac3" /\ u.ok /\ p.lastIndep < 0
    \/ u.t = "ind" /\ u.id = p.lastIndep + 1 /\ u.id < MaxStreams
    \/ u.t = "dep" /\ p.lastIndep >= 0 /\ u.id = p.lastDep + 1 /\ u.id < MaxStreams

AtLeast(a, b) == IF a >= b THEN a ELSE b

Entered(u) ==
    IF u.t = "dep"
    THEN [p EXCEPT !.lastDep = u.id, !.deps[p.lastIndep] = AtLeast(@, u.id + 1),
                   !.numblks = u.blks]
    ELSE [p EXCEPT !.lastIndep = u.id, !.lastDep = -1, !.inds = AtLeast(@, u.id + 1),
                   !.numblks = u.blks]

(* Its bytes are added.  The bit rate is summed over the first frame.       *)
MutCounted(u) == IF p.num = 0 THEN p.counted + 1 ELSE p.counted

Counted(u) ==
    IF p.num # 0 THEN p.counted
    ELSE IF u.t = "ac3" THEN 1
    ELSE IF p.aud = 0 THEN p.counted + 1 ELSE p.counted

TakeSubstream ==
    /\ p.calling /\ HeaderAt(p.pos)
    /\ LET u == Unit(p.pos)
       IN  /\ ~EndsFrame(u) /\ Belongs(u)
           /\ p' = [Entered(u) EXCEPT !.taken = Append(@, p.pos), !.pos = @ + 1,
                                      !.counted = Counted(u)]
    /\ UNCHANGED <<es, out, status>>

(* The next sync word is looked for after a header that does not fit.  An   *)
(* AC-3 frame counts as begun before its codes are looked at.               *)
Resync ==
    /\ p.calling /\ HeaderAt(p.pos)
    /\ LET u == Unit(p.pos)
       IN  /\ ~EndsFrame(u) /\ ~Belongs(u)
           /\ p' = [(IF u.t = "ac3" THEN Entered(u) ELSE p) EXCEPT !.pos = p.pos + 1]
    /\ UNCHANGED <<es, out, status>>

(* A frame is complete but not the sample: back to the header.              *)
NextFrame ==
    /\ p.calling /\ HeaderAt(p.pos) /\ EndsFrame(Unit(p.pos))
    /\ p.aud + p.numblks < FullBlocks
    /\ p' = [p EXCEPT !.aud = @ + p.numblks, !.lastIndep = -1]
    /\ UNCHANGED <<es, out, status>>

(* The sample, and the parser after it.                                     *)
MutSample(blocks) ==
    [dts |-> p.dts + p.aud * SamplesPerBlock, duration |-> blocks * SamplesPerBlock,
     size |-> Len(p.taken), units |-> p.taken, sync |-> TRUE, newSd |-> p.num = 0]

Sample(blocks) ==
    [dts |-> IF p.num = 0 THEN p.dts ELSE p.dts + blocks * SamplesPerBlock,
     duration |-> blocks * SamplesPerBlock,
     size |-> Len(p.taken), units |-> p.taken,
     sync |-> TRUE, newSd |-> p.num = 0]

DeliverSample(blocks) ==
    /\ out' = Append(out, Sample(blocks))
    /\ p' = [p EXCEPT !.dts = Sample(blocks).dts, !.num = @ + 1, !.aud = blocks,
                      !.numInd = IF p.num = 0 THEN p.inds ELSE @,
                      !.lastIndep = -1, !.calling = FALSE]
    /\ UNCHANGED <<es, status>>

CompleteSample ==
    /\ p.calling /\ HeaderAt(p.pos) /\ EndsFrame(Unit(p.pos))
    /\ p.aud + p.numblks >= FullBlocks
    /\ DeliverSample(p.aud + p.numblks)

(* The data have ended: what was collected is a frame if no further         *)
(* substream was ever met, and the last sample if it has exactly the        *)
(* blocks.                                                                  *)
LastFrameComplete ==
    /\ p.lastIndep >= 0
    /\ p.lastIndep = MaxStreams - 1 \/ p.lastIndep + 1 >= p.inds
    /\ p.lastDep = MaxStreams - 1 \/ p.lastDep + 1 >= p.deps[p.lastIndep]

LastSample ==
    /\ p.calling /\ ~HeaderAt(p.pos)
    /\ LastFrameComplete /\ p.aud + p.numblks = FullBlocks
    /\ DeliverSample(p.aud + p.numblks)

EndOfStream ==
    /\ p.calling /\ ~HeaderAt(p.pos)
    /\ ~(LastFrameComplete /\ p.aud + p.numblks = FullBlocks)
    /\ status' = "eoes"
    /\ p' = [p EXCEPT !.calling = FALSE]
    /\ UNCHANGED <<es, out>>

Next ==
    \/ GetSample \/ TakeSubstream \/ Resync \/ NextFrame
    \/ CompleteSample \/ LastSample \/ EndOfStream

Spec == Init /\ [][Next]_vars
-----------------------------------------------------------------------------
(* parser_ec3_get_cfg: the programs of the first sample, with the dependent *)
(* substreams ever met.                                                     *)
Ec3Cfg == [i \in 0..(p.numInd - 1) |-> p.deps[i]]

TypeOK ==
    /\ p.lastIndep \in -1..(MaxStreams - 1) /\ p.lastDep \in -1..(MaxStreams - 1)
    /\ p.pos \in 1..(Len(es.units) + 1) /\ p.inds \in 0..MaxStreams
    /\ status \in {"open", "eoes"}

(* The first units of frames in a sample.                                   *)
Opens(i) == Unit(i).t = "ac3" \/ (Unit(i).t = "ind" /\ Unit(i).id = 0)

BlocksOf(units) ==
    SumOver([k \in 1..Len(units) |-> IF Opens(units[k]) THEN Unit(units[k]).blks ELSE 0],
            1, Len(units))

Intact == \A i \in 1..Len(es.units) : Unit(i).t = "ac3" => Unit(i).ok

(* A sample begins where a frame begins, has whole frames with all their    *)
(* substreams in order, and lasts as long as their blocks; no unit is in    *)
(* two samples, and none between the first and the last taken is left out   *)
(* but those that fit no frame.  (An AC-3 header with invalid codes opens a *)
(* frame without bytes: see Resync.)                                        *)
Follows(u, before) ==
    IF u.t = "ind" THEN u.id > 0
    ELSE u.id = 0 \/ (before.t = "dep" /\ before.id = u.id - 1)

SamplesAreWholeFrames ==
    Intact => \A k \in 1..Len(out) :
        LET u == out[k].units
        IN  /\ u # << >> /\ Opens(u[1])
            /\ \A i \in 2..Len(u) :
                 Unit(u[i]).t # "junk" /\ (Opens(u[i]) \/ Follows(Unit(u[i]), Unit(u[i - 1])))
            /\ out[k].duration = BlocksOf(u) * SamplesPerBlock
            /\ k < Len(out) =>
                 \A i \in (u[Len(u)] + 1)..(out[k + 1].units[1] - 1) : ~Opens(i)

(* The configuration written for a stream with the same substreams in every *)
(* frame has these substreams, and its bit rate counts each of them once.   *)
Regular ==
    /\ Intact
    /\ \A i \in 1..Len(es.units) : Unit(i).t # "junk"
    /\ Len(es.units) > 0 /\ Opens(1) /\ es.cut = "none"
    /\ LET n == Cardinality({i \in 1..Len(es.units) : Opens(i)})
           w == Len(es.units) \div n
       IN  /\ w * n = Len(es.units)
           /\ \A i \in 1..Len(es.units) : Opens(i) <=> i % w = 1 % w
           /\ \A i \in 1..(Len(es.units) - w) : Unit(i) = Unit(i + w)
           /\ \A i \in 2..w :
                \/ Unit(i).t = "dep" /\ Unit(i - 1).t = "dep" /\ Unit(i).id = Unit(i - 1).id + 1
                \/ Unit(i).t = "dep" /\ Unit(i - 1).t # "dep" /\ Unit(i).id = 0
                \/ /\ Unit(i).t = "ind"
                   /\ Unit(i).id = Cardinality({j \in 1..(i - 1) : Unit(j).t # "dep"})

FrameUnits ==
    1..(Len(es.units) \div Cardinality({i \in 1..Len(es.units) : Opens(i)}))

ConfigDescribesFrames ==
    Regular /\ out # << >> =>
        /\ p.numInd = Cardinality({i \in FrameUnits : Unit(i).t # "dep"})
        /\ p.counted = Cardinality(FrameUnits)
        /\ SumOver(Ec3Cfg, 0, p.numInd - 1) = Cardinality({i \in FrameUnits : Unit(i).t = "dep"})

(* Nothing of a regular stream is lost but an incomplete sample at its end. *)
NothingLost ==
    Regular /\ status = "eoes" =>
        LET taken == SumOver([k \in 1..Len(out) |-> out[k].size], 1, Len(out))
        IN  /\ taken <= Len(es.units)
            /\ BlocksOf([i \in 1..(Len(es.units) - taken) |-> i + taken]) < FullBlocks
=============================================================================
