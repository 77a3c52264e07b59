---------------------------- MODULE ParserProofs ----------------------------
(***************************************************************************)
(* The parsers for every stream: MCParsers puts streams together from a    *)
(* few units, and stops after a handful.                                   *)
(***************************************************************************)
EXTENDS Parsers, SumsProofs, FiniteSetTheorems

(* Sequences of anything.                                                   *)
IsSeq(s) == \E S : s \in Seq(S)

LEMMA EmptyIsSeq == IsSeq(<< >>)
<1>1. << >> \in Seq({})
  OBVIOUS
<1> QED BY <1>1 DEF IsSeq

LEMMA Appended ==
    ASSUME NEW s, IsSeq(s), NEW e
    PROVE  /\ IsSeq(Append(s, e)) /\ Append(s, e) # << >>
           /\ Len(s) \in Nat /\ Len(Append(s, e)) = Len(s) + 1
           /\ Append(s, e)[Len(s) + 1] = e
           /\ \A i \in 1..Len(s) : Append(s, e)[i] = s[i]
           /\ SubSeq(Append(s, e), 1, Len(s)) = s
           /\ s = << >> <=> Len(s) = 0
<1>1. PICK S : s \in Seq(S)
  BY DEF IsSeq
<1> DEFINE T == S \cup {e}
<1>2. s \in Seq(T) /\ e \in T
  BY <1>1
<1> HIDE DEF T
<1>3. Append(s, e) \in Seq(T) /\ Len(Append(s, e)) = Len(s) + 1 /\ Len(s) \in Nat
  BY <1>2
<1>4. /\ Append(s, e)[Len(s) + 1] = e
      /\ \A i \in 1..Len(s) : Append(s, e)[i] = s[i]
  BY <1>2
<1>5. SubSeq(Append(s, e), 1, Len(s)) = s
  BY <1>2, <1>3, <1>4
<1>6. IsSeq(Append(s, e))
  BY <1>3 DEF IsSeq
<1>7. Append(s, e) # << >>
  BY <1>2, <1>3
<1>8. s = << >> <=> Len(s) = 0
  BY <1>2
<1> QED BY <1>3, <1>4, <1>5, <1>6, <1>7, <1>8
-----------------------------------------------------------------------------
(* The promise to the caller of get_sample.  A sample is delivered as       *)
(* promised if it begins where the last one ended, or later after a sample  *)
(* passed over.                                                             *)
LEMMA Delivered ==
    ASSUME IsSeq(out), NEW s, out' = Append(out, s),
           status = "open", status' = status, Skipped' = Skipped,
           \/ s.dts = Promise!DtsAfter(out)
           \/ Skipped /\ s.dts > Promise!DtsAfter(out),
           out = << >> /\ ~Skipped => s.newSd
    PROVE  Promise!Deliver
<1>1. /\ out' # << >> /\ out'[Len(out')] = s
      /\ SubSeq(out', 1, Len(out') - 1) = out
  <2>1. Len(out') - 1 = Len(out) /\ Len(out') = Len(out) + 1
    BY Appended
  <2> QED BY <2>1, Appended
<1> QED BY <1>1 DEF Promise!Deliver, Promise!Newest


(* A call that only sets the status ends the stream.                        *)
LEMMA Stopped ==
    ASSUME status' # status, status' # "open", out' = out, Skipped' = Skipped
    PROVE  Promise!Stop
BY DEF Promise!Stop

Answered == Promise!Next \/ UNCHANGED <<out, status, Skipped>>

(* AAC: each sample lasts SamplesPerFrame.                                  *)
AacPace == IsSeq(out) /\ (out # << >> => out[Len(out)].duration = SamplesPerFrame)

LEMMA AacAnswers ==
    ASSUME kind = "aac", kind' = kind, AacPace, Aac!Next
    PROVE  AacPace' /\ Answered
<1>0. Skipped' = Skipped
  BY DEF Skipped
<1>1. CASE Aac!InitParser
  <2>1. out' = out
    BY <1>1 DEF Aac!InitParser
  <2>2. status = "open" /\ status' \in {status, "eoes"}
    BY <1>1 DEF Aac!InitParser
  <2> QED BY <1>0, <2>1, <2>2, Stopped DEF AacPace, Answered, Promise!Next
<1>2. CASE Aac!EndOfStream \/ Aac!NoSupport
  <2>1. out' = out /\ status = "open" /\ status' \in {"eoes", "no support"}
    BY <1>2 DEF Aac!EndOfStream, Aac!NoSupport
  <2> QED BY <1>0, <2>1, Stopped DEF AacPace, Answered, Promise!Next
<1>3. CASE Aac!RateChanged
  <2>1. out' = out /\ status = "open" /\ status' = "config error"
    BY <1>3 DEF Aac!RateChanged
  <2> QED BY <1>0, <2>1, Stopped DEF AacPace, Answered, Promise!Next
<1>4. CASE Aac!GetSample
  <2> DEFINE x == Aac!Sample(Aac!Scan(p.pos))
  <2>1. status = "open" /\ status' = status /\ out' = Append(out, x)
    BY <1>4 DEF Aac!GetSample
  <2>2. x.dts = IF out = << >> THEN 0 ELSE out[Len(out)].dts + SamplesPerFrame
    BY DEF Aac!Sample
  <2>3. x.duration = SamplesPerFrame /\ (out = << >> => x.newSd)
    BY DEF Aac!Sample
  <2> HIDE DEF x
  <2>4. x.dts = Promise!DtsAfter(out)
    BY <2>2 DEF AacPace, Promise!DtsAfter, Promise!Newest
  <2>5. Promise!Deliver
    BY <1>0, <2>1, <2>3, <2>4, Delivered DEF AacPace
  <2>6. AacPace'
    <3>1. Len(out') = Len(out) + 1 /\ out'[Len(out) + 1] = x /\ IsSeq(out')
      BY <2>1, Appended DEF AacPace
    <3> QED BY <2>3, <3>1 DEF AacPace
  <2> QED BY <2>5, <2>6 DEF Answered, Promise!Next
<1> QED BY <1>1, <1>2, <1>3, <1>4 DEF Aac!Next

(* AC-4: each sample lasts as long as the first.                            *)
Ac4Pace ==
    /\ IsSeq(out)
    /\ "ticks" \in DOMAIN p /\ "num" \in DOMAIN p /\ p.num = Len(out)
    /\ out # << >> => out[Len(out)].duration = p.ticks

LEMMA Ac4Reads ==
    ASSUME NEW toc, NEW rest
    PROVE  /\ DOMAIN Ac4!ReadToc(toc, rest) = DOMAIN p
           /\ Ac4!ReadToc(toc, rest).num = p.num
PROOF BY DEF Ac4!ReadToc

LEMMA Ac4Answers ==
    ASSUME kind = "ac4", kind' = kind, Ac4Pace, Ac4!Next
    PROVE  Ac4Pace' /\ Answered
<1>0. Skipped' = Skipped
  BY DEF Skipped
<1>1. CASE Ac4!InitParser
  <2>1. out' = out /\ status = "open" /\ status' \in {status, "eoes"}
    BY <1>1 DEF Ac4!InitParser
  <2>2. p' = p \/ p' = [p EXCEPT !.pos = 0]
    BY <1>1 DEF Ac4!InitParser
  <2> QED BY <1>0, <2>1, <2>2, Stopped DEF Ac4Pace, Answered, Promise!Next
<1>2. CASE Ac4!EndOfStream \/ Ac4!TocError
  <2>1. out' = out /\ p' = p /\ status = "open" /\ status' \in {"eoes", "es error"}
    BY <1>2 DEF Ac4!EndOfStream, Ac4!TocError
  <2> QED BY <1>0, <2>1, Stopped DEF Ac4Pace, Answered, Promise!Next
<1>3. CASE Ac4!GetMp4Cfg
  <2>1. out' = out /\ status = "eoes" /\ status' = "configured"
    BY <1>3 DEF Ac4!GetMp4Cfg
  <2>2. \E b : p' = [p EXCEPT !.dac4 = b]
    BY <1>3 DEF Ac4!GetMp4Cfg
  <2> QED BY <1>0, <2>1, <2>2, Stopped DEF Ac4Pace, Answered, Promise!Next
<1>4. CASE Ac4!GetSample
  <2> DEFINE i == Ac4!Min(Ac4!SyncFrom(p.pos))
             t == IF p.num = 0 THEN Ac4!Ticks(Ac4!Cell(i).toc.rate) ELSE p.ticks
             x == Ac4!Sample(i, t)
  <2>1. status = "open" /\ status' = status /\ out' = Append(out, x)
    BY <1>4 DEF Ac4!GetSample
  <2>2. x.dts = IF out = << >> THEN 0 ELSE Ac4!Last(out).dts + t
    BY DEF Ac4!Sample
  <2>3. x.duration = t /\ x.newSd = (p.num = 0)
    BY DEF Ac4!Sample
  <2>4. \E r, c, e : p' = [r EXCEPT !.pos = e, !.ticks = t, !.num = @ + 1, !.channels = c]
                     /\ DOMAIN r = DOMAIN p /\ r.num = p.num
    <3>1. PICK rest \in Rest : LET q == Ac4!ReadToc(Ac4!Cell(i).toc, rest)
                IN  p' = [q EXCEPT !.pos = Ac4!Clip(Ac4!FrameEnd(i)), !.ticks = t, !.num = @ + 1,
                                   !.channels = IF p.num = 0 THEN Ac4!ChannelCount(q) ELSE @]
      BY <1>4 DEF Ac4!GetSample
    <3> DEFINE q == Ac4!ReadToc(Ac4!Cell(i).toc, rest)
    <3>2. DOMAIN q = DOMAIN p /\ q.num = p.num
      BY Ac4Reads DEF Ac4Pace
    <3> HIDE DEF q, t
    <3> QED BY <3>1, <3>2 DEF q
  <2> HIDE DEF x, t, i
  <2>5. out # << >> => t = p.ticks
    BY Appended DEF Ac4Pace, t
  <2>6. x.dts = Promise!DtsAfter(out)
    BY <2>2, <2>5 DEF Ac4Pace, Promise!DtsAfter, Promise!Newest, Ac4!Last
  <2>7. out = << >> => x.newSd
    BY <2>3, Appended DEF Ac4Pace
  <2>8. Promise!Deliver
    BY <1>0, <2>1, <2>6, <2>7, Delivered DEF Ac4Pace
  <2>9. Ac4Pace'
    <3>1. Len(out') = Len(out) + 1 /\ out'[Len(out) + 1] = x /\ IsSeq(out')
      BY <2>1, Appended DEF Ac4Pace
    <3>2. "ticks" \in DOMAIN p' /\ "num" \in DOMAIN p' /\ p'.num = p.num + 1 /\ p'.ticks = t
      BY <2>4 DEF Ac4Pace
    <3> QED BY <2>3, <3>1, <3>2 DEF Ac4Pace
  <2> QED BY <2>8, <2>9 DEF Answered, Promise!Next
<1> QED BY <1>1, <1>2, <1>3, <1>4 DEF Ac4!Next

(* AC-3 and E-AC-3: with b blocks in each frame, a sample has the first     *)
(* multiple of b that is not below FullBlocks.                              *)
Multiples(b) == {k * b : k \in Nat}

Enough(b) == {d \in Multiples(b) : FullBlocks <= d /\ d < FullBlocks + b}

LEMMA MultiplesAreApart ==
    ASSUME NEW b \in Nat \ {0}, NEW k \in Nat, NEW m \in Nat, k > m
    PROVE  k * b >= m * b + b
<1>1. PICK e \in Nat : k = m + 1 + e
  <2>1. k - m - 1 \in Nat /\ k = m + 1 + (k - m - 1)
    OBVIOUS
  <2> QED BY <2>1
<1>2. k * b = m * b + b + e * b
  BY <1>1
<1>3. m * b \in Nat /\ e * b \in Nat
  BY <1>1
<1> QED BY <1>2, <1>3

LEMMA OneIsEnough ==
    ASSUME NEW b \in Nat \ {0}, NEW x \in Enough(b), NEW y \in Enough(b)
    PROVE  x = y
<1>1. PICK k \in Nat, m \in Nat : x = k * b /\ y = m * b
  BY DEF Enough, Multiples
<1>2. FullBlocks \in Nat
  BY StreamsAssumption
<1>3. x \in Int /\ y \in Int /\ x - y < b /\ y - x < b
  <2>1. k * b \in Nat /\ m * b \in Nat
    OBVIOUS
  <2> QED BY <1>1, <1>2, <2>1 DEF Enough
<1>4. ~(k > m) /\ ~(m > k)
  BY <1>1, <1>3, MultiplesAreApart
<1>5. k = m
  BY <1>4
<1> QED BY <1>1, <1>5

LEMMA OneMore ==
    ASSUME NEW b \in Nat \ {0}, NEW a \in Multiples(b)
    PROVE  a \in Nat /\ a + b \in Multiples(b)
<1>1. PICK k \in Nat : a = k * b
  BY DEF Multiples
<1>2. k + 1 \in Nat /\ a + b = (k + 1) * b /\ a \in Nat
  BY <1>1
<1> QED BY <1>2 DEF Multiples

DdFields ==
    {"pos", "lastIndep", "lastDep", "numblks", "aud", "taken", "inds", "deps", "dts", "num",
     "counted", "numInd", "calling"}

(* The sample in the making, and the one before it.                         *)
DdAt(b) ==
    /\ \A i \in 1..Len(es.units) : es.units[i].t # "junk" => es.units[i].blks = b
    /\ p.calling =>
         /\ status = "open"
         /\ p.aud \in Multiples(b) /\ p.aud < FullBlocks
         /\ p.lastIndep >= 0 => p.numblks = b
    /\ p.num = Len(out)
    /\ out = << >> => p.dts = 0
    /\ out # << >> => \E d \in Enough(b) :
         out[Len(out)].duration = d * SamplesPerBlock /\ out[Len(out)].dts = p.dts

DdPace ==
    /\ IsSeq(out) /\ es \in DdStreams
    /\ DOMAIN p = DdFields /\ p.pos \in Nat \ {0} /\ p.lastIndep \in Int /\ p.calling \in BOOLEAN
    /\ \E b \in 1..FullBlocks : DdAt(b)

LEMMA DdUnits ==
    ASSUME es \in DdStreams, NEW i, i \in Nat \ {0}, Dd!HeaderAt(i)
    PROVE  i \in 1..Len(es.units) /\ Dd!IsUnit(Dd!Unit(i))
<1>1. Dd!IsStream(es)
  BY StreamsAssumption
<1>2. Len(es.units) \in Nat /\ i \in Nat /\ i >= 1 /\ i <= Len(es.units)
  BY <1>1 DEF Dd!IsStream, Dd!HeaderAt
<1> QED BY <1>1, <1>2 DEF Dd!IsStream, Dd!Unit

(* Whatever happens to a unit, these stay as they are.                      *)
LEMMA DdEntered ==
    ASSUME DOMAIN p = DdFields, p.lastIndep \in Int, NEW u, Dd!IsUnit(u),
           u.t # "ac3" => Dd!Belongs(u)
    PROVE  LET e == Dd!Entered(u)
           IN  /\ DOMAIN e = DdFields
               /\ \A f \in {"pos", "aud", "dts", "num", "calling"} : e[f] = p[f]
               /\ e.numblks = u.blks /\ e.lastIndep \in Int /\ u.t # "junk"
<1>1. u.t # "junk" /\ u.id \in Nat
  BY DEF Dd!Belongs, Dd!IsUnit
<1> QED BY <1>1 DEF Dd!Entered, DdFields

LEMMA DdMoves ==
    ASSUME kind = "dd", kind' = kind, DdPace, Dd!TakeSubstream \/ Dd!Resync
    PROVE  DdPace' /\ Answered
<1> DEFINE u == Dd!Unit(p.pos)
<1>0. Skipped' = Skipped
  BY DEF Skipped
<1>1. out' = out /\ status' = status /\ es' = es /\ p.calling
  BY DEF Dd!TakeSubstream, Dd!Resync
<1>2. p.pos \in 1..Len(es.units) /\ Dd!IsUnit(u)
  BY DdUnits DEF DdPace, Dd!TakeSubstream, Dd!Resync
<1>3. PICK b \in 1..FullBlocks : DdAt(b)
  BY DEF DdPace
<1>4. /\ DOMAIN p' = DdFields /\ p'.pos \in Nat \ {0} /\ p'.lastIndep \in Int
      /\ \A f \in {"aud", "dts", "num", "calling"} : p'[f] = p[f]
      /\ \/ p'.numblks = p.numblks /\ p'.lastIndep = p.lastIndep
         \/ p'.numblks = u.blks /\ u.t # "junk"
  <2>1. CASE Dd!TakeSubstream
    <3> DEFINE e == Dd!Entered(u)
    <3>1. Dd!Belongs(u) /\ \E c, tk : p' = [e EXCEPT !.taken = tk, !.pos = @ + 1, !.counted = c]
      BY <2>1 DEF Dd!TakeSubstream
    <3>2. /\ DOMAIN e = DdFields
          /\ \A f \in {"pos", "aud", "dts", "num", "calling"} : e[f] = p[f]
          /\ e.numblks = u.blks /\ e.lastIndep \in Int /\ u.t # "junk"
      BY <1>2, <3>1, DdEntered DEF DdPace
    <3>3. p.pos \in Nat
      BY DEF DdPace
    <3> HIDE DEF e, u
    <3> QED BY <3>1, <3>2, <3>3 DEF DdFields
  <2>2. CASE Dd!Resync
    <3> DEFINE e == Dd!Entered(u)
    <3>1. p' = [(IF u.t = "ac3" THEN e ELSE p) EXCEPT !.pos = p.pos + 1]
      BY <2>2 DEF Dd!Resync
    <3>2. u.t = "ac3" =>
          /\ DOMAIN e = DdFields
          /\ \A f \in {"pos", "aud", "dts", "num", "calling"} : e[f] = p[f]
          /\ e.numblks = u.blks /\ e.lastIndep \in Int /\ u.t # "junk"
      BY <1>2, <3>1, DdEntered DEF DdPace
    <3>3. p.pos \in Nat /\ DOMAIN p = DdFields /\ p.lastIndep \in Int
      BY DEF DdPace
    <3> HIDE DEF e, u
    <3>4. CASE u.t = "ac3"
      BY <3>1, <3>2, <3>3, <3>4 DEF DdFields
    <3>5. CASE u.t # "ac3"
      BY <3>1, <3>3, <3>5 DEF DdFields
    <3> QED BY <3>4, <3>5
  <2> QED BY <2>1, <2>2
<1>5. u.t # "junk" => u.blks = b
  BY <1>2, <1>3 DEF DdAt, Dd!Unit
<1>6. DdAt(b)'
  <2> HIDE DEF u
  <2> QED BY <1>1, <1>3, <1>4, <1>5 DEF DdAt
<1> QED BY <1>0, <1>1, <1>3, <1>4, <1>6 DEF DdPace, Answered

LEMMA DdDelivers ==
    ASSUME kind = "dd", kind' = kind, DdPace, p.calling,
           NEW b \in 1..FullBlocks, DdAt(b),
           NEW blocks \in Enough(b), Dd!DeliverSample(blocks)
    PROVE  DdPace' /\ Answered
<1> DEFINE x == Dd!Sample(blocks)
<1>0. Skipped' = Skipped /\ ~Skipped
  BY DEF Skipped
<1>1. /\ out' = Append(out, x) /\ es' = es /\ status' = status /\ status = "open"
      /\ \E n : p' = [p EXCEPT !.dts = x.dts, !.num = @ + 1, !.aud = blocks, !.numInd = n,
                               !.lastIndep = -1, !.calling = FALSE]
  BY DEF Dd!DeliverSample, DdAt
<1>2. /\ x.dts = IF p.num = 0 THEN p.dts ELSE p.dts + blocks * SamplesPerBlock
      /\ x.duration = blocks * SamplesPerBlock /\ x.newSd = (p.num = 0)
  BY DEF Dd!Sample
<1> HIDE DEF x
<1>3. /\ Len(out') = Len(out) + 1 /\ out'[Len(out) + 1] = x /\ IsSeq(out') /\ out' # << >>
      /\ out = << >> <=> Len(out) = 0
  BY <1>1, Appended DEF DdPace
<1>4. x.dts = Promise!DtsAfter(out)
  <2>1. CASE out = << >>
    BY <1>2, <1>3, <2>1 DEF DdAt, Promise!DtsAfter
  <2>2. CASE out # << >>
    <3>1. PICK d \in Enough(b) : out[Len(out)].duration = d * SamplesPerBlock /\ out[Len(out)].dts = p.dts
      BY <2>2 DEF DdAt
    <3>2. d = blocks
      BY OneIsEnough
    <3> QED BY <1>2, <1>3, <2>2, <3>1, <3>2 DEF DdAt, Promise!DtsAfter, Promise!Newest
  <2> QED BY <2>1, <2>2
<1>5. Promise!Deliver
  BY <1>0, <1>1, <1>2, <1>3, <1>4, Delivered DEF DdPace, DdAt
<1>6. /\ DOMAIN p' = DdFields /\ p'.pos = p.pos /\ p'.lastIndep = -1 /\ p'.calling = FALSE
      /\ p'.num = p.num + 1 /\ p'.dts = x.dts
  BY <1>1 DEF DdPace, DdFields
<1>7. DdAt(b)'
  <2>1. /\ \A i \in 1..Len(es'.units) : es'.units[i].t # "junk" => es'.units[i].blks = b
        /\ ~p'.calling /\ p'.num = Len(out') /\ out' # << >>
        /\ out'[Len(out')].duration = blocks * SamplesPerBlock /\ out'[Len(out')].dts = p'.dts
    BY <1>1, <1>2, <1>3, <1>6 DEF DdAt
  <2> QED BY <2>1 DEF DdAt, Enough, Multiples
<1> QED BY <1>1, <1>3, <1>5, <1>6, <1>7 DEF DdPace, Answered, Promise!Next

LEMMA DdAnswers ==
    ASSUME kind = "dd", kind' = kind, DdPace, Dd!Next
    PROVE  DdPace' /\ Answered
<1>0. Skipped' = Skipped
  BY DEF Skipped
<1>a. PICK b \in 1..FullBlocks : DdAt(b)
  BY DEF DdPace
<1>b. b \in Nat \ {0} /\ FullBlocks \in Nat \ {0}
  BY StreamsAssumption
<1>1. CASE Dd!GetSample
  <2>1. out' = out /\ status' = status /\ es' = es /\ status = "open"
        /\ p' = [p EXCEPT !.lastIndep = -1, !.taken = << >>, !.aud = 0, !.calling = TRUE]
    BY <1>1 DEF Dd!GetSample
  <2>2. /\ DOMAIN p' = DdFields /\ p'.pos = p.pos /\ p'.lastIndep = -1 /\ p'.calling = TRUE
        /\ p'.num = p.num /\ p'.dts = p.dts /\ p'.aud = 0
    BY <2>1 DEF DdPace, DdFields
  <2>3. 0 \in Multiples(b) /\ 0 < FullBlocks
    <3>1. 0 \in Nat /\ 0 = 0 * b
      BY <1>b
    <3> QED BY <1>b, <3>1 DEF Multiples
  <2>4. DdAt(b)'
    BY <1>a, <2>1, <2>2, <2>3 DEF DdAt
  <2> QED BY <1>0, <2>1, <2>2, <2>4 DEF DdPace, Answered
<1>2. CASE Dd!TakeSubstream \/ Dd!Resync
  BY <1>2, DdMoves
<1>3. CASE Dd!NextFrame
  <2>1. out' = out /\ status' = status /\ es' = es /\ p.calling
        /\ p' = [p EXCEPT !.aud = @ + p.numblks, !.lastIndep = -1]
        /\ p.lastIndep >= 0 /\ p.aud + p.numblks < FullBlocks
    BY <1>3 DEF Dd!NextFrame, Dd!EndsFrame
  <2>2. /\ DOMAIN p' = DdFields /\ p'.pos = p.pos /\ p'.lastIndep = -1 /\ p'.calling = p.calling
        /\ p'.num = p.num /\ p'.dts = p.dts /\ p'.aud = p.aud + p.numblks
    BY <2>1 DEF DdPace, DdFields
  <2>3. p.numblks = b /\ p.aud + b \in Multiples(b)
    BY <1>a, <1>b, <2>1, OneMore DEF DdAt
  <2>4. DdAt(b)'
    BY <1>a, <2>1, <2>2, <2>3 DEF DdAt
  <2>5. Answered
    BY <1>0, <2>1 DEF Answered
  <2>6. DdPace'
    <3>1. IsSeq(out') /\ es' \in DdStreams /\ p'.pos \in Nat \ {0} /\ p'.calling \in BOOLEAN
      BY <2>1, <2>2 DEF DdPace
    <3> QED BY <2>2, <2>4, <3>1 DEF DdPace
  <2> QED BY <2>5, <2>6
<1>4. CASE Dd!CompleteSample \/ Dd!LastSample
  <2>1. /\ p.calling /\ p.lastIndep >= 0 /\ p.aud + p.numblks >= FullBlocks
        /\ Dd!DeliverSample(p.aud + p.numblks)
    <3>1. CASE Dd!CompleteSample
      BY <3>1 DEF Dd!CompleteSample, Dd!EndsFrame
    <3>2. CASE Dd!LastSample
      <4>1. p.aud + p.numblks = FullBlocks
        BY <3>2 DEF Dd!LastSample
      <4> QED BY <1>b, <3>2, <4>1 DEF Dd!LastSample, Dd!LastFrameComplete
    <3> QED BY <1>4, <3>1, <3>2
  <2>2. p.aud + p.numblks \in Enough(b)
    <3>1. p.numblks = b /\ p.aud \in Nat /\ p.aud < FullBlocks /\ p.aud + b \in Multiples(b)
      BY <1>a, <1>b, <2>1, OneMore DEF DdAt
    <3> QED BY <1>b, <2>1, <3>1 DEF Enough
  <2> QED BY <1>a, <2>1, <2>2, DdDelivers
<1>5. CASE Dd!EndOfStream
  <2>1. out' = out /\ status' = "eoes" /\ es' = es /\ p.calling
        /\ p' = [p EXCEPT !.calling = FALSE]
    BY <1>5 DEF Dd!EndOfStream
  <2>2. /\ DOMAIN p' = DdFields /\ p'.pos = p.pos /\ p'.lastIndep = p.lastIndep /\ p'.calling = FALSE
        /\ p'.num = p.num /\ p'.dts = p.dts
    BY <2>1 DEF DdPace, DdFields
  <2>3. DdAt(b)'
    BY <1>a, <2>1, <2>2 DEF DdAt
  <2>4. Promise!Stop
    BY <1>0, <1>a, <2>1, Stopped DEF DdAt
  <2> QED BY <2>1, <2>2, <2>3, <2>4 DEF DdPace, Answered, Promise!Next
<1> QED BY <1>1, <1>2, <1>3, <1>4, <1>5 DEF Dd!Next

(* HEVC: the ticks of the first access unit are those of all.               *)
HevcFields ==
    {"i", "dec", "dsis", "enh", "auNum", "ticks", "deltas", "info", "failed", "kept", "newSd",
     "err", "vcl", "run"}

(* What is left alone until the unit is complete, and what may go wrong.    *)
Errors == {"", "multiple descriptions", "buggy", "bad stream"}

Unmoved(a, b) ==
    /\ DOMAIN b = DOMAIN a /\ \A f \in {"i", "auNum", "ticks", "info", "failed", "run"} : b[f] = a[f]
    /\ a.err \in Errors => b.err \in Errors

LEMMA HevcTakes ==
    ASSUME NEW a, DOMAIN a = HevcFields
    PROVE  Unmoved(a, Hevc!Take(a))
<1> DEFINE n == Hevc!Nal(a.i)
           b == [a EXCEPT !.dec = Hevc!Decoded(@, n),
                          !.vcl = IF n.t \in Hevc!Slices /\ @ = Hevc!None THEN n.t ELSE @]
<1>1. DOMAIN b = HevcFields /\ Unmoved(a, b)
  <2>1. \E d, v : b = [a EXCEPT !.dec = d, !.vcl = v]
    OBVIOUS
  <2> HIDE DEF b
  <2> QED BY <2>1 DEF Unmoved, HevcFields
<1>2. ASSUME NEW c, DOMAIN c = HevcFields
      PROVE  DOMAIN Hevc!Book(c) = HevcFields /\ Unmoved(c, Hevc!Book(c))
  <2>1. \/ Hevc!Book(c) = c
        \/ \E k, e : Hevc!Book(c) = [c EXCEPT !.kept = k, !.err = e] /\ e \in {"", "buggy"}
    BY DEF Hevc!Book
  <2> QED BY <1>2, <2>1 DEF Unmoved, HevcFields, Errors
<1>3. ASSUME NEW c, DOMAIN c = HevcFields
      PROVE  /\ DOMAIN Hevc!StoreSet(c, n) = HevcFields
             /\ Unmoved(c, Hevc!StoreSet(c, n))
  <2>1. \E d, s, e : /\ Hevc!StoreSet(c, n) = [c EXCEPT !.dsis = d, !.newSd = s, !.err = e]
                     /\ e \in {"multiple descriptions", c.err}
    BY DEF Hevc!StoreSet
  <2> QED BY <1>3, <2>1 DEF Unmoved, HevcFields, Errors
<1>4. ASSUME NEW c, DOMAIN c = HevcFields
      PROVE  /\ DOMAIN Hevc!StoreEnhancement(c, n) = HevcFields
             /\ Unmoved(c, Hevc!StoreEnhancement(c, n))
  <2>1. \/ Hevc!StoreEnhancement(c, n) = c
        \/ \E d, e : /\ Hevc!StoreEnhancement(c, n) = [c EXCEPT !.enh = d, !.err = e]
                      /\ e \in {"multiple descriptions", c.err}
    BY DEF Hevc!StoreEnhancement
  <2> QED BY <1>4, <2>1 DEF Unmoved, HevcFields, Errors
<1>5. \/ Hevc!Take(a) = Hevc!Book(Hevc!StoreSet(b, n))
      \/ Hevc!Take(a) = Hevc!Book(Hevc!StoreEnhancement(b, n))
      \/ Hevc!Take(a) = Hevc!Book(b)
  BY Zenon DEF Hevc!Take
<1> HIDE DEF b, n
<1>6. CASE Hevc!Take(a) = Hevc!Book(Hevc!StoreSet(b, n))
  BY <1>1, <1>2, <1>3, <1>6 DEF Unmoved
<1>7. CASE Hevc!Take(a) = Hevc!Book(Hevc!StoreEnhancement(b, n))
  BY <1>1, <1>2, <1>4, <1>7 DEF Unmoved
<1>8. CASE Hevc!Take(a) = Hevc!Book(b)
  BY <1>1, <1>2, <1>8 DEF Unmoved
<1> QED BY <1>5, <1>6, <1>7, <1>8

(* The samples of t ticks each so far: the last one ends where the unit     *)
(* behind it begins, earlier if a unit was passed over.                     *)
Regularly(t) ==
    /\ p.auNum \in Nat /\ p.failed \in Nat /\ p.auNum = Len(out) + p.failed
    /\ out # << >> =>
         /\ out[Len(out)].duration = t
         /\ \E k \in Nat : /\ out[Len(out)].dts = k * t /\ k < p.auNum
                           /\ p.failed = 0 => k = p.auNum - 1

(* Whichever parser it is: a unit is counted, as a sample or passed over.   *)
LEMMA Counted ==
    ASSUME kind \in {"avc", "hevc"}, kind' = kind, IsSeq(out), status = "open", status' = status,
           NEW t \in Nat \ {0}, Regularly(t),
           p'.auNum = p.auNum + 1,
           NEW x, x.dts = p.auNum * t, x.duration = t,
           \/ out' = Append(out, x) /\ p'.failed = p.failed /\ (p.auNum = 0 => x.newSd)
           \/ out' = out /\ p'.failed = p.failed + 1
    PROVE  IsSeq(out') /\ Regularly(t)' /\ Answered
<1>0. p.auNum \in Nat /\ p.failed \in Nat /\ p.auNum = Len(out) + p.failed /\ Len(out) \in Nat
  BY Appended DEF Regularly
<1>1. CASE out' = out /\ p'.failed = p.failed + 1
  <2>1. Skipped'
    BY <1>0, <1>1 DEF Skipped
  <2>2. Answered
    BY <1>1, <2>1 DEF Answered, Promise!Next, Promise!Skip
  <2>3. Regularly(t)'
    <3>1. p'.auNum \in Nat /\ p'.failed \in Nat /\ p'.auNum = Len(out') + p'.failed /\ p'.failed # 0
      BY <1>0, <1>1
    <3>2. CASE out = << >>
      BY <1>1, <3>1, <3>2 DEF Regularly
    <3>3. CASE out # << >>
      <4>1. out[Len(out)].duration = t
        BY <3>3 DEF Regularly
      <4>2. PICK k \in Nat : out[Len(out)].dts = k * t /\ k < p.auNum
        BY <3>3 DEF Regularly
      <4>3. k < p'.auNum
        BY <1>0, <4>2
      <4> QED BY <1>1, <3>1, <4>1, <4>2, <4>3 DEF Regularly
    <3> QED BY <3>2, <3>3
  <2> QED BY <1>1, <2>2, <2>3
<1>2. CASE out' = Append(out, x) /\ p'.failed = p.failed /\ (p.auNum = 0 => x.newSd)
  <2>1. /\ Len(out') = Len(out) + 1 /\ out'[Len(out) + 1] = x /\ IsSeq(out') /\ out' # << >>
        /\ out = << >> <=> Len(out) = 0
    BY <1>2, Appended
  <2>2. Skipped' = Skipped /\ (Skipped <=> p.failed > 0)
    BY <1>2 DEF Skipped
  <2>3. Regularly(t)'
    <3>1. out'[Len(out')].duration = t /\ out'[Len(out')].dts = p.auNum * t
      BY <1>0, <2>1
    <3>2. /\ p'.auNum \in Nat /\ p'.failed \in Nat /\ p'.auNum = Len(out') + p'.failed
          /\ p.auNum < p'.auNum /\ p.auNum = p'.auNum - 1
      BY <1>0, <1>2, <2>1
    <3> QED BY <1>0, <2>1, <3>1, <3>2 DEF Regularly
  <2>4. out = << >> /\ ~Skipped => x.newSd
    BY <1>0, <1>2, <2>1, <2>2
  <2>5. \/ x.dts = Promise!DtsAfter(out)
        \/ Skipped /\ x.dts > Promise!DtsAfter(out)
    <3>1. CASE out = << >>
      <4>1. Promise!DtsAfter(out) = 0
        BY <3>1 DEF Promise!DtsAfter
      <4>2. p.auNum = 0 => p.auNum * t = 0
        OBVIOUS
      <4>3. p.auNum > 0 => p.auNum * t > 0
        <5>1. p.auNum > 0 => \E k \in Nat : p.auNum = k + 1 /\ p.auNum * t = k * t + t
          <6>1. p.auNum > 0 => p.auNum - 1 \in Nat /\ p.auNum = (p.auNum - 1) + 1
            BY <1>0
          <6> QED BY <6>1
        <5>2. \A k \in Nat : k * t \in Nat
          OBVIOUS
        <5> QED BY <5>1, <5>2
      <4> QED BY <1>0, <2>1, <2>2, <3>1, <4>1, <4>2, <4>3
    <3>2. CASE out # << >>
      <4>1. PICK k \in Nat : /\ out[Len(out)].dts = k * t /\ k < p.auNum
                             /\ p.failed = 0 => k = p.auNum - 1
        BY <3>2 DEF Regularly
      <4>2. Promise!DtsAfter(out) = k * t + t
        BY <3>2, <4>1 DEF Promise!DtsAfter, Promise!Newest, Regularly
      <4>5. PICK g \in Nat : p.auNum = g + (k + 1)
        <5>1. p.auNum - (k + 1) \in Nat /\ p.auNum = (p.auNum - (k + 1)) + (k + 1)
          BY <1>0, <4>1
        <5> QED BY <5>1
      <4>3. p.auNum * t = g * t + (k * t + t)
        <5>1. (g + (k + 1)) * t = g * t + (k * t + t)
          OBVIOUS
        <5> QED BY <4>5, <5>1
      <4>4. k * t + t \in Nat
        OBVIOUS
      <4>6. CASE g = 0
        BY <4>2, <4>3, <4>4, <4>5, <4>6
      <4>7. CASE g # 0
        <5>1. Skipped
          BY <1>0, <2>2, <4>1, <4>5, <4>7
        <5>2. PICK h \in Nat : g = h + 1
          <6>1. g - 1 \in Nat /\ g = (g - 1) + 1
            BY <4>7
          <6> QED BY <6>1
        <5>3. g * t = h * t + t /\ h * t \in Nat
          BY <5>2
        <5> QED BY <4>2, <4>3, <4>4, <4>5, <5>1, <5>3
      <4> QED BY <4>6, <4>7
    <3> QED BY <3>1, <3>2
  <2>6. Promise!Deliver
    BY <1>2, <2>2, <2>4, <2>5, Delivered
  <2> QED BY <2>1, <2>3, <2>6 DEF Answered, Promise!Next
<1> QED BY <1>1, <1>2

HevcPace ==
    /\ IsSeq(out) /\ es \in HevcStreams
    /\ DOMAIN p = HevcFields /\ p.err \in Errors
    /\ status # "open" => p.run # "unit" /\ (p.run = "end" => Hevc!Outcome # "ok")
    /\ Regularly(Hevc!Timing(es.timing))
    /\ p.auNum > 0 => p.ticks = Hevc!Timing(es.timing)

LEMMA HevcTicks ==
    ASSUME es \in HevcStreams
    PROVE  Hevc!Timing(es.timing) \in Nat \ {0}
<1>1. Hevc!IsStream(es)
  BY StreamsAssumption
<1> QED BY <1>1 DEF Hevc!IsStream, Hevc!Timing

LEMMA HevcAnswers ==
    ASSUME kind = "hevc", kind' = kind, HevcPace, Hevc!Next
    PROVE  HevcPace' /\ Answered
<1> DEFINE t == Hevc!Timing(es.timing)
<1>1. CASE Hevc!GetSample
  <2>1. /\ out' = out /\ status' = status /\ es' = es /\ status = "open"
        /\ p' = [p EXCEPT !.kept = << >>, !.newSd = FALSE, !.vcl = Hevc!None, !.run = "unit"]
    BY <1>1 DEF Hevc!GetSample
  <2>2. /\ DOMAIN p' = HevcFields /\ p'.failed = p.failed /\ p'.auNum = p.auNum
        /\ p'.ticks = p.ticks /\ p'.err = p.err
    BY <2>1 DEF HevcPace, HevcFields
  <2>3. HevcPace'
    BY <2>1, <2>2 DEF HevcPace, Regularly
  <2>4. Answered
    BY <2>1, <2>2 DEF Answered, Skipped
  <2> QED BY <2>3, <2>4
<1>2. CASE Hevc!TakeNal
  <2>1. out' = out /\ status' = status /\ es' = es /\ p.run = "unit" /\ status = "open"
    BY <1>2 DEF Hevc!TakeNal, HevcPace
  <2> DEFINE b == Hevc!Take(p)
  <2>2. DOMAIN b = HevcFields /\ Unmoved(p, b)
    BY HevcTakes DEF HevcPace, Unmoved
  <2>3. \/ p' = [b EXCEPT !.run = "end"]
        \/ \E r : p' = [b EXCEPT !.i = @ + 1, !.run = r]
    BY <1>2 DEF Hevc!TakeNal
  <2> HIDE DEF b
  <2>4. /\ DOMAIN p' = HevcFields /\ p'.failed = p.failed /\ p'.auNum = p.auNum
        /\ p'.ticks = p.ticks /\ p'.err \in Errors
    BY <2>2, <2>3 DEF Unmoved, HevcFields, HevcPace
  <2>5. HevcPace'
    BY <2>1, <2>4 DEF HevcPace, Regularly
  <2>6. Answered
    BY <2>1, <2>4 DEF Answered, Skipped
  <2> QED BY <2>5, <2>6
<1>3. CASE Hevc!DeliverSample
  <2> DEFINE x == Hevc!Sample
  <2>1. status = "open" /\ status' = status /\ es' = es
    BY <1>3 DEF Hevc!DeliverSample, HevcPace
  <2>2. Hevc!TicksNow = t /\ t \in Nat \ {0} /\ p.auNum \in Nat /\ p.failed \in Nat
    BY HevcTicks DEF Hevc!TicksNow, HevcPace, Regularly
  <2>3. x.dts = p.auNum * t /\ x.duration = t /\ (p.auNum = 0 => x.newSd)
    BY <2>2 DEF Hevc!Sample
  <2>4. /\ DOMAIN p' = HevcFields /\ p'.auNum = p.auNum + 1 /\ p'.ticks = t /\ p'.run = "idle"
        /\ p'.err = p.err
        /\ p'.failed = IF Hevc!Configured(p.dec) THEN p.failed ELSE p.failed + 1
        /\ out' = IF Hevc!Configured(p.dec) THEN Append(out, x) ELSE out
    <3>1. \E d, l, n, s, f :
            /\ p' = [p EXCEPT !.run = "idle", !.auNum = @ + 1, !.ticks = Hevc!TicksNow,
                              !.dec = d, !.deltas = l, !.info = n, !.failed = f, !.dsis = s]
            /\ f = IF Hevc!Configured(p.dec) THEN p.failed ELSE p.failed + 1
      BY <1>3 DEF Hevc!DeliverSample
    <3>2. out' = IF Hevc!Configured(p.dec) THEN Append(out, x) ELSE out
      BY <1>3 DEF Hevc!DeliverSample
    <3> HIDE DEF t, x
    <3> QED BY <2>2, <3>1, <3>2 DEF HevcPace, HevcFields
  <2>5. /\ p.auNum = 0 => x.newSd
        /\ \/ out' = Append(out, x) /\ p'.failed = p.failed
           \/ out' = out /\ p'.failed = p.failed + 1
    BY <2>3, <2>4
  <2> HIDE DEF x
  <2>6. IsSeq(out') /\ Regularly(t)' /\ Answered
    <3>1. IsSeq(out) /\ Regularly(t)
      BY DEF HevcPace
    <3>2. t' = t
      BY <2>1
    <3> HIDE DEF t
    <3>3. IsSeq(out') /\ Answered
      BY <2>1, <2>2, <2>3, <2>4, <2>5, <3>1, Counted
    <3> QED BY <2>1, <2>2, <2>3, <2>4, <2>5, <3>1, <3>2, Counted DEF Regularly
  <2> QED BY <2>1, <2>4, <2>6 DEF HevcPace
<1>4. CASE Hevc!EndOfStream \/ Hevc!Fail
  <2>1. out' = out /\ p' = p /\ es' = es /\ status = "open" /\ status' # "open"
        /\ p.run # "unit" /\ (p.run = "end" => Hevc!Outcome # "ok")
    <3>1. CASE Hevc!EndOfStream
      BY <3>1 DEF Hevc!EndOfStream
    <3>2. CASE Hevc!Fail
      <4>1. Hevc!Outcome # "open"
        BY Zenon DEF Hevc!Outcome, HevcPace, Errors
      <4>2. status = "open" /\ p.run = "end" /\ Hevc!Outcome # "ok" /\ UNCHANGED <<es, p, out>>
            /\ status' = Hevc!Outcome
        BY <3>2 DEF Hevc!Fail
      <4> QED BY <4>1, <4>2
    <3> QED BY <1>4, <3>1, <3>2
  <2>2. Answered
    BY <2>1, Stopped DEF Answered, Skipped, Promise!Next
  <2>3. Hevc!Outcome' = Hevc!Outcome
    BY <2>1 DEF Hevc!Outcome
  <2>4. HevcPace'
    BY <2>1, <2>3 DEF HevcPace, Regularly
  <2> QED BY <2>2, <2>4
<1> QED BY <1>1, <1>2, <1>3, <1>4 DEF Hevc!Next

(* AVC: the sequence sets are of one frame rate.                            *)
AvcFields ==
    {"i", "dec", "dsis", "auNum", "ticks", "info", "failed", "kept", "newSd", "err", "run"}

DecFields ==
    {"cur", "next", "pd", "md", "layer", "idr", "sps", "pps", "lastPps", "activeSps", "activePps",
     "ok"}

SliceOK(s) == DOMAIN s = {"pic", "pps", "idr", "red", "first"} /\ s.pps \in Ids

IdOrNone == Ids \cup {Avc!NoId}

DecOK(d) ==
    /\ DOMAIN d = DecFields
    /\ SliceOK(d.cur) /\ SliceOK(d.next)
    /\ d.sps \in [Ids -> DOMAIN AvcTicks] /\ d.pps \in [Ids -> IdOrNone]
    /\ d.lastPps \in Ids /\ d.activeSps \in IdOrNone /\ d.activePps \in IdOrNone

LEMMA AvcNals ==
    ASSUME es \in AvcStreams
    PROVE  Len(es.nals) \in Nat /\ \A i \in 1..Len(es.nals) : Avc!IsNal(Avc!Nal(i))
<1>1. Avc!IsStream(es)
  BY StreamsAssumption
<1> QED BY <1>1 DEF Avc!IsStream, Avc!Nal

LEMMA NoIdIsNone == Avc!NoId \notin Ids
BY StreamsAssumption DEF Avc!NoId

LEMMA AvcLooks ==
    ASSUME NEW d, DecOK(d), NEW n, Avc!IsNal(n)
    PROVE  DecOK(Avc!LookAhead(d, n)) /\ Avc!LookAhead(d, n).pps = d.pps
<1>1. CASE n.t \notin {"slice", "idr"}
  BY <1>1 DEF Avc!LookAhead
<1>2. CASE n.t \in {"slice", "idr"}
  <2> DEFINE s == Avc!ParseSlice(d, n)
  <2>1. SliceOK(s)
    <3>1. n.pps \in Ids /\ 0 \in Ids
      BY <1>2, StreamsAssumption DEF Avc!IsNal
    <3> DEFINE q == IF d.pps[n.pps] = Avc!NoId /\ d.pps[0] # Avc!NoId THEN 0 ELSE n.pps
               u == [d.next EXCEPT !.idr = n.t = "idr", !.pps = q]
    <3>2. q \in Ids
      BY <3>1
    <3>3. s = IF d.pps[q] = Avc!NoId THEN u ELSE [u EXCEPT !.pic = n.pic, !.red = n.red]
      BY DEF Avc!ParseSlice
    <3> HIDE DEF q, s
    <3>4. DOMAIN d.next = {"pic", "pps", "idr", "red", "first"}
      BY DEF DecOK, SliceOK
    <3>5. SliceOK(u)
      BY <3>2, <3>4 DEF SliceOK
    <3> HIDE DEF u
    <3> QED BY <3>3, <3>5 DEF SliceOK
  <2>2. \E f : Avc!LookAhead(d, n) = [d EXCEPT !.next = [s EXCEPT !.first = f]]
    BY <1>2 DEF Avc!LookAhead
  <2> HIDE DEF s
  <2>3. PICK f : Avc!LookAhead(d, n) = [d EXCEPT !.next = [s EXCEPT !.first = f]]
    BY <2>2
  <2> DEFINE s2 == [s EXCEPT !.first = f]
  <2>4. SliceOK(s2)
    BY <2>1 DEF SliceOK
  <2> HIDE DEF s2
  <2> QED BY <2>3, <2>4 DEF DecOK, DecFields, s2
<1> QED BY <1>1, <1>2

LEMMA AvcParses ==
    ASSUME NEW d, DecOK(d), NEW n, Avc!IsNal(n)
    PROVE  /\ DecOK(Avc!Parsed(d, n))
           /\ n.t # "pps" => Avc!Parsed(d, n).pps = d.pps
<1> DEFINE r == Avc!Parsed(d, n)
<1>0. 0 \in Ids
  BY StreamsAssumption
<1>1. \/ r = Avc!Activate(d, n) /\ n.t # "pps"
      \/ /\ n.id \in Ids /\ n.c \in DOMAIN AvcTicks /\ n.t # "pps"
         /\ r = [d EXCEPT !.sps[n.id] = n.c, !.activeSps = n.id]
      \/ /\ n.t = "pps" /\ n.id \in Ids /\ n.sps \in Ids
         /\ r = [d EXCEPT !.pps[n.id] = n.sps, !.activeSps = n.sps, !.lastPps = n.id]
      \/ r = d
  <2>1. CASE Avc!Class(n.t) = "vcl"
    <3>1. n.t \notin {"sps", "subset", "pps"}
      BY <2>1 DEF Avc!Class
    <3>2. r = Avc!Activate(d, n)
      BY <2>1, <3>1, Zenon DEF Avc!Parsed
    <3> QED BY <3>1, <3>2
  <2>2. CASE Avc!Class(n.t) # "vcl" /\ n.t \in {"sps", "subset"}
    <3>1. r = [d EXCEPT !.sps[n.id] = n.c, !.activeSps = n.id]
      BY <2>2, Zenon DEF Avc!Parsed
    <3> QED BY <2>2, <3>1 DEF Avc!IsNal
  <2>3. CASE Avc!Class(n.t) # "vcl" /\ n.t \notin {"sps", "subset"} /\ n.t = "pps" /\ d.md # "not view"
    <3>1. r = [d EXCEPT !.pps[n.id] = n.sps, !.activeSps = n.sps, !.lastPps = n.id]
      BY <2>3, Zenon DEF Avc!Parsed
    <3> QED BY <2>3, <3>1 DEF Avc!IsNal
  <2>4. CASE Avc!Class(n.t) # "vcl" /\ n.t \notin {"sps", "subset"} /\ ~(n.t = "pps" /\ d.md # "not view")
    BY <2>4, Zenon DEF Avc!Parsed
  <2> QED BY <2>1, <2>2, <2>3, <2>4
<1>2. DecOK(Avc!Activate(d, n)) /\ Avc!Activate(d, n).pps = d.pps
  <2>1. CASE ~d.next.first
    <3>1. Avc!Activate(d, n) = [d EXCEPT !.cur.first = FALSE]
      BY <2>1 DEF Avc!Activate
    <3>2. SliceOK([d.cur EXCEPT !.first = FALSE])
      BY DEF DecOK, SliceOK
    <3> QED BY <3>1, <3>2 DEF DecOK, DecFields
  <2>2. CASE d.next.first
    <3> DEFINE a == IF d.pps[d.next.pps] = Avc!NoId THEN 0 ELSE d.pps[d.next.pps]
    <3>1. Avc!Activate(d, n) =
            [d EXCEPT !.cur = d.next, !.next = d.cur, !.idr = n.t = "idr",
                      !.activePps = d.next.pps, !.activeSps = a]
      BY <2>2 DEF Avc!Activate
    <3>2. d.next.pps \in Ids /\ a \in IdOrNone
      BY <1>0 DEF DecOK, SliceOK, IdOrNone
    <3> HIDE DEF a
    <3> QED BY <3>1, <3>2 DEF DecOK, DecFields, IdOrNone
  <2> QED BY <2>1, <2>2
<1> HIDE DEF r
<1>3. CASE r = Avc!Activate(d, n) /\ n.t # "pps"
  BY <1>2, <1>3 DEF r
<1>4. CASE /\ n.id \in Ids /\ n.c \in DOMAIN AvcTicks /\ n.t # "pps"
           /\ r = [d EXCEPT !.sps[n.id] = n.c, !.activeSps = n.id]
  <2>1. [d.sps EXCEPT ![n.id] = n.c] \in [Ids -> DOMAIN AvcTicks] /\ n.id \in IdOrNone
    BY <1>4 DEF DecOK, IdOrNone
  <2>2. /\ DOMAIN r = DOMAIN d /\ r.sps = [d.sps EXCEPT ![n.id] = n.c] /\ r.activeSps = n.id
        /\ \A f \in DecFields \ {"sps", "activeSps"} : r[f] = d[f]
    BY <1>4 DEF DecOK, DecFields
  <2> QED BY <2>1, <2>2 DEF DecOK, DecFields, r
<1>5. CASE /\ n.t = "pps" /\ n.id \in Ids /\ n.sps \in Ids
           /\ r = [d EXCEPT !.pps[n.id] = n.sps, !.activeSps = n.sps, !.lastPps = n.id]
  <2>1. [d.pps EXCEPT ![n.id] = n.sps] \in [Ids -> IdOrNone] /\ n.sps \in IdOrNone
    BY <1>5 DEF DecOK, IdOrNone
  <2>2. /\ DOMAIN r = DOMAIN d /\ r.pps = [d.pps EXCEPT ![n.id] = n.sps] /\ r.activeSps = n.sps
        /\ r.lastPps = n.id
        /\ \A f \in DecFields \ {"pps", "activeSps", "lastPps"} : r[f] = d[f]
    BY <1>5 DEF DecOK, DecFields
  <2> QED BY <1>5, <2>1, <2>2 DEF DecOK, DecFields, r
<1>6. CASE r = d
  BY <1>6 DEF r
<1> QED BY <1>1, <1>3, <1>4, <1>5, <1>6

(* The delimiting of views leaves the sets.                                 *)
LEMMA AvcDelimits ==
    ASSUME NEW d, DecOK(d), NEW t
    PROVE  DecOK(Avc!Delimit(d, t)) /\ Avc!Delimit(d, t).pps = d.pps
<1> DEFINE r == Avc!Delimit(d, t)
           Left == DOMAIN r = DecFields /\ \A f \in DecFields \ {"md", "pd", "layer", "ok"} : r[f] = d[f]
<1>1. Left
  <2> DEFINE c == Avc!Class(t)
             In == c \in {"view", "not view"}
             Move == [d EXCEPT !.md = c, !.pd = c]
  <2>0. DOMAIN d = DecFields
    BY DEF DecOK
  <2>1. CASE d.md = "not view" /\ t = "viewslice"
    <3>1. r = [d EXCEPT !.md = "view", !.ok = d.layer = 1]
      BY <2>1, Zenon DEF Avc!Delimit
    <3> HIDE DEF r
    <3> QED BY <2>0, <3>1 DEF DecFields
  <2>2. CASE d.md = "not view" /\ t # "viewslice"
    <3> DEFINE o == d.layer = 1 /\ t \in {"pps", "sei", "subset", "dolby3d"}
    <3>1. r = [d EXCEPT !.ok = o]
      BY <2>2, Zenon DEF Avc!Delimit
    <3> HIDE DEF o, r
    <3> QED BY <2>0, <3>1 DEF DecFields
  <2>3. CASE d.md = "view" /\ t \in {"viewslice", "filler", "eos"}
    <3>1. r = d
      BY <2>3, Zenon DEF Avc!Delimit
    <3> HIDE DEF r
    <3> QED BY <2>0, <3>1 DEF DecFields
  <2>4. CASE d.md = "view" /\ t \notin {"viewslice", "filler", "eos"}
    <3>1. r = IF In THEN [d EXCEPT !.md = c, !.ok = FALSE] ELSE [Move EXCEPT !.layer = 0]
      BY <2>4, Zenon DEF Avc!Delimit
    <3> HIDE DEF c, r
    <3> QED BY <2>0, <3>1 DEF DecFields
  <2>5. CASE d.md # "not view" /\ d.md # "view"
    <3> DEFINE o1 == d.layer = 0
               o2 == t = "vdrd" /\ d.layer = 0
    <3>1. r = IF ~In THEN [Move EXCEPT !.ok = o1]
              ELSE [d EXCEPT !.md = c, !.pd = "no", !.ok = o2, !.layer = 1]
      BY <2>5, Zenon DEF Avc!Delimit
    <3> HIDE DEF c, o1, o2, r
    <3> QED BY <2>0, <3>1 DEF DecFields
  <2> QED BY <2>1, <2>2, <2>3, <2>4, <2>5
<1> HIDE DEF r
<1>2. DecOK(r) /\ r.pps = d.pps
  BY <1>1 DEF DecOK, DecFields
<1> QED BY <1>2 DEF r


(* No picture set was met: the description of one asks for a new record.    *)
DsiFields == {"sps", "pps", "ext", "profile"}

NoPicSet(dsis) ==
    IsSeq(dsis) /\ dsis # << >> /\ DOMAIN dsis[Len(dsis)] = DsiFields /\ dsis[Len(dsis)].pps = << >>

Bare(a) == (\A id \in Ids : a.dec.pps[id] = Avc!NoId) /\ NoPicSet(a.dsis)

LEMMA Replaced ==
    ASSUME NEW s, IsSeq(s), s # << >>, NEW e
    PROVE  LET t == [s EXCEPT ![Len(s)] = e]
           IN  IsSeq(t) /\ t # << >> /\ Len(t) = Len(s) /\ t[Len(t)] = e
<1>1. PICK S : s \in Seq(S)
  BY DEF IsSeq
<1> DEFINE T == S \cup {e}
           t == [s EXCEPT ![Len(s)] = e]
<1>2. s \in Seq(T) /\ e \in T
  BY <1>1
<1> HIDE DEF T
<1>3. Len(s) \in 1..Len(s) /\ Len(s) \in Nat
  BY <1>2
<1>4. t \in Seq(T) /\ Len(t) = Len(s) /\ t[Len(s)] = e
  BY <1>2, <1>3
<1>5. t # << >>
  BY <1>3, <1>4
<1> QED BY <1>4, <1>5 DEF IsSeq

WithSetOf(dsis, n) == [dsis EXCEPT ![Len(dsis)] = Avc!WithSet(dsis[Len(dsis)], n)]

LEMMA AvcRecords ==
    ASSUME NEW dsis, NoPicSet(dsis)
    PROVE  /\ NoPicSet(Append(dsis, Avc!CloneDsi(Avc!Newest(dsis))))
           /\ \A n : n.t \in {"sps", "spsext"} => NoPicSet(WithSetOf(dsis, n))
<1>1. ASSUME NEW e, DOMAIN e = DsiFields, e.pps = << >>
      PROVE  NoPicSet(Append(dsis, e)) /\ NoPicSet([dsis EXCEPT ![Len(dsis)] = e])
  <2>1. NoPicSet(Append(dsis, e))
    BY <1>1, Appended DEF NoPicSet
  <2> DEFINE t == [dsis EXCEPT ![Len(dsis)] = e]
  <2>2. IsSeq(t) /\ t # << >> /\ t[Len(t)] = e
    BY Replaced DEF NoPicSet
  <2> HIDE DEF t
  <2>3. NoPicSet(t)
    BY <1>1, <2>2 DEF NoPicSet
  <2> QED BY <2>1, <2>3 DEF t
<1> DEFINE d == dsis[Len(dsis)]
<1>2. DOMAIN d = DsiFields /\ d.pps = << >>
  BY DEF NoPicSet
<1>3. Avc!Cloned(<< >>) = << >>
  BY DEF Avc!Cloned
<1>4. Avc!Newest(dsis) = d
  BY DEF Avc!Newest
<1> HIDE DEF d
<1>5. NoPicSet(Append(dsis, Avc!CloneDsi(d)))
  <2> DEFINE c == Avc!CloneDsi(d)
  <2>1. c.pps = Avc!Cloned(d.pps)
    BY <1>2 DEF Avc!CloneDsi, DsiFields
  <2>2. DOMAIN c = DsiFields /\ c.pps = << >>
    BY <1>2, <1>3, <2>1 DEF Avc!CloneDsi, DsiFields
  <2> HIDE DEF c
  <2>3. NoPicSet(Append(dsis, c))
    BY <1>1, <2>2
  <2> QED BY <2>3 DEF c
<1>6. ASSUME NEW n, n.t \in {"sps", "spsext"}
      PROVE  NoPicSet(WithSetOf(dsis, n))
  <2> DEFINE w == Avc!WithSet(d, n)
  <2>1. \/ \E l : w = [d EXCEPT !.sps = l]
        \/ \E l : w = [d EXCEPT !.ext = l]
    <3>1. CASE n.t = "sps"
      BY <3>1 DEF Avc!WithSet
    <3>2. CASE n.t = "spsext"
      <4>1. w = [d EXCEPT !.ext = Avc!Updated(@, n.id, n.c)]
        BY <3>2, Zenon DEF Avc!WithSet
      <4> QED BY <4>1
    <3> QED BY <1>6, <3>1, <3>2
  <2> HIDE DEF w
  <2>2. DOMAIN w = DsiFields /\ w.pps = << >>
    BY <1>2, <2>1 DEF DsiFields
  <2>3. NoPicSet([dsis EXCEPT ![Len(dsis)] = w])
    BY <1>1, <2>2
  <2> QED BY <2>3 DEF w, d, WithSetOf
<1> QED BY <1>4, <1>5, <1>6 DEF d

(* The first picture set asks for a description.                            *)
LEMMA AvcStores ==
    ASSUME NEW a, DOMAIN a = AvcFields, NEW n, n.t \in {"sps", "spsext", "pps"}
    PROVE  LET b == Avc!StoreSet(a, n)
           IN  /\ DOMAIN b = AvcFields /\ Unmoved(a, b) /\ b.dec = a.dec
               /\ a.newSd => b.newSd
               /\ NoPicSet(a.dsis) => \/ b.newSd
                                      \/ n.t # "pps" /\ NoPicSet(b.dsis)
<1> DEFINE b == Avc!StoreSet(a, n)
           opens == Avc!OpensRecord(a, n)
           dsis == IF opens THEN Append(a.dsis, Avc!CloneDsi(Avc!Newest(a.dsis))) ELSE a.dsis
           list == Avc!ListOf(Avc!Newest(dsis), n.t)
           clash == Avc!Collides(list, n.id, n.c) /\ ~es.sd
           ds == [dsis EXCEPT ![Len(dsis)] = Avc!WithSet(@, n)]
           news == Avc!IsNews(list, n.id, n.c) /\ ~clash
<1>1. b = [a EXCEPT !.dsis = ds, !.newSd = @ \/ news,
                    !.err = IF clash THEN "multiple descriptions" ELSE @]
  BY DEF Avc!StoreSet
<1> HIDE DEF b, ds, news, clash
<1>2. /\ DOMAIN b = AvcFields /\ b.dec = a.dec /\ b.dsis = ds /\ b.newSd = (a.newSd \/ news)
      /\ b.err = (IF clash THEN "multiple descriptions" ELSE a.err)
      /\ \A f \in {"i", "auNum", "ticks", "info", "failed", "run"} : b[f] = a[f]
  BY <1>1 DEF AvcFields
<1>3. Unmoved(a, b)
  BY <1>2 DEF Unmoved, Errors
<1>4. NoPicSet(a.dsis) => NoPicSet(dsis)
  <2>1. NoPicSet(a.dsis) => NoPicSet(Append(a.dsis, Avc!CloneDsi(Avc!Newest(a.dsis))))
    BY AvcRecords
  <2> QED BY <2>1
<1>5. ASSUME NoPicSet(a.dsis), n.t = "pps"
      PROVE  b.newSd
  <2>1. Avc!Newest(dsis).pps = << >>
    BY <1>4, <1>5 DEF NoPicSet, Avc!Newest
  <2> HIDE DEF dsis
  <2>2. list = << >>
    BY <1>5, <2>1, Zenon DEF Avc!ListOf
  <2>3. Avc!Positions(list, n.id) = {}
    BY <2>2 DEF Avc!Positions
  <2>4. news
    BY <2>3 DEF news, clash, Avc!IsNews, Avc!Collides
  <2> QED BY <1>2, <2>4
<1>6. ASSUME NoPicSet(a.dsis), n.t # "pps"
      PROVE  NoPicSet(b.dsis)
  <2>1. NoPicSet(dsis) /\ n.t \in {"sps", "spsext"}
    BY <1>4, <1>6
  <2> HIDE DEF dsis
  <2>2. ds = WithSetOf(dsis, n)
    BY DEF ds, WithSetOf
  <2>3. NoPicSet(ds)
    BY <2>1, <2>2, AvcRecords
  <2> QED BY <1>2, <2>3
<1> QED BY <1>2, <1>3, <1>5, <1>6 DEF b


LEMMA AvcBooks ==
    ASSUME NEW a, DOMAIN a = AvcFields
    PROVE  LET b == Avc!Book(a)
           IN  /\ DOMAIN b = AvcFields /\ Unmoved(a, b) /\ b.dec = a.dec
               /\ b.newSd = a.newSd /\ b.dsis = a.dsis
<1> DEFINE b == Avc!Book(a)
<1>1. \/ b = a
      \/ \E k, e : b = [a EXCEPT !.kept = k, !.err = e] /\ e \in {"", "buggy"}
  BY DEF Avc!Book
<1> HIDE DEF b
<1>2. CASE b = a
  BY <1>2 DEF b, Unmoved
<1>3. CASE \E k, e : b = [a EXCEPT !.kept = k, !.err = e] /\ e \in {"", "buggy"}
  <2>1. PICK k, e : b = [a EXCEPT !.kept = k, !.err = e] /\ e \in {"", "buggy"}
    BY <1>3
  <2>2. /\ DOMAIN b = AvcFields /\ b.err \in {"", "buggy"}
        /\ \A f \in AvcFields \ {"kept", "err"} : b[f] = a[f]
    BY <2>1 DEF AvcFields
  <2> QED BY <2>2 DEF b, Unmoved, AvcFields, Errors
<1> QED BY <1>1, <1>2, <1>3

(* What the handling of a NAL makes of the parser.                          *)
LEMMA AvcTakes ==
    ASSUME NEW a, DOMAIN a = AvcFields, DecOK(a.dec), Avc!IsNal(Avc!Nal(a.i))
    PROVE  LET c == Avc!Take(a)
           IN  /\ DOMAIN c = AvcFields /\ Unmoved(a, c) /\ DecOK(c.dec)
               /\ a.newSd \/ Bare(a) => c.newSd \/ c.err # "" \/ Bare(c)
<1> DEFINE n == Avc!Nal(a.i)
           d == Avc!PhaseTwo(a.dec, n)
           dec == IF n.t = "sei" THEN [d EXCEPT !.activeSps = Avc!SeiSps(d, n)] ELSE d
           b == [a EXCEPT !.dec = dec,
                          !.err = IF d.ok /\ ~Avc!Refused(n) THEN "" ELSE "bad stream"]
           n2 == [n EXCEPT !.id = d.lastPps]
           c == Avc!Take(a)
<1>1. DecOK(d) /\ (n.t # "pps" => d.pps = a.dec.pps)
  <2> DEFINE q == Avc!Parsed(a.dec, n)
  <2>1. DecOK(q) /\ (n.t # "pps" => q.pps = a.dec.pps)
    BY AvcParses
  <2> HIDE DEF q, n
  <2>2. DecOK(Avc!Delimit(q, n.t)) /\ Avc!Delimit(q, n.t).pps = q.pps
    BY <2>1, AvcDelimits
  <2>3. d = Avc!Delimit(q, n.t)
    BY DEF Avc!PhaseTwo, q
  <2> QED BY <2>1, <2>2, <2>3
<1>2. \/ b.err # "" /\ c = b
      \/ n.t \in {"sps", "spsext"} /\ c = Avc!Book(Avc!StoreSet(b, n))
      \/ n.t = "pps" /\ c = Avc!Book(Avc!StoreSet(b, n2))
      \/ n.t \notin {"sps", "spsext", "pps"} /\ c = Avc!Book(b)
  BY Zenon DEF Avc!Take
<1>3. n2.t = n.t
  BY DEF Avc!IsNal
<1> HIDE DEF n, d, n2, c
<1>4. DecOK(dec) /\ dec.pps = d.pps
  <2> DEFINE s == Avc!SeiSps(d, n)
  <2>1. s \in IdOrNone
    BY <1>1, StreamsAssumption DEF Avc!SeiSps, DecOK, IdOrNone
  <2> HIDE DEF s
  <2>2. LET e == [d EXCEPT !.activeSps = s] IN DecOK(e) /\ e.pps = d.pps
    BY <1>1, <2>1 DEF DecOK, DecFields
  <2>3. dec = IF n.t = "sei" THEN [d EXCEPT !.activeSps = s] ELSE d
    BY DEF s
  <2> HIDE DEF dec
  <2> QED BY <1>1, <2>2, <2>3
<1> HIDE DEF dec
<1>5. /\ DOMAIN b = AvcFields /\ Unmoved(a, b) /\ b.dec = dec
      /\ b.newSd = a.newSd /\ b.dsis = a.dsis
  <2>1. /\ DOMAIN b = AvcFields /\ b.dec = dec /\ b.err \in {"", "bad stream"}
        /\ \A f \in AvcFields \ {"dec", "err"} : b[f] = a[f]
    BY DEF AvcFields
  <2> HIDE DEF b
  <2> QED BY <2>1 DEF Unmoved, AvcFields, Errors
<1> HIDE DEF b
<1>6. n.t # "pps" /\ Bare(a) => Bare(b)
  BY <1>1, <1>4, <1>5 DEF Bare
<1>7. CASE b.err # "" /\ c = b
  BY <1>4, <1>5, <1>7 DEF c
<1>8. CASE n.t \in {"sps", "spsext"} /\ c = Avc!Book(Avc!StoreSet(b, n))
  <2> DEFINE s == Avc!StoreSet(b, n)
  <2>1. /\ DOMAIN s = AvcFields /\ Unmoved(b, s) /\ s.dec = b.dec
        /\ b.newSd => s.newSd
        /\ NoPicSet(b.dsis) => s.newSd \/ NoPicSet(s.dsis)
    BY <1>5, <1>8, AvcStores
  <2> HIDE DEF s
  <2>2. c = Avc!Book(s)
    BY <1>8 DEF s
  <2>3. /\ DOMAIN c = AvcFields /\ Unmoved(s, c) /\ c.dec = s.dec
        /\ c.newSd = s.newSd /\ c.dsis = s.dsis
    BY <2>1, <2>2, AvcBooks
  <2>4. Unmoved(a, c)
    BY <1>5, <2>1, <2>3 DEF Unmoved
  <2>5. a.newSd \/ Bare(a) => c.newSd \/ Bare(c)
    BY <1>5, <1>6, <1>8, <2>1, <2>3 DEF Bare
  <2> QED BY <1>4, <1>5, <2>1, <2>3, <2>4, <2>5 DEF c
<1>9. CASE n.t = "pps" /\ c = Avc!Book(Avc!StoreSet(b, n2))
  <2> DEFINE s == Avc!StoreSet(b, n2)
  <2>0. n2.t = "pps" /\ n2.t \in {"sps", "spsext", "pps"}
    BY <1>3, <1>9
  <2>1. /\ DOMAIN s = AvcFields /\ Unmoved(b, s) /\ s.dec = b.dec
        /\ b.newSd => s.newSd
        /\ NoPicSet(b.dsis) => s.newSd
    BY <1>5, <2>0, AvcStores
  <2> HIDE DEF s
  <2>2. c = Avc!Book(s)
    BY <1>9 DEF s
  <2>3. /\ DOMAIN c = AvcFields /\ Unmoved(s, c) /\ c.dec = s.dec
        /\ c.newSd = s.newSd /\ c.dsis = s.dsis
    BY <2>1, <2>2, AvcBooks
  <2>4. Unmoved(a, c)
    BY <1>5, <2>1, <2>3 DEF Unmoved
  <2>5. a.newSd \/ Bare(a) => c.newSd
    BY <1>5, <2>1, <2>3 DEF Bare
  <2> QED BY <1>4, <1>5, <2>1, <2>3, <2>4, <2>5 DEF c
<1>10. CASE n.t \notin {"sps", "spsext", "pps"} /\ c = Avc!Book(b)
  <2>3. /\ DOMAIN c = AvcFields /\ Unmoved(b, c) /\ c.dec = b.dec
        /\ c.newSd = b.newSd /\ c.dsis = b.dsis
    BY <1>5, <1>10, AvcBooks
  <2>4. Unmoved(a, c)
    BY <1>5, <2>3 DEF Unmoved
  <2>5. a.newSd \/ Bare(a) => c.newSd \/ Bare(c)
    BY <1>5, <1>6, <1>10, <2>3 DEF Bare
  <2> QED BY <1>4, <1>5, <2>3, <2>4, <2>5 DEF c
<1> QED BY <1>2, <1>7, <1>8, <1>9, <1>10

AvcPace ==
    /\ IsSeq(out) /\ es \in AvcStreams
    /\ DOMAIN p = AvcFields /\ p.err \in Errors /\ DecOK(p.dec)
    /\ p.i \in Nat \ {0} /\ (p.run = "unit" => p.i <= Len(es.nals))
    /\ status # "open" => p.run # "unit" /\ (p.run = "end" => Avc!Outcome # "ok")
    /\ Regularly(AvcTicks[0])
    /\ p.auNum > 0 => p.ticks = AvcTicks[0]
    /\ p.auNum = 0 =>
         \/ Bare(p)
         \/ p.run # "idle" /\ p.newSd
         \/ p.run = "end" /\ p.err # ""

LEMMA AvcDelivers ==
    ASSUME kind = "avc", kind' = kind, AvcPace, Avc!DeliverSample
    PROVE  AvcPace' /\ Answered
<1> DEFINE x == Avc!Sample
           t == AvcTicks[0]
<1>1. /\ p.run = "end" /\ Avc!Outcome = "ok" /\ status = "open" /\ status' = status /\ es' = es
  BY DEF Avc!DeliverSample, AvcPace
<1>2. /\ p.err = "" /\ p.dec.activeSps \in Ids /\ p.dec.activePps \in Ids
  <2>1. p.err = ""
    <3>1. p.err # "" => Avc!Outcome = p.err
      BY Zenon DEF Avc!Outcome
    <3>2. p.err # "ok"
      BY DEF AvcPace, Errors
    <3> QED BY <1>1, <3>1, <3>2
  <2>2. ~(p.kept # << >> /\ (p.dec.activeSps = Avc!NoId \/ p.dec.activePps = Avc!NoId))
    <3>1. p.kept # << >> /\ (p.dec.activeSps = Avc!NoId \/ p.dec.activePps = Avc!NoId)
            => Avc!Outcome = "bad stream"
      BY <2>1, Zenon DEF Avc!Outcome
    <3> QED BY <1>1, <3>1
  <2>3. p.kept # << >>
    <3>1. p.kept = << >> => Avc!Outcome = "eoes"
      BY <2>1, Zenon DEF Avc!Outcome
    <3> QED BY <1>1, <3>1
  <2> QED BY <2>1, <2>2, <2>3 DEF AvcPace, DecOK, IdOrNone
<1>3. t \in Nat \ {0} /\ p.auNum \in Nat /\ p.failed \in Nat
  BY StreamsAssumption DEF Avc!OneFrameRate, AvcPace, Regularly
<1>4. Avc!TicksNow = t
  <2>1. Avc!ActiveContent(p.dec) \in DOMAIN AvcTicks
    BY <1>2 DEF Avc!ActiveContent, AvcPace, DecOK
  <2>2. AvcTicks[Avc!ActiveContent(p.dec)] = t
    BY <2>1, StreamsAssumption DEF Avc!OneFrameRate
  <2>3. p.auNum = 0 \/ p.ticks = t
    <3>1. p.auNum > 0 => p.ticks = t
      BY DEF AvcPace
    <3>2. p.auNum \in Nat
      BY <1>3
    <3> QED BY <3>1, <3>2
  <2> QED BY <2>2, <2>3 DEF Avc!TicksNow, Avc!NewSequence
<1>5. x.dts = p.auNum * t /\ x.duration = t /\ x.newSd = p.newSd
  BY <1>4 DEF Avc!Sample
<1>6. Avc!Configured(p.dec) /\ p.auNum = 0 => x.newSd
  BY <1>1, <1>2, <1>5 DEF AvcPace, Bare, Avc!Configured
<1>7. /\ DOMAIN p' = AvcFields /\ p'.auNum = p.auNum + 1 /\ p'.ticks = t /\ p'.run = "idle"
      /\ p'.err = p.err /\ p'.dec = p.dec /\ p'.i = p.i
      /\ p'.failed = IF Avc!Configured(p.dec) THEN p.failed ELSE p.failed + 1
      /\ out' = IF Avc!Configured(p.dec) THEN Append(out, x) ELSE out
  <2>1. \E n, s, f :
          /\ p' = [p EXCEPT !.run = "idle", !.auNum = @ + 1, !.ticks = Avc!TicksNow,
                            !.info = n, !.failed = f, !.dsis = s]
          /\ f = IF Avc!Configured(p.dec) THEN p.failed ELSE p.failed + 1
    BY DEF Avc!DeliverSample
  <2>2. out' = IF Avc!Configured(p.dec) THEN Append(out, x) ELSE out
    BY DEF Avc!DeliverSample
  <2> HIDE DEF t, x
  <2>3. DOMAIN p = AvcFields
    BY DEF AvcPace
  <2> QED BY <1>4, <2>1, <2>2, <2>3 DEF AvcFields
<1>8. \/ out' = Append(out, x) /\ p'.failed = p.failed /\ (p.auNum = 0 => x.newSd)
      \/ out' = out /\ p'.failed = p.failed + 1
  BY <1>6, <1>7
<1> HIDE DEF x, t
<1>9. IsSeq(out) /\ Regularly(t)
  BY DEF AvcPace, t
<1>10. IsSeq(out') /\ Regularly(t)' /\ Answered
  BY <1>1, <1>3, <1>5, <1>7, <1>8, <1>9, Counted
<1>11. AvcPace'
  <2>1. p'.auNum # 0
    BY <1>3, <1>7
  <2> QED BY <1>1, <1>7, <1>10, <2>1 DEF AvcPace, t
<1> QED BY <1>10, <1>11

LEMMA AvcAnswers ==
    ASSUME kind = "avc", kind' = kind, AvcPace, Avc!Next
    PROVE  AvcPace' /\ Answered
<1>1. CASE Avc!GetSample
  <2>1. /\ out' = out /\ status' = status /\ es' = es /\ status = "open"
        /\ p.run = "idle" /\ p.i <= Len(es.nals)
        /\ p' = [p EXCEPT !.dec = IF p.auNum = 0 THEN Avc!LookAhead(@, Avc!Nal(p.i)) ELSE @,
                          !.kept = << >>, !.newSd = FALSE, !.run = "unit"]
    BY <1>1 DEF Avc!GetSample
  <2> DEFINE d == IF p.auNum = 0 THEN Avc!LookAhead(p.dec, Avc!Nal(p.i)) ELSE p.dec
  <2>2. DecOK(d) /\ d.pps = p.dec.pps
    <3>1. Avc!IsNal(Avc!Nal(p.i))
      BY <2>1, AvcNals DEF AvcPace
    <3>2. DecOK(Avc!LookAhead(p.dec, Avc!Nal(p.i)))
          /\ Avc!LookAhead(p.dec, Avc!Nal(p.i)).pps = p.dec.pps
      BY <3>1, AvcLooks DEF AvcPace
    <3> QED BY <3>2 DEF AvcPace
  <2>3. p' = [p EXCEPT !.dec = d, !.kept = << >>, !.newSd = FALSE, !.run = "unit"]
    BY <2>1
  <2> HIDE DEF d
  <2>4. /\ DOMAIN p' = AvcFields /\ p'.dec = d /\ p'.run = "unit"
        /\ \A f \in AvcFields \ {"dec", "kept", "newSd", "run"} : p'[f] = p[f]
    BY <2>3 DEF AvcPace, AvcFields
  <2>5. AvcPace'
    <3>1. p'.auNum = p.auNum /\ p'.failed = p.failed /\ p'.ticks = p.ticks /\ p'.err = p.err
          /\ p'.i = p.i /\ p'.dsis = p.dsis
      BY <2>4 DEF AvcFields
    <3>2. p'.auNum = 0 => Bare(p')
      BY <2>1, <2>2, <2>4, <3>1 DEF AvcPace, Bare
    <3>3. Regularly(AvcTicks[0])'
      BY <2>1, <3>1 DEF AvcPace, Regularly
    <3> QED BY <2>1, <2>2, <2>4, <3>1, <3>2, <3>3 DEF AvcPace
  <2>6. Answered
    BY <2>1, <2>4 DEF Answered, Skipped, AvcFields
  <2> QED BY <2>5, <2>6
<1>2. CASE Avc!TakeNal
  <2> DEFINE b == Avc!Take(p)
             n == Avc!Nal(p.i + 1)
  <2>1. out' = out /\ status' = status /\ es' = es /\ p.run = "unit" /\ status = "open"
    BY <1>2 DEF Avc!TakeNal, AvcPace
  <2>2. /\ Avc!IsNal(Avc!Nal(p.i)) /\ p.i \in Nat \ {0} /\ p.i <= Len(es.nals) /\ Len(es.nals) \in Nat
        /\ p.i # Len(es.nals) => Avc!IsNal(n) /\ p.i + 1 <= Len(es.nals)
    BY <2>1, AvcNals DEF AvcPace
  <2>3. /\ DOMAIN b = AvcFields /\ Unmoved(p, b) /\ DecOK(b.dec)
        /\ p.newSd \/ Bare(p) => b.newSd \/ b.err # "" \/ Bare(b)
    BY <2>2, AvcTakes DEF AvcPace
  <2>4. \/ b.err # "" /\ p' = [b EXCEPT !.run = "end"]
        \/ b.err = "" /\ p' = [b EXCEPT !.i = @ + 1, !.run = "end"]
        \/ /\ b.err = "" /\ p.i # Len(es.nals)
           /\ \E r \in {"end", b.run} :
                p' = [b EXCEPT !.i = @ + 1, !.dec = Avc!LookAhead(@, n), !.run = r]
    <3> DEFINE over == b.kept # << >> /\ Avc!Starts(b.dec, n)
    <3>1. p' = CASE b.err # "" -> [b EXCEPT !.run = "end"]
                 [] b.err = "" /\ p.i = Len(es.nals) -> [b EXCEPT !.i = @ + 1, !.run = "end"]
                 [] OTHER -> [b EXCEPT !.i = @ + 1, !.dec = Avc!LookAhead(@, n),
                                       !.run = IF over THEN "end" ELSE @]
      BY <1>2 DEF Avc!TakeNal
    <3> HIDE DEF b, n, over
    <3>2. CASE b.err # ""
      BY <3>1, <3>2, Zenon
    <3>3. CASE b.err = "" /\ p.i = Len(es.nals)
      BY <3>1, <3>3, Zenon
    <3>4. CASE b.err = "" /\ p.i # Len(es.nals)
      <4>1. p' = [b EXCEPT !.i = @ + 1, !.dec = Avc!LookAhead(@, n),
                           !.run = IF over THEN "end" ELSE @]
        BY <3>1, <3>4, Zenon
      <4> QED BY <3>4, <4>1
    <3> QED BY <3>2, <3>3, <3>4
  <2>5. p.i # Len(es.nals) => /\ DecOK(Avc!LookAhead(b.dec, n))
                              /\ Avc!LookAhead(b.dec, n).pps = b.dec.pps
    BY <2>2, <2>3, AvcLooks
  <2> HIDE DEF b, n
  <2>6. /\ DOMAIN p' = AvcFields /\ p'.err = b.err /\ p'.newSd = b.newSd /\ p'.dsis = b.dsis
        /\ \A f \in {"auNum", "ticks", "failed"} : p'[f] = b[f]
        /\ DecOK(p'.dec) /\ p'.dec.pps = b.dec.pps
        /\ p'.run \in {"end", b.run} /\ (b.err # "" => p'.run = "end")
        /\ p'.i \in {b.i, b.i + 1}
        /\ p'.run # "end" => p'.i = b.i + 1 /\ p.i # Len(es.nals)
    <3>1. CASE b.err # "" /\ p' = [b EXCEPT !.run = "end"]
      BY <2>3, <3>1 DEF AvcFields
    <3>2. CASE b.err = "" /\ p' = [b EXCEPT !.i = @ + 1, !.run = "end"]
      BY <2>3, <3>2 DEF AvcFields
    <3>3. ASSUME b.err = "", p.i # Len(es.nals), NEW r \in {"end", b.run},
                 p' = [b EXCEPT !.i = @ + 1, !.dec = Avc!LookAhead(@, n), !.run = r]
          PROVE  <2>6!:
      <4> DEFINE l == Avc!LookAhead(b.dec, n)
      <4>1. DecOK(l) /\ l.pps = b.dec.pps
        BY <2>5, <3>3
      <4>2. p' = [b EXCEPT !.i = @ + 1, !.dec = l, !.run = r]
        BY <3>3
      <4> HIDE DEF l
      <4> QED BY <2>3, <3>3, <4>1, <4>2 DEF AvcFields
    <3> QED BY <2>4, <3>1, <3>2, <3>3
  <2>7. /\ p'.auNum = p.auNum /\ p'.ticks = p.ticks /\ p'.failed = p.failed /\ b.i = p.i
        /\ p'.err \in Errors /\ p'.run \in {"end", "unit"}
    BY <2>1, <2>3, <2>6 DEF Unmoved, AvcPace
  <2>8. AvcPace'
    <3>1. p'.i \in Nat \ {0} /\ (p'.run = "unit" => p'.i <= Len(es'.nals))
      <4>1. p'.i \in {p.i, p.i + 1} /\ es'.nals = es.nals
        BY <2>1, <2>6, <2>7
      <4>2. p'.run = "unit" => p'.i = p.i + 1 /\ p.i # Len(es.nals)
        BY <2>6, <2>7
      <4> QED BY <2>2, <4>1, <4>2
    <3>2. p'.auNum = 0 => \/ Bare(p)'
                          \/ p'.run # "idle" /\ p'.newSd
                          \/ p'.run = "end" /\ p'.err # ""
      BY <2>1, <2>3, <2>6, <2>7 DEF AvcPace, Bare
    <3>3. Regularly(AvcTicks[0])'
      BY <2>1, <2>7 DEF AvcPace, Regularly
    <3> QED BY <2>1, <2>6, <2>7, <3>1, <3>2, <3>3 DEF AvcPace
  <2>9. Answered
    BY <2>1, <2>7 DEF Answered, Skipped
  <2> QED BY <2>8, <2>9
<1>3. CASE Avc!DeliverSample
  BY <1>3, AvcDelivers
<1>4. CASE Avc!EndOfStream \/ Avc!Fail
  <2>1. out' = out /\ p' = p /\ es' = es /\ status = "open" /\ status' # "open"
        /\ p.run # "unit" /\ (p.run = "end" => Avc!Outcome # "ok")
    <3>1. CASE Avc!EndOfStream
      BY <3>1 DEF Avc!EndOfStream
    <3>2. CASE Avc!Fail
      <4>1. Avc!Outcome # "open"
        BY Zenon DEF Avc!Outcome, AvcPace, Errors
      <4>2. status = "open" /\ p.run = "end" /\ Avc!Outcome # "ok" /\ UNCHANGED <<es, p, out>>
            /\ status' = Avc!Outcome
        BY <3>2 DEF Avc!Fail
      <4> QED BY <4>1, <4>2
    <3> QED BY <1>4, <3>1, <3>2
  <2>2. Answered
    BY <2>1, Stopped DEF Answered, Skipped, Promise!Next
  <2>3. Avc!Outcome' = Avc!Outcome
    BY <2>1 DEF Avc!Outcome
  <2>4. AvcPace'
    BY <2>1, <2>3 DEF AvcPace, Regularly
  <2> QED BY <2>2, <2>4
<1> QED BY <1>1, <1>2, <1>3, <1>4 DEF Avc!Next

-----------------------------------------------------------------------------
(* Whichever parser runs: what the steps of it go by.                       *)
Paced ==
    /\ kind = "aac" => AacPace
    /\ kind = "dd" => DdPace
    /\ kind = "ac4" => Ac4Pace
    /\ kind = "avc" => AvcPace
    /\ kind = "hevc" => HevcPace

LEMMA Starts ==
    ASSUME Init PROVE Paced /\ Promise!Init
<1> DEFINE Begun == out = << >> /\ status = "open"
<1>0. Begun => IsSeq(out) /\ Len(out) = 0
  <2>1. Len(<< >>) = 0
    OBVIOUS
  <2> QED BY <2>1, EmptyIsSeq
<1>1. CASE kind = "aac" /\ Aac!Init
  <2>1. Begun
    BY <1>1 DEF Aac!Init, Aac!Start
  <2> QED BY <1>0, <1>1, <2>1 DEF Paced, AacPace, Promise!Init, Skipped
<1>2. CASE kind = "dd" /\ Dd!Init
  <2>1. PICK s \in DdStreams : Dd!Start(s)
    BY <1>2 DEF Dd!Init
  <2>2. Begun /\ es \in DdStreams
    BY <2>1 DEF Dd!Start
  <2>3. /\ DOMAIN p = DdFields /\ p.pos = 1 /\ p.lastIndep = -1 /\ p.calling = FALSE
        /\ p.dts = 0 /\ p.num = 0 /\ p.aud = 0 /\ p.numblks = 0
    BY <2>1 DEF Dd!Start, DdFields
  <2>4. DdPace
    <3>1. Dd!OneBlockCount(es)
      BY <2>2, StreamsAssumption
    <3>2. PICK b \in 1..FullBlocks :
            \A i \in 1..Len(es.units) : es.units[i].t # "junk" => es.units[i].blks = b
      BY <3>1 DEF Dd!OneBlockCount
    <3>3. DdAt(b)
      BY <1>0, <2>2, <2>3, <3>2 DEF DdAt
    <3>4. IsSeq(out) /\ es \in DdStreams
      BY <1>0, <2>2
    <3>5. p.pos \in Nat \ {0} /\ p.lastIndep \in Int /\ p.calling \in BOOLEAN
      <4>1. p.pos = 1 /\ p.lastIndep = -1
        BY <2>3
      <4>2. p.calling \in BOOLEAN
        BY <2>3, Zenon
      <4> QED BY <4>1, <4>2
    <3> QED BY <2>3, <3>3, <3>4, <3>5 DEF DdPace
  <2> QED BY <1>2, <2>2, <2>4 DEF Paced, Promise!Init, Skipped
<1>3. CASE kind = "ac4" /\ Ac4!Init
  <2>1. PICK s \in Ac4Streams : Ac4!Start(s)
    BY <1>3 DEF Ac4!Init
  <2>2. Begun /\ "ticks" \in DOMAIN p /\ "num" \in DOMAIN p /\ p.num = 0
    BY <2>1 DEF Ac4!Start
  <2> QED BY <1>0, <1>3, <2>2 DEF Paced, Ac4Pace, Promise!Init, Skipped
<1>4. CASE kind = "avc" /\ Avc!Init
  <2>1. PICK s \in AvcStreams : Avc!Start(s)
    BY <1>4 DEF Avc!Init
  <2>2. Begun /\ es \in AvcStreams
    BY <2>1 DEF Avc!Start
  <2>3. /\ DOMAIN p = AvcFields /\ p.i = 1 /\ p.dec = Avc!NoDec /\ p.dsis = << Avc!NoDsi >>
        /\ p.auNum = 0 /\ p.failed = 0 /\ p.err = "" /\ p.run = "idle"
    BY <2>1 DEF Avc!Start, AvcFields
  <2>4. DecOK(Avc!NoDec) /\ \A id \in Ids : Avc!NoDec.pps[id] = Avc!NoId
    <3>1. SliceOK(Avc!NoSlice) /\ 0 \in Ids
      BY StreamsAssumption DEF SliceOK, Avc!NoSlice
    <3>2. 0 \in DOMAIN AvcTicks
      BY StreamsAssumption DEF Avc!OneFrameRate
    <3>3. /\ DOMAIN Avc!NoDec = DecFields
          /\ Avc!NoDec.cur = Avc!NoSlice /\ Avc!NoDec.next = Avc!NoSlice
          /\ Avc!NoDec.sps = [i \in Ids |-> 0] /\ Avc!NoDec.pps = [i \in Ids |-> Avc!NoId]
          /\ Avc!NoDec.lastPps = 0 /\ Avc!NoDec.activeSps = Avc!NoId
          /\ Avc!NoDec.activePps = Avc!NoId
      BY DEF Avc!NoDec, DecFields, Avc!Undefined
    <3>4. [i \in Ids |-> 0] \in [Ids -> DOMAIN AvcTicks]
          /\ [i \in Ids |-> Avc!NoId] \in [Ids -> IdOrNone] /\ Avc!NoId \in IdOrNone
      BY <3>2 DEF IdOrNone
    <3> QED BY <3>1, <3>3, <3>4 DEF DecOK
  <2>5. NoPicSet(<< Avc!NoDsi >>)
    <3>1. IsSeq(<< Avc!NoDsi >>)
      <4>1. << Avc!NoDsi >> \in Seq({Avc!NoDsi})
        OBVIOUS
      <4> QED BY <4>1 DEF IsSeq
    <3>2. DOMAIN Avc!NoDsi = DsiFields /\ Avc!NoDsi.pps = << >>
      BY DEF Avc!NoDsi, DsiFields
    <3> QED BY <3>1, <3>2 DEF NoPicSet
  <2>6. Regularly(AvcTicks[0])
    <3>1. p.auNum = 0 /\ p.failed = 0
      BY <2>3
    <3>2. out = << >> /\ Len(out) = 0
      BY <1>0, <2>2
    <3> QED BY <3>1, <3>2 DEF Regularly
  <2>7. AvcPace
    <3>1. IsSeq(out) /\ es \in AvcStreams /\ status = "open"
      BY <1>0, <2>2
    <3>2. p.err \in Errors /\ p.i \in Nat \ {0} /\ p.run = "idle" /\ p.auNum = 0
      <4>1. p.err = "" /\ p.run = "idle"
        BY <2>3
      <4>2. p.i = 1 /\ p.auNum = 0
        BY <2>3
      <4>3. p.err \in Errors
        BY <4>1 DEF Errors
      <4>4. p.i \in Nat \ {0}
        BY <4>2
      <4> QED BY <4>1, <4>2, <4>3, <4>4
    <3>3. DOMAIN p = AvcFields /\ DecOK(p.dec) /\ Bare(p)
      BY <2>3, <2>4, <2>5 DEF Bare
    <3> QED BY <2>6, <3>1, <3>2, <3>3 DEF AvcPace
  <2>8. ~Skipped
    <3>1. p.failed = 0
      BY <2>3
    <3> QED BY <3>1 DEF Skipped
  <2> QED BY <1>4, <2>2, <2>7, <2>8 DEF Paced, Promise!Init
<1>5. CASE kind = "hevc" /\ Hevc!Init
  <2>1. PICK s \in HevcStreams : Hevc!Start(s)
    BY <1>5 DEF Hevc!Init
  <2>2. Begun /\ es \in HevcStreams
    BY <2>1 DEF Hevc!Start
  <2>3. /\ DOMAIN p = HevcFields /\ p.auNum = 0 /\ p.failed = 0 /\ p.err = "" /\ p.run = "idle"
    BY <2>1 DEF Hevc!Start, HevcFields
  <2>4. Regularly(Hevc!Timing(es.timing))
    <3>1. p.auNum = 0 /\ p.failed = 0
      BY <2>3
    <3>2. out = << >> /\ Len(out) = 0
      BY <1>0, <2>2
    <3> QED BY <3>1, <3>2 DEF Regularly
  <2>5. HevcPace
    <3>1. IsSeq(out) /\ es \in HevcStreams /\ status = "open"
      BY <1>0, <2>2
    <3>2. DOMAIN p = HevcFields /\ p.err \in Errors /\ p.run = "idle" /\ p.auNum = 0
      BY <2>3 DEF Errors
    <3> QED BY <2>4, <3>1, <3>2 DEF HevcPace
  <2>6. ~Skipped
    <3>1. p.failed = 0
      BY <2>3
    <3> QED BY <3>1 DEF Skipped
  <2> QED BY <1>5, <2>2, <2>5, <2>6 DEF Paced, Promise!Init
<1>6. CASE kind = "asc" /\ NoParser
  BY <1>6 DEF Paced, NoParser, Promise!Init, Skipped
<1> QED BY <1>1, <1>2, <1>3, <1>4, <1>5, <1>6 DEF Init

LEMMA Answers ==
    ASSUME Paced, [Next]_vars PROVE Paced' /\ Answered
<1>1. CASE AacStep
  BY <1>1, AacAnswers DEF AacStep, Paced
<1>2. CASE DdStep
  BY <1>2, DdAnswers DEF DdStep, Paced
<1>3. CASE Ac4Step
  BY <1>3, Ac4Answers DEF Ac4Step, Paced
<1>4. CASE AvcStep
  BY <1>4, AvcAnswers DEF AvcStep, Paced
<1>5. CASE HevcStep
  BY <1>5, HevcAnswers DEF HevcStep, Paced
<1>6. CASE AscStep
  BY <1>6 DEF AscStep, parserVars, Paced, Answered, Skipped
<1>7. CASE UNCHANGED vars
  <2>1. UNCHANGED <<kind, es, p, out, status>>
    BY <1>7 DEF vars, parserVars
  <2>2. Avc!Outcome' = Avc!Outcome /\ Hevc!Outcome' = Hevc!Outcome
    BY <2>1 DEF Avc!Outcome, Hevc!Outcome
  <2>3. AacPace => AacPace'
    BY <2>1 DEF AacPace
  <2>4. DdPace => DdPace'
    BY <2>1 DEF DdPace, DdAt
  <2>5. Ac4Pace => Ac4Pace'
    BY <2>1 DEF Ac4Pace
  <2>6. AvcPace => AvcPace'
    BY <2>1, <2>2 DEF AvcPace, Regularly
  <2>7. HevcPace => HevcPace'
    BY <2>1, <2>2 DEF HevcPace, Regularly
  <2>8. Paced'
    BY <2>1, <2>3, <2>4, <2>5, <2>6, <2>7 DEF Paced
  <2> QED BY <2>1, <2>8 DEF Answered, Skipped
<1> QED BY <1>1, <1>2, <1>3, <1>4, <1>5, <1>6, <1>7 DEF Next

(* Whatever the stream, a caller of get_sample sees what the interface      *)
(* promises: from each parser come samples that follow each other in time   *)
(* without overlap, the first at 0 and with a description, then the end of  *)
(* the stream or an error; only a video unit that lacks its sets makes a    *)
(* gap, and it is reported.                                                 *)
THEOREM ParsersKeepPromise == Spec => ImplementsEsParser
<1>1. Init => Paced /\ Promise!Init
  BY Starts
<1>2. Paced /\ [Next]_vars => Paced' /\ [Promise!Next]_<<out, status, Skipped>>
  BY Answers DEF Answered
<1> QED BY <1>1, <1>2, PTL DEF Spec, ImplementsEsParser, Promise!Spec

-----------------------------------------------------------------------------
(* Remainder and quotient of an integer.                                    *)
LEMMA LowBits ==
    ASSUME NEW M \in Int, M > 0, NEW x \in Int
    PROVE  /\ x % M \in 0..(M - 1)
           /\ \E k \in Int : x % M = x - k * M
<1>1. PICK k \in Int : k = x \div M
  OBVIOUS
<1>2. k * M <= x /\ x < k * M + M
  BY <1>1
<1>3. x % M = x - k * M
  BY <1>1
<1>4. k * M \in Int
  OBVIOUS
<1>5. x % M \in 0..(M - 1)
  BY <1>2, <1>3, <1>4
<1> QED BY <1>3, <1>5

(* The slice header carries a count's low bits only; the upper part is      *)
(* guessed from the picture of layer 0 before it.  The guess is right for   *)
(* every count less than half the range below that picture's, or no more    *)
(* than half the range above it, however often the low bits have wrapped.   *)
THEOREM OrderCountsAreRebuilt ==
    ASSUME NEW h \in Nat \ {0}, MaxLsb = 2 * h,
           NEW prev \in Int, NEW poc \in Int,
           0 - h < poc - prev, poc - prev <= h,
           NEW lsb, lsb = poc % MaxLsb
    PROVE  Hevc!PocMsb(prev, lsb) + lsb = poc
<1> DEFINE low == prev % MaxLsb
<1>1. MaxLsb \in Int /\ MaxLsb > 0 /\ MaxLsb \div 2 = h
  OBVIOUS
<1>4. PICK q \in Int : lsb \in 0..(MaxLsb - 1) /\ lsb = poc - q * MaxLsb
  BY <1>1, LowBits
<1>5. PICK r \in Int : low \in 0..(MaxLsb - 1) /\ low = prev - r * MaxLsb
  BY <1>1, LowBits
<1>6. /\ lsb < low /\ low - lsb >= h => Hevc!PocMsb(prev, lsb) = (prev - low) + MaxLsb
      /\ lsb > low /\ lsb - low > h => Hevc!PocMsb(prev, lsb) = (prev - low) - MaxLsb
      /\ ~(lsb < low /\ low - lsb >= h) /\ ~(lsb > low /\ lsb - low > h)
            => Hevc!PocMsb(prev, lsb) = prev - low
  <2>1. Hevc!PocMsb(prev, lsb) =
          CASE lsb < low /\ low - lsb >= MaxLsb \div 2 -> (prev - low) + MaxLsb
            [] lsb > low /\ lsb - low > MaxLsb \div 2 -> (prev - low) - MaxLsb
            [] OTHER -> prev - low
    BY Zenon DEF Hevc!PocMsb
  <2>2. ~(lsb < low /\ lsb > low)
    BY <1>4, <1>5
  <2> HIDE DEF low
  <2>3. Hevc!PocMsb(prev, lsb) =
          CASE lsb < low /\ low - lsb >= h -> (prev - low) + MaxLsb
            [] lsb > low /\ lsb - low > h -> (prev - low) - MaxLsb
            [] OTHER -> prev - low
    BY <1>1, <2>1, Zenon
  <2> QED BY <2>2, <2>3, Zenon
<1> HIDE DEF low
<1>7. q - r \in {-1, 0, 1}
  <2>1. PICK d \in Int : d = q - r
    OBVIOUS
  <2>2. d * MaxLsb = (poc - prev) - (lsb - low)
    <3>1. d * MaxLsb = q * MaxLsb - r * MaxLsb
      BY <1>1, <2>1
    <3>2. q * MaxLsb \in Int /\ r * MaxLsb \in Int
      BY <1>1
    <3> QED BY <1>1, <1>4, <1>5, <3>1, <3>2
  <2>3. 0 - 2 * MaxLsb < d * MaxLsb /\ d * MaxLsb < 2 * MaxLsb
    BY <1>1, <1>4, <1>5, <2>2
  <2>4. ~(d >= 2)
    BY <1>1, <2>3
  <2>5. ~(d <= 0 - 2)
    BY <1>1, <2>3
  <2> QED BY <2>1, <2>4, <2>5
<1>8. CASE q = r
  <2>1. poc - prev = lsb - low
    <3>1. r * MaxLsb \in Int
      BY <1>1
    <3> QED BY <1>1, <1>4, <1>5, <1>8, <3>1
  <2>2. lsb \in Int /\ low \in Int
    BY <1>1, <1>4, <1>5
  <2>3. ~(low - lsb >= h) /\ ~(lsb - low > h)
    BY <2>1, <2>2
  <2>4. Hevc!PocMsb(prev, lsb) = prev - low
    BY <1>6, <2>3
  <2> QED BY <2>1, <2>2, <2>4
<1>9. CASE q = r + 1
  <2>1. poc - prev = MaxLsb + (lsb - low)
    <3>1. q * MaxLsb = r * MaxLsb + MaxLsb /\ r * MaxLsb \in Int
      BY <1>1, <1>9
    <3> QED BY <1>1, <1>4, <1>5, <3>1
  <2> QED BY <1>1, <1>4, <1>5, <1>6, <2>1
<1>10. CASE q = r - 1
  <2>1. poc - prev = (lsb - low) - MaxLsb
    <3>1. q * MaxLsb = r * MaxLsb - MaxLsb /\ r * MaxLsb \in Int
      BY <1>1, <1>10
    <3> QED BY <1>1, <1>4, <1>5, <3>1
  <2>2. lsb \in Int /\ low \in Int
    BY <1>1, <1>4, <1>5
  <2>3. lsb - low > h /\ lsb > low
    BY <2>1, <2>2
  <2>4. Hevc!PocMsb(prev, lsb) = (prev - low) - MaxLsb
    BY <1>6, <2>3
  <2> QED BY <1>1, <2>1, <2>2, <2>4
<1>11. q = r \/ q = r + 1 \/ q = r - 1
  BY <1>7
<1> QED BY <1>8, <1>9, <1>10, <1>11

-----------------------------------------------------------------------------
(* AAC frames.  A scan stops at the first of the headers it comes by that   *)
(* is confirmed.                                                            *)
AacHead(i) == Aac!Cell(i).sync /\ Aac!Confirmed(i)

AacNext(pos, i) ==
    /\ i \in Aac!Headers(pos) /\ Aac!Confirmed(i)
    /\ \A j \in Aac!Headers(pos) : Aac!Confirmed(j) => i <= j

(* Only what is swallowed by the byte before it is not come by.             *)
LEMMA AacComesBy ==
    ASSUME NEW pos \in Nat, NEW i \in pos..(Len(es) - 1), Aac!Cell(i).sync
    PROVE  i \in Aac!Headers(pos) \/ i - 1 \in Aac!Skipping
<1> SUFFICES ASSUME i - 1 \notin Aac!Skipping PROVE i \in Aac!Headers(pos)
  OBVIOUS
<1>1. i \in Int /\ pos <= i
  OBVIOUS
<1>2. i \in pos..i /\ (i - i) % 2 = 0 /\ \A k \in i..(i - 1) : k \in Aac!Skipping
  BY <1>1
<1>3. Aac!Reached(Aac!Skipping, pos, i)
  BY <1>2 DEF Aac!Reached
<1> QED BY <1>3 DEF Aac!Headers

LEMMA AacNextIsHead ==
    ASSUME NEW pos, NEW i, AacNext(pos, i)
    PROVE  i \in pos..(Len(es) - 1) /\ AacHead(i)
BY DEF AacNext, AacHead, Aac!Headers

(* The scans do not change while the stream does not.                       *)
LEMMA AacHeadsRest ==
    ASSUME es' = es
    PROVE  /\ \A i : Aac!Cell(i)' = Aac!Cell(i) /\ AacHead(i)' = AacHead(i)
           /\ Aac!Skipping' = Aac!Skipping
           /\ \A pos, i : AacNext(pos, i)' = AacNext(pos, i)
<1>1. \A i : Aac!Cell(i)' = Aac!Cell(i) /\ Aac!Confirmed(i)' = Aac!Confirmed(i)
  BY DEF Aac!Cell, Aac!Confirmed, Aac!NextHeader
<1>2. Aac!Skipping' = Aac!Skipping
  BY DEF Aac!Skipping, Aac!HalfConfirmed, Aac!Cell, Aac!NextHeader
<1>3. \A pos : Aac!Headers(pos)' = Aac!Headers(pos)
  BY <1>1, <1>2 DEF Aac!Headers, Aac!Reached
<1> QED BY <1>1, <1>2, <1>3 DEF AacHead, AacNext

LEMMA AacCells ==
    ASSUME es \in Seq(Aac!Cells), NEW i \in 0..(Len(es) - 1)
    PROVE  /\ Len(es) \in Nat /\ Aac!Cell(i) \in Aac!Cells
           /\ Aac!Confirmed(i) => /\ Aac!Cell(i).len \in Nat /\ Aac!Cell(i).hdr \in Nat \ {0}
                                /\ i + Aac!Cell(i).hdr + Aac!Cell(i).len <= Len(es)
<1>1. Len(es) \in Nat /\ i + 1 \in 1..Len(es)
  OBVIOUS
<1>2. es[i + 1] \in Aac!Cells
  BY <1>1
<1>3. Aac!Cell(i) \in Aac!Cells
  BY <1>2 DEF Aac!Cell
<1>4. Aac!Cell(i).len \in Int /\ Aac!Cell(i).hdr \in Nat \ {0}
  BY <1>3 DEF Aac!Cells
<1> QED BY <1>1, <1>3, <1>4 DEF Aac!Confirmed, Aac!NextHeader

LEMMA AacScan ==
    ASSUME es \in Seq(Aac!Cells), NEW pos \in 0..Len(es)
    PROVE  LET s == Aac!Scan(pos)
           IN  \/ /\ s.found = "no" /\ s.head = Len(es) /\ s.pos = Len(es) /\ s.remain = 0
                  /\ \A i \in Aac!Headers(pos) : ~Aac!Confirmed(i)
               \/ \E i : /\ AacNext(pos, i)
                         /\ s.head = i /\ s.pos = i + Aac!Cell(i).hdr
                         /\ s.hdr = Aac!Stored(Aac!Cell(i)) /\ s.remain = Aac!Cell(i).len
                         /\ s.found = IF Aac!Cell(i).blocks = 0 THEN "yes" ELSE "unsupported"
<1> DEFINE good == {i \in Aac!Headers(pos) : Aac!Confirmed(i)}
           s    == Aac!Scan(pos)
<1>1. CASE good = {}
  <2>1. s.found = "no" /\ s.head = Len(es) /\ s.pos = Len(es) /\ s.remain = 0
    BY <1>1 DEF Aac!Scan
  <2>2. \A i \in Aac!Headers(pos) : ~Aac!Confirmed(i)
    BY <1>1
  <2> QED BY <2>1, <2>2
<1>2. CASE good # {}
  <2> DEFINE i == CHOOSE x \in good : \A y \in good : x <= y
  <2>1. good \subseteq Nat
    BY DEF Aac!Headers
  <2>2. \E x \in good : \A y \in good : x <= y
    <3> HIDE DEF good
    <3> QED BY <1>2, <2>1, Least
  <2>3. i \in good /\ \A y \in good : i <= y
    BY <2>2
  <2>4. s = [found |-> IF Aac!Cell(i).blocks = 0 THEN "yes" ELSE "unsupported",
             head |-> i, pos |-> i + Aac!Cell(i).hdr, hdr |-> Aac!Stored(Aac!Cell(i)),
             remain |-> Aac!Cell(i).len]
    BY <1>2 DEF Aac!Scan
  <2>5. AacNext(pos, i)
    <3> HIDE DEF i
    <3> QED BY <2>3 DEF AacNext
  <2> HIDE DEF i
  <2> QED BY <2>4, <2>5
<1> QED BY <1>1, <1>2

LEMMA AacNextIsOne ==
    ASSUME NEW pos \in Nat, NEW i, NEW j, AacNext(pos, i), AacNext(pos, j)
    PROVE  i = j
<1>1. i <= j /\ j <= i
  BY DEF AacNext
<1>2. i \in Int /\ j \in Int
  BY AacNextIsHead
<1> QED BY <1>1, <1>2

(* Samples open descriptions: counting them.                                *)
OpenedBy(s, k) == Cardinality({i \in 2..k : s[i].newSd}) + 1

LEMMA CountedAlike == ASSUME NEW S PROVE Aac!Cardinality(S) = Cardinality(S)
BY DEF Aac!Cardinality, Cardinality

LEMMA DescribedAlike == ASSUME NEW s, NEW k PROVE Aac!DescriptionOf(s, k) = OpenedBy(s, k)
BY CountedAlike DEF Aac!DescriptionOf, OpenedBy

LEMMA OpenedType ==
    ASSUME NEW s, NEW n \in Nat, NEW k \in 1..n
    PROVE  OpenedBy(s, n) \in Nat /\ OpenedBy(s, k) \in 1..OpenedBy(s, n)
<1> DEFINE A == {i \in 2..k : s[i].newSd}
           B == {i \in 2..n : s[i].newSd}
<1>1. k \in Nat /\ k <= n
  OBVIOUS
<1>2. A \subseteq B /\ B \subseteq 2..n /\ IsFiniteSet(2..n)
  BY <1>1, FS_Interval
<1>3. OpenedBy(s, k) = Cardinality(A) + 1 /\ OpenedBy(s, n) = Cardinality(B) + 1
  BY DEF OpenedBy
<1> HIDE DEF A, B
<1>4. IsFiniteSet(B)
  BY <1>2, FS_Subset
<1>5. /\ Cardinality(A) <= Cardinality(B) /\ IsFiniteSet(A)
      /\ Cardinality(A) \in Nat /\ Cardinality(B) \in Nat
  BY <1>2, <1>4, FS_Subset, FS_CardinalityType
<1> QED BY <1>3, <1>5

LEMMA OneMoreOpens ==
    ASSUME NEW s, IsSeq(s), s # << >>, NEW x, x.newSd \in BOOLEAN
    PROVE  /\ \A k \in 1..Len(s) : OpenedBy(Append(s, x), k) = OpenedBy(s, k)
           /\ OpenedBy(Append(s, x), Len(s) + 1) = OpenedBy(s, Len(s)) + (IF x.newSd THEN 1 ELSE 0)
<1> DEFINE u == Append(s, x)
           n == Len(s)
           O(t, k) == {i \in 2..k : t[i].newSd}
<1>1. /\ n \in Nat /\ n > 0 /\ u[n + 1] = x
      /\ \A i \in 1..n : u[i] = s[i]
  BY Appended
<1> HIDE DEF u, n
<1>2. \A k \in 1..n : O(u, k) = O(s, k)
  BY <1>1
<1>3. /\ x.newSd => O(u, n + 1) = O(s, n) \cup {n + 1}
      /\ ~x.newSd => O(u, n + 1) = O(s, n)
  <2>1. \A i \in 2..n : u[i].newSd = s[i].newSd
    BY <1>1
  <2>2. u[n + 1].newSd = x.newSd /\ n + 1 \in 2..(n + 1)
    BY <1>1
  <2>3. \A i : i \in 2..(n + 1) <=> i \in 2..n \/ i = n + 1
    BY <1>1
  <2>4. \A i : i \in O(u, n + 1) <=> i \in O(s, n) \/ (x.newSd /\ i = n + 1)
    BY <2>1, <2>2, <2>3
  <2> HIDE DEF O
  <2> QED BY <2>4
<1>4. IsFiniteSet(O(s, n)) /\ n + 1 \notin O(s, n)
  <2>1. O(s, n) \subseteq 2..n /\ IsFiniteSet(2..n)
    BY <1>1, FS_Interval
  <2>2. n + 1 \notin 2..n
    BY <1>1
  <2> HIDE DEF O
  <2> QED BY <2>1, <2>2, FS_Subset
<1>5. \A t, k : OpenedBy(t, k) = Cardinality(O(t, k)) + 1
  BY DEF OpenedBy
<1> HIDE DEF O
<1>6. Cardinality(O(s, n)) \in Nat /\ Cardinality(O(s, n) \cup {n + 1}) = Cardinality(O(s, n)) + 1
  BY <1>4, FS_AddElement, FS_CardinalityType
<1>7. OpenedBy(u, n + 1) = OpenedBy(s, n) + (IF x.newSd THEN 1 ELSE 0)
  <2>1. CASE x.newSd
    <3>1. OpenedBy(u, n + 1) = Cardinality(O(s, n)) + 1 + 1
      BY <1>3, <1>5, <1>6, <2>1
    <3> QED BY <1>5, <2>1, <3>1
  <2>2. CASE ~x.newSd
    <3>1. OpenedBy(u, n + 1) = Cardinality(O(s, n)) + 1
      BY <1>3, <1>5, <2>2
    <3> QED BY <1>5, <1>6, <2>2, <3>1
  <2> QED BY <2>1, <2>2
<1>8. \A k \in 1..n : OpenedBy(u, k) = OpenedBy(s, k)
  BY <1>2, <1>5
<1> QED BY <1>7, <1>8 DEF u, n

(* What is kept of the frames.                                              *)
AacFrame(k) ==
    p.pos < Len(es) /\ status = "open" =>
        out[k].size \in Int /\ out[k].at \in Int /\ out[k].at + out[k].size <= p.pos

AacFound(i) == \E k \in 1..Len(out) : out[k].head <= i /\ i < out[k].at + out[k].size

AacFields == {"pos", "hdr", "dsis"}

AacInv ==
    /\ es \in Seq(Aac!Cells) /\ IsSeq(out) /\ IsSeq(p.dsis) /\ DOMAIN p = AacFields
    /\ p.pos \in 0..Len(es) /\ status \in {"open", "eoes", "no support", "config error"}
    /\ \A j \in 1..Len(p.dsis) : \E c : p.dsis[j] = Aac!InitDsi(c)
    /\ p.dsis = << >> => out = << >> /\ (status = "open" => p.pos = 0)
    /\ status = "open" /\ out = << >> /\ p.dsis # << >> =>
         /\ p.pos = 0
         /\ \E i : AacNext(0, i) /\ p.dsis = << Aac!InitDsi(Aac!Override(Aac!Cell(i).cfg)) >>
    /\ out # << >> => Len(p.dsis) = OpenedBy(out, Len(out))
    /\ \A k \in 1..Len(out) : AacFrame(k)
    /\ Aac!FramesFollowHeaders
    /\ p.dsis # << >> /\ status \in {"open", "eoes"} =>
         \A i \in 0..(Len(es) - 1) : AacHead(i) /\ Aac!Cell(i).blocks = 0 =>
            (i >= p.pos /\ status = "open") \/ AacFound(i) \/ i - 1 \in Aac!Skipping

(* A sample more: it is the frame of the next header, or follows the last.  *)
LEMMA AacTakes ==
    ASSUME kind = "aac", kind' = kind, AacInv, Aac!GetSample
    PROVE  AacInv'
<1> DEFINE s == Aac!Scan(p.pos)
           x == Aac!Sample(s)
           n == Len(out)
<1>1. /\ p.dsis # << >> /\ status = "open" /\ ~Aac!EOD(p.pos)
      /\ s.found = "yes" \/ (s.found = "no" /\ out # << >>)
      /\ out' = Append(out, x)
      /\ p' = [p EXCEPT !.pos = s.pos + s.remain, !.hdr = s.hdr, !.dsis = Aac!Describe(s)]
      /\ es' = es /\ status' = status
  BY DEF Aac!GetSample
<1>2. /\ es \in Seq(Aac!Cells) /\ Len(es) \in Nat /\ p.pos \in Nat /\ p.pos < Len(es)
      /\ IsSeq(out) /\ IsSeq(p.dsis)
  <2>1. es \in Seq(Aac!Cells) /\ p.pos \in 0..Len(es) /\ IsSeq(out) /\ IsSeq(p.dsis)
    BY DEF AacInv
  <2>2. Len(es) \in Nat
    BY <2>1
  <2>3. ~(p.pos >= Len(es))
    BY <1>1 DEF Aac!EOD
  <2> QED BY <2>1, <2>2, <2>3
<1>3. /\ p'.pos = s.pos + s.remain /\ p'.dsis = Aac!Describe(s) /\ DOMAIN p' = AacFields
  BY <1>1 DEF AacInv, AacFields
<1>4. /\ x.head = s.head /\ x.at = s.pos /\ x.newSd = (out = << >> \/ Aac!Changed(s))
      /\ x.size = IF s.hdr.blocks = 0 THEN s.remain ELSE s.hdr.frame
  BY DEF Aac!Sample
<1>5. /\ n \in Nat /\ Len(out') = n + 1 /\ out'[n + 1] = x /\ IsSeq(out') /\ out' # << >>
      /\ \A k \in 1..n : out'[k] = out[k]
      /\ out = << >> <=> n = 0
  BY <1>1, <1>2, Appended
<1>6. \/ /\ s.found = "no" /\ s.head = Len(es) /\ s.pos = Len(es) /\ s.remain = 0 /\ out # << >>
         /\ \A i \in Aac!Headers(p.pos) : ~Aac!Confirmed(i)
      \/ \E i : /\ AacNext(p.pos, i) /\ s.head = i
                /\ s.pos = i + Aac!Cell(i).hdr /\ s.hdr = Aac!Stored(Aac!Cell(i))
                /\ s.remain = Aac!Cell(i).len /\ Aac!Cell(i).blocks = 0
  <2>1. p.pos \in 0..Len(es)
    BY <1>2
  <2> QED BY <1>1, <1>2, <2>1, AacScan
<1> HIDE DEF s, x, n
\* the header belongs to the cells
<1>7. \A i : AacNext(p.pos, i) =>
        /\ i \in Nat /\ p.pos <= i /\ i < Len(es) /\ i \in 0..(Len(es) - 1)
        /\ Aac!Cell(i).len \in Nat /\ Aac!Cell(i).hdr \in Nat \ {0}
        /\ i + Aac!Cell(i).hdr + Aac!Cell(i).len <= Len(es)
  <2> SUFFICES ASSUME NEW i, AacNext(p.pos, i)
               PROVE  /\ i \in Nat /\ p.pos <= i /\ i < Len(es) /\ i \in 0..(Len(es) - 1)
                      /\ Aac!Cell(i).len \in Nat /\ Aac!Cell(i).hdr \in Nat \ {0}
                      /\ i + Aac!Cell(i).hdr + Aac!Cell(i).len <= Len(es)
    OBVIOUS
  <2>1. i \in p.pos..(Len(es) - 1) /\ Aac!Confirmed(i)
    BY AacNextIsHead DEF AacHead
  <2>2. i \in Nat /\ p.pos <= i /\ i < Len(es) /\ i \in 0..(Len(es) - 1)
    BY <1>2, <2>1
  <2> QED BY <1>2, <2>1, <2>2, AacCells
<1>8. /\ p'.pos \in 0..Len(es) /\ x.head \in Nat /\ p.pos <= x.head /\ x.at \in Int
      /\ p'.pos < Len(es) => x.size \in Int /\ x.at + x.size <= p'.pos
  <2>1. CASE s.head = Len(es) /\ s.pos = Len(es) /\ s.remain = 0
    BY <1>2, <1>3, <1>4, <2>1
  <2>2. ASSUME NEW i, AacNext(p.pos, i), s.head = i, s.pos = i + Aac!Cell(i).hdr,
               s.hdr = Aac!Stored(Aac!Cell(i)),
               s.remain = Aac!Cell(i).len, Aac!Cell(i).blocks = 0
        PROVE  /\ p'.pos \in 0..Len(es) /\ x.head \in Nat /\ p.pos <= x.head /\ x.at \in Int
               /\ x.size \in Int /\ x.at + x.size <= p'.pos
    <3>1. s.hdr.blocks = 0
      BY <2>2 DEF Aac!Stored
    <3> DEFINE hdr == Aac!Cell(i).hdr
               len == Aac!Cell(i).len
    <3>2. /\ p'.pos = i + hdr + len /\ x.head = i /\ x.at = i + hdr /\ x.size = len
          /\ i \in Nat /\ p.pos <= i /\ hdr \in Nat /\ len \in Nat /\ i + hdr + len <= Len(es)
      BY <1>3, <1>4, <1>7, <2>2, <3>1
    <3> HIDE DEF hdr, len
    <3> QED BY <1>2, <3>2
  <2> QED BY <1>6, <2>1, <2>2
\* the descriptions
<1>9. /\ p'.dsis # << >> /\ IsSeq(p'.dsis) /\ Len(p.dsis) \in Nat /\ Len(p.dsis) > 0
      /\ \A j \in 1..Len(p.dsis) : p'.dsis[j] = p.dsis[j]
      /\ Aac!Changed(s) => /\ Len(p'.dsis) = Len(p.dsis) + 1
                           /\ p'.dsis[Len(p.dsis) + 1] = Aac!InitDsi(s.hdr.cfg)
      /\ ~Aac!Changed(s) => p'.dsis = p.dsis
  BY <1>1, <1>2, <1>3, Appended DEF Aac!Describe
<1>10. \A j \in 1..Len(p'.dsis) : \E c : p'.dsis[j] = Aac!InitDsi(c)
  <2>1. \A j \in 1..Len(p.dsis) : \E c : p.dsis[j] = Aac!InitDsi(c)
    BY DEF AacInv
  <2>2. CASE Aac!Changed(s)
    BY <1>9, <2>1, <2>2
  <2>3. CASE ~Aac!Changed(s)
    BY <1>9, <2>1, <2>3
  <2> QED BY <2>2, <2>3
<1>11. p'.dsis[Len(p'.dsis)] = Aac!InitDsi(s.hdr.cfg)
  <2>1. CASE Aac!Changed(s)
    BY <1>9, <2>1
  <2>2. CASE ~Aac!Changed(s)
    <3>1. PICK c : p.dsis[Len(p.dsis)] = Aac!InitDsi(c)
      <4>1. Len(p.dsis) \in 1..Len(p.dsis)
        BY <1>9
      <4>2. \A j \in 1..Len(p.dsis) : \E c : p.dsis[j] = Aac!InitDsi(c)
        BY DEF AacInv
      <4> QED BY <4>1, <4>2
    <3>2. /\ Aac!InitDsi(c).aot = s.hdr.cfg.profile + 1 /\ Aac!InitDsi(c).sfi = s.hdr.cfg.sfi
          /\ Aac!InitDsi(c).channels = s.hdr.cfg.channels
      BY <2>2, <3>1 DEF Aac!Changed, Aac!CurrDsi
    <3>3. Aac!InitDsi(c) = Aac!InitDsi(s.hdr.cfg)
      BY <3>2 DEF Aac!InitDsi
    <3> QED BY <1>9, <2>2, <3>1, <3>3
  <2> QED BY <2>1, <2>2
\* the first sample has the first description
<1>12. out = << >> => ~Aac!Changed(s) /\ Len(p.dsis) = 1
  <2> SUFFICES ASSUME out = << >> PROVE ~Aac!Changed(s) /\ Len(p.dsis) = 1
    OBVIOUS
  <2>1. PICK i : AacNext(0, i) /\ p.dsis = << Aac!InitDsi(Aac!Override(Aac!Cell(i).cfg)) >>
    BY <1>1 DEF AacInv
  <2>2. p.pos = 0
    BY <1>1 DEF AacInv
  <2>3. PICK j : AacNext(p.pos, j) /\ s.hdr = Aac!Stored(Aac!Cell(j))
    BY <1>6
  <2>4. i = j
    BY <2>1, <2>2, <2>3, AacNextIsOne
  <2>5. s.hdr.cfg = Aac!Override(Aac!Cell(i).cfg)
    BY <2>3, <2>4 DEF Aac!Stored
  <2>6. Len(p.dsis) = 1 /\ p.dsis[1] = Aac!InitDsi(s.hdr.cfg)
    BY <2>1, <2>5
  <2>7. Aac!CurrDsi = Aac!InitDsi(s.hdr.cfg)
    BY <2>6 DEF Aac!CurrDsi
  <2> QED BY <2>6, <2>7 DEF Aac!Changed, Aac!InitDsi
<1>13. x.newSd \in BOOLEAN
  BY <1>4
<1>14. /\ Len(p'.dsis) = OpenedBy(out', n + 1)
       /\ \A k \in 1..n : OpenedBy(out', k) = OpenedBy(out, k)
       /\ \A k \in 1..n : OpenedBy(out, k) \in 1..Len(p.dsis)
  <2>1. CASE out = << >>
    <3>1. n = 0 /\ {i \in 2..(n + 1) : out'[i].newSd} = {}
      BY <1>5, <2>1
    <3>2. OpenedBy(out', n + 1) = 1
      BY <3>1, FS_EmptySet DEF OpenedBy
    <3> QED BY <1>9, <1>12, <2>1, <3>1, <3>2
  <2>2. CASE out # << >>
    <3>1. Len(p.dsis) = OpenedBy(out, n)
      BY <2>2 DEF AacInv, n
    <3>2. /\ \A k \in 1..n : OpenedBy(out', k) = OpenedBy(out, k)
          /\ OpenedBy(out', n + 1) = OpenedBy(out, n) + (IF x.newSd THEN 1 ELSE 0)
      BY <1>1, <1>2, <1>13, <2>2, OneMoreOpens DEF n
    <3>3. Len(p'.dsis) = Len(p.dsis) + (IF x.newSd THEN 1 ELSE 0)
      <4>1. CASE Aac!Changed(s)
        BY <1>4, <1>9, <4>1
      <4>2. CASE ~Aac!Changed(s)
        <5>1. ~x.newSd
          BY <1>4, <2>2, <4>2, Zenon
        <5>2. p'.dsis = p.dsis /\ Len(p.dsis) \in Int
          BY <1>9, <4>2
        <5> QED BY <5>1, <5>2
      <4> QED BY <4>1, <4>2
    <3>4. \A k \in 1..n : OpenedBy(out, k) \in 1..Len(p.dsis)
      BY <1>5, <3>1, OpenedType
    <3> QED BY <3>1, <3>2, <3>3, <3>4
  <2> QED BY <2>1, <2>2
\* frames
<1>15. \A k \in 1..Len(out') : AacFrame(k)'
  <2> SUFFICES ASSUME NEW k \in 1..(n + 1) PROVE AacFrame(k)'
    BY <1>5
  <2>1. CASE k = n + 1
    BY <1>1, <1>5, <1>8, <2>1 DEF AacFrame
  <2>2. CASE k \in 1..n
    <3>1. AacFrame(k)
      BY <2>2 DEF AacInv, n
    <3>2. p.pos <= p'.pos
      <4>1. CASE s.pos = Len(es) /\ s.remain = 0
        BY <1>2, <1>3, <4>1
      <4>2. ASSUME NEW i, AacNext(p.pos, i), s.pos = i + Aac!Cell(i).hdr,
                   s.remain = Aac!Cell(i).len
            PROVE  p.pos <= p'.pos
        BY <1>2, <1>3, <1>7, <4>2
      <4> QED BY <1>6, <4>1, <4>2
    <3>3. out[k].size \in Int /\ out[k].at \in Int /\ out[k].at + out[k].size <= p.pos
      BY <1>1, <1>2, <3>1 DEF AacFrame
    <3>4. out'[k] = out[k] /\ out[k].at + out[k].size <= p'.pos
      BY <1>2, <1>5, <1>8, <2>2, <3>2, <3>3
    <3> QED BY <1>1, <3>3, <3>4 DEF AacFrame
  <2>3. k = n + 1 \/ k \in 1..n
    BY <1>5
  <2> QED BY <2>1, <2>2, <2>3
<1>16. Aac!FramesFollowHeaders'
  <2> SUFFICES ASSUME NEW k \in 1..(n + 1), out'[k].head < Len(es)
      PROVE  LET h == out'[k].head
             IN  /\ Aac!Cell(h).sync /\ Aac!Confirmed(h)
                 /\ out'[k].at = h + Aac!Cell(h).hdr /\ out'[k].size = Aac!Cell(h).len
                 /\ \A i \in 1..(k - 1) : out'[i].at + out'[i].size <= h
                 /\ p'.dsis[OpenedBy(out', k)] = Aac!InitDsi(Aac!Override(Aac!Cell(h).cfg))
    BY <1>1, <1>5, DescribedAlike
    DEF Aac!FramesFollowHeaders, Aac!Cell, Aac!Confirmed, Aac!NextHeader
  <2>1. CASE k = n + 1
    <3>1. x.head < Len(es) /\ out'[k] = x
      BY <1>5, <2>1
    <3>2. s.head # Len(es)
      BY <1>2, <1>4, <3>1
    <3>3. PICK i : /\ AacNext(p.pos, i) /\ s.head = i
                   /\ s.pos = i + Aac!Cell(i).hdr /\ s.hdr = Aac!Stored(Aac!Cell(i))
                   /\ s.remain = Aac!Cell(i).len /\ Aac!Cell(i).blocks = 0
      BY <1>6, <3>2
    <3>4. x.head = i /\ x.at = i + Aac!Cell(i).hdr /\ x.size = Aac!Cell(i).len
      <4>1. s.hdr.blocks = 0
        BY <3>3 DEF Aac!Stored
      <4> QED BY <1>4, <3>3, <4>1
    <3>5. Aac!Cell(i).sync /\ Aac!Confirmed(i)
      BY <3>3, AacNextIsHead DEF AacHead
    <3>6. ASSUME NEW j \in 1..(k - 1) PROVE out'[j].at + out'[j].size <= out'[k].head
      <4>1. j \in 1..n
        BY <1>5, <2>1
      <4>2. AacFrame(j) /\ out'[j] = out[j]
        BY <1>5, <4>1 DEF AacInv, n
      <4>3. out[j].size \in Int /\ out[j].at \in Int /\ out[j].at + out[j].size <= p.pos
        BY <1>1, <1>2, <4>2 DEF AacFrame
      <4> QED BY <1>2, <1>8, <3>1, <4>2, <4>3
    <3>7. p'.dsis[OpenedBy(out', k)] = Aac!InitDsi(Aac!Override(Aac!Cell(i).cfg))
      <4>1. OpenedBy(out', k) = Len(p'.dsis)
        BY <1>14, <2>1
      <4>2. s.hdr.cfg = Aac!Override(Aac!Cell(i).cfg)
        BY <3>3 DEF Aac!Stored
      <4> QED BY <1>11, <4>1, <4>2
    <3> QED BY <3>1, <3>4, <3>5, <3>6, <3>7
  <2>2. CASE k \in 1..n
    <3>1. out'[k] = out[k] /\ out # << >> /\ \A i \in 1..(k - 1) : i \in 1..n /\ out'[i] = out[i]
      BY <1>5, <2>2
    <3>2. p'.dsis[OpenedBy(out', k)] = p.dsis[OpenedBy(out, k)]
      BY <1>9, <1>14, <2>2
    <3>3. LET h == out[k].head
          IN  /\ Aac!Cell(h).sync /\ Aac!Confirmed(h)
              /\ out[k].at = h + Aac!Cell(h).hdr /\ out[k].size = Aac!Cell(h).len
              /\ \A i \in 1..(k - 1) : out[i].at + out[i].size <= h
              /\ p.dsis[OpenedBy(out, k)] = Aac!InitDsi(Aac!Override(Aac!Cell(h).cfg))
      BY <2>2, <3>1, DescribedAlike DEF AacInv, Aac!FramesFollowHeaders, n
    <3> QED BY <3>1, <3>2, <3>3
  <2>3. k = n + 1 \/ k \in 1..n
    BY <1>5
  <2> QED BY <2>1, <2>2, <2>3
\* nothing is lost
<1>17. ASSUME NEW i \in 0..(Len(es) - 1), AacHead(i), Aac!Cell(i).blocks = 0
       PROVE  i >= p'.pos \/ AacFound(i)' \/ i - 1 \in Aac!Skipping
  <2> SUFFICES ASSUME i - 1 \notin Aac!Skipping PROVE i >= p'.pos \/ AacFound(i)'
    OBVIOUS
  <2>1. CASE i < p.pos
    <3>1. AacFound(i)
      BY <1>1, <1>2, <1>17, <2>1 DEF AacInv
    <3>2. PICK k \in 1..n : out[k].head <= i /\ i < out[k].at + out[k].size
      BY <3>1 DEF AacFound, n
    <3>3. k \in 1..(n + 1) /\ out'[k] = out[k]
      BY <1>5
    <3> QED BY <1>5, <3>2, <3>3 DEF AacFound
  <2>2. CASE i >= p.pos
    <3>1. i \in Aac!Headers(p.pos) /\ Aac!Confirmed(i)
      <4>1. i \in p.pos..(Len(es) - 1)
        BY <1>2, <2>2
      <4> QED BY <1>2, <1>17, <4>1, AacComesBy DEF AacHead
    <3>2. PICK j : /\ AacNext(p.pos, j) /\ s.head = j
                   /\ s.pos = j + Aac!Cell(j).hdr /\ s.hdr = Aac!Stored(Aac!Cell(j))
                   /\ s.remain = Aac!Cell(j).len /\ Aac!Cell(j).blocks = 0
      BY <1>6, <3>1
    <3>3. j <= i
      BY <3>1, <3>2 DEF AacNext
    <3>4. x.head = j /\ x.at = s.pos /\ x.size = s.remain /\ p'.pos = s.pos + s.remain
      <4>1. s.hdr.blocks = 0
        BY <3>2 DEF Aac!Stored
      <4> QED BY <1>3, <1>4, <3>2, <4>1
    <3>5. CASE i < p'.pos
      <4>1. x.head <= i /\ i < x.at + x.size
        BY <3>3, <3>4, <3>5
      <4>2. n + 1 \in 1..Len(out') /\ out'[n + 1] = x
        BY <1>5
      <4> QED BY <4>1, <4>2 DEF AacFound
    <3> QED BY <1>2, <1>8, <3>5
  <2> QED BY <1>2, <2>1, <2>2
<1>18. es' = es /\ Aac!Skipping' = Aac!Skipping
       /\ \A i : AacHead(i)' = AacHead(i) /\ Aac!Cell(i)' = Aac!Cell(i)
  BY <1>1, AacHeadsRest
<1> QED
  BY <1>1, <1>2, <1>3, <1>5, <1>8, <1>9, <1>10, <1>14, <1>15, <1>16, <1>17, <1>18 DEF AacInv


LEMMA AacStarts ==
    ASSUME kind = "aac", Aac!Init
    PROVE  AacInv
<1>1. PICK stream \in AacStreams : Aac!Start(stream)
  BY DEF Aac!Init
<1>2. /\ es = stream /\ out = << >> /\ status = "open"
      /\ p = [pos |-> 0, hdr |-> Aac!NoHdr, dsis |-> << >>]
  BY <1>1 DEF Aac!Start
<1>3. es \in Seq(Aac!Cells)
  BY <1>2, StreamsAssumption DEF Aac!IsStream
<1>4. Len(es) \in Nat /\ Len(out) = 0 /\ IsSeq(out)
  BY <1>2, <1>3 DEF IsSeq
<1>5. /\ p.pos = 0 /\ p.dsis = << >> /\ DOMAIN p = AacFields
  BY <1>2 DEF AacFields
<1>6. IsSeq(p.dsis) /\ Len(p.dsis) = 0
  BY <1>5 DEF IsSeq
<1>7. Aac!FramesFollowHeaders
  BY <1>4 DEF Aac!FramesFollowHeaders
<1> QED BY <1>2, <1>3, <1>4, <1>5, <1>6, <1>7 DEF AacInv

LEMMA AacEndsWithin ==
    ASSUME es \in Seq(Aac!Cells), NEW pos \in 0..Len(es), NEW i, AacNext(pos, i)
    PROVE  i + Aac!Cell(i).hdr \in 0..Len(es)
<1>1. Len(es) \in Nat /\ i \in pos..(Len(es) - 1) /\ Aac!Confirmed(i)
  BY AacNextIsHead DEF AacHead
<1>2. i \in 0..(Len(es) - 1)
  BY <1>1
<1>3. /\ Aac!Cell(i).len \in Nat /\ Aac!Cell(i).hdr \in Nat \ {0}
      /\ i + Aac!Cell(i).hdr + Aac!Cell(i).len <= Len(es)
  BY <1>1, <1>2, AacCells
<1> QED BY <1>1, <1>2, <1>3

LEMMA AacLooks ==
    ASSUME kind = "aac", AacInv, Aac!InitParser
    PROVE  AacInv'
<1> DEFINE s == Aac!Scan(0)
<1>1. /\ es' = es /\ out' = out /\ p.dsis = << >> /\ status = "open"
      /\ s.found = "yes" => /\ p' = [p EXCEPT !.hdr = s.hdr, !.dsis = << Aac!InitDsi(s.hdr.cfg) >>]
                            /\ status' = status
      /\ s.found # "yes" => status' = "eoes" /\ p' = [p EXCEPT !.hdr = s.hdr, !.pos = s.pos]
  BY DEF Aac!InitParser
<1>2. /\ es \in Seq(Aac!Cells) /\ Len(es) \in Nat /\ out = << >> /\ p.pos = 0 /\ DOMAIN p = AacFields
      /\ IsSeq(out) /\ IsSeq(p.dsis) /\ Len(out) = 0
  BY <1>1 DEF AacInv
<1>3. \/ s.found = "no" /\ s.pos = Len(es)
      \/ \E i : /\ AacNext(0, i) /\ s.pos = i + Aac!Cell(i).hdr
                /\ s.hdr = Aac!Stored(Aac!Cell(i)) /\ s.found \in {"yes", "unsupported"}
  <2>1. 0 \in 0..Len(es)
    BY <1>2
  <2> QED BY <1>2, <2>1, AacScan
<1> HIDE DEF s
<1>4. Aac!FramesFollowHeaders'
  BY <1>1, <1>2 DEF Aac!FramesFollowHeaders
<1>5. s.pos \in 0..Len(es)
  <2>1. ASSUME NEW i, AacNext(0, i) PROVE i + Aac!Cell(i).hdr \in 0..Len(es)
    BY <1>2, <2>1, AacEndsWithin
  <2> QED BY <1>2, <1>3, <2>1
<1>6. CASE s.found = "yes"
  <2>1. p'.dsis = << Aac!InitDsi(s.hdr.cfg) >> /\ p'.pos = 0 /\ DOMAIN p' = AacFields /\ status' = "open"
    BY <1>1, <1>2, <1>6 DEF AacFields
  <2>2. PICK i : AacNext(0, i) /\ s.hdr = Aac!Stored(Aac!Cell(i))
    BY <1>3, <1>6
  <2>3. s.hdr.cfg = Aac!Override(Aac!Cell(i).cfg)
    BY <2>2 DEF Aac!Stored
  <2>4. /\ (\E j : AacNext(0, j) /\ p.dsis = << Aac!InitDsi(Aac!Override(Aac!Cell(j).cfg)) >>)'
    BY <1>1, <2>1, <2>2, <2>3, AacHeadsRest
  <2>5. IsSeq(p'.dsis) /\ p'.dsis # << >> /\ \A j \in 1..Len(p'.dsis) : \E c : p'.dsis[j] = Aac!InitDsi(c)
    <3> DEFINE d == Aac!InitDsi(s.hdr.cfg)
    <3>1. p'.dsis = << d >> /\ d = Aac!InitDsi(s.hdr.cfg)
      BY <2>1
    <3> HIDE DEF d
    <3>2. << d >> \in Seq({d})
      OBVIOUS
    <3>3. IsSeq(p'.dsis)
      BY <3>1, <3>2 DEF IsSeq
    <3> QED BY <3>1, <3>3
  <2>6. \A i0 \in 0..(Len(es) - 1) : i0 >= p'.pos
    BY <1>2, <2>1
  <2>7. \A i0 \in 0..(Len(es') - 1) : i0 >= p'.pos /\ status' = "open"
    BY <1>1, <2>1, <2>6
  <2> QED BY <1>1, <1>2, <1>4, <2>1, <2>4, <2>5, <2>7 DEF AacInv
<1>7. CASE s.found # "yes"
  <2>1. p'.dsis = << >> /\ p'.pos = s.pos /\ DOMAIN p' = AacFields /\ status' = "eoes"
    BY <1>1, <1>2, <1>7 DEF AacFields
  <2>2. p'.pos \in 0..Len(es')
    BY <1>1, <1>5, <2>1
  <2>3. Len(p'.dsis) = 0 /\ IsSeq(p'.dsis)
    BY <2>1 DEF IsSeq
  <2> QED BY <1>1, <1>2, <1>4, <2>1, <2>2, <2>3 DEF AacInv
<1> QED BY <1>6, <1>7

(* Steps that end the stream: what is left has no header.                   *)
LEMMA AacEnds ==
    ASSUME kind = "aac", AacInv, Aac!EndOfStream
    PROVE  AacInv'
<1>1. /\ es' = es /\ out' = out /\ p' = p /\ p.dsis # << >> /\ status = "open" /\ status' = "eoes"
      /\ Aac!EOD(p.pos) \/ Aac!Scan(p.pos).found = "no"
  BY DEF Aac!EndOfStream
<1>2. es \in Seq(Aac!Cells) /\ Len(es) \in Nat /\ p.pos \in 0..Len(es)
  <2>1. es \in Seq(Aac!Cells) /\ p.pos \in 0..Len(es)
    BY DEF AacInv
  <2> QED BY <2>1
<1>3. ASSUME NEW i \in 0..(Len(es) - 1), AacHead(i), Aac!Cell(i).blocks = 0
      PROVE  AacFound(i) \/ i - 1 \in Aac!Skipping
  <2> SUFFICES ASSUME i - 1 \notin Aac!Skipping PROVE AacFound(i)
    OBVIOUS
  <2>1. i >= p.pos \/ AacFound(i)
    BY <1>1, <1>3 DEF AacInv
  <2>2. CASE i >= p.pos
    <3>1. ~Aac!EOD(p.pos)
      BY <1>2, <2>2 DEF Aac!EOD
    <3>2. \A j \in Aac!Headers(p.pos) : ~Aac!Confirmed(j)
      BY <1>1, <1>2, <3>1, AacScan
    <3>3. i \in p.pos..(Len(es) - 1) /\ Aac!Cell(i).sync /\ Aac!Confirmed(i)
      BY <1>2, <1>3, <2>2 DEF AacHead
    <3>4. i \in Aac!Headers(p.pos)
      BY <1>2, <3>3, AacComesBy
    <3> QED BY <3>2, <3>3, <3>4
  <2> QED BY <2>1, <2>2
<1>4. Aac!FramesFollowHeaders
  BY DEF AacInv
<1>5. Aac!FramesFollowHeaders'
  BY <1>1, <1>4
  DEF Aac!FramesFollowHeaders, Aac!Cell, Aac!Confirmed, Aac!NextHeader, Aac!DescriptionOf
<1>6. \A i \in 0..(Len(es') - 1) : AacHead(i)' /\ Aac!Cell(i).blocks' = 0 =>
        AacFound(i)' \/ i - 1 \in Aac!Skipping'
  <2>1. \A i : AacFound(i)' <=> AacFound(i)
    BY <1>1 DEF AacFound
  <2> QED BY <1>1, <1>3, <2>1, AacHeadsRest
<1>7. \A k \in 1..Len(out') : AacFrame(k)'
  BY <1>1 DEF AacInv, AacFrame
<1> QED BY <1>1, <1>2, <1>5, <1>6, <1>7 DEF AacInv

LEMMA AacStops ==
    ASSUME kind = "aac", AacInv, Aac!NoSupport \/ Aac!RateChanged
    PROVE  AacInv'
<1> DEFINE s == Aac!Scan(p.pos)
<1>1. /\ es' = es /\ out' = out /\ p.dsis # << >> /\ p'.dsis = p.dsis /\ DOMAIN p' = DOMAIN p
      /\ status' \in {"no support", "config error"}
      /\ p'.pos \in {p.pos, s.pos}
  BY DEF AacInv, AacFields, Aac!NoSupport, Aac!RateChanged
<1>2. es \in Seq(Aac!Cells) /\ Len(es) \in Nat /\ p.pos \in 0..Len(es)
  <2>1. es \in Seq(Aac!Cells) /\ p.pos \in 0..Len(es)
    BY DEF AacInv
  <2> QED BY <2>1
<1>3. s.pos \in 0..Len(es)
  <2>1. ASSUME NEW i, AacNext(p.pos, i) PROVE i + Aac!Cell(i).hdr \in 0..Len(es)
    BY <1>2, <2>1, AacEndsWithin
  <2>2. s.pos = Len(es) \/ \E i : AacNext(p.pos, i) /\ s.pos = i + Aac!Cell(i).hdr
    BY <1>2, AacScan
  <2> HIDE DEF s
  <2> QED BY <1>2, <2>1, <2>2
<1> HIDE DEF s
<1>4. Aac!FramesFollowHeaders
  BY DEF AacInv
<1>5. Aac!FramesFollowHeaders'
  BY <1>1, <1>4
  DEF Aac!FramesFollowHeaders, Aac!Cell, Aac!Confirmed, Aac!NextHeader, Aac!DescriptionOf
<1>6. \A k \in 1..Len(out') : AacFrame(k)'
  BY <1>1 DEF AacInv, AacFrame
<1>7. p'.pos \in 0..Len(es')
  BY <1>1, <1>2, <1>3
<1>8. status' # "open" /\ status' # "eoes"
  BY <1>1
<1> QED BY <1>1, <1>2, <1>5, <1>6, <1>7, <1>8 DEF AacInv

LEMMA AacSteps ==
    ASSUME kind = "aac", kind' = kind, AacInv, Aac!Next
    PROVE  AacInv'
BY AacLooks, AacEnds, AacStops, AacTakes DEF Aac!Next

LEMMA AacIsRight == ASSUME AacInv PROVE Aac!TypeOK /\ Aac!FramesFollowHeaders /\ Aac!NoFrameLost
<1>1. \A i \in 0..(Len(es) - 1) : AacHead(i) <=> Aac!Cell(i).sync /\ Aac!Confirmed(i)
  BY DEF AacHead
<1>2. status = "eoes" /\ p.dsis # << >> => \A i \in 0..(Len(es) - 1) :
        AacHead(i) /\ Aac!Cell(i).blocks = 0 => AacFound(i) \/ i - 1 \in Aac!Skipping
  BY DEF AacInv
<1>3. Aac!NoFrameLost
  BY <1>1, <1>2 DEF Aac!NoFrameLost, AacFound
<1> QED BY <1>3 DEF AacInv, Aac!TypeOK
-----------------------------------------------------------------------------
(* AC-4 frames.  The parser stands right after the last frame it took.      *)
LEMMA Ac4Syncs ==
    ASSUME Ac4!IsStream(es), NEW pos \in 0..Len(es), Ac4!SyncFrom(pos) # {}
    PROVE  LET i == Ac4!Min(Ac4!SyncFrom(pos))
           IN  /\ i \in pos..(Len(es) - 1) /\ Ac4!Cell(i).sync
               /\ \A j \in Ac4!SyncFrom(pos) : i <= j
               /\ Ac4!FrameEnd(i) \in Nat /\ i < Ac4!FrameEnd(i) /\ Ac4!Cell(i).hdr \in Nat
<1> DEFINE S == Ac4!SyncFrom(pos)
           i == Ac4!Min(S)
<1>1. Len(es) \in Nat
  BY DEF Ac4!IsStream
<1>2. S \subseteq Nat
  BY <1>1 DEF Ac4!SyncFrom
<1>3. \E x \in S : \A y \in S : x <= y
  <2>1. S # {}
    OBVIOUS
  <2> HIDE DEF S
  <2> QED BY <1>2, <2>1, Least
<1>4. i \in S /\ \A j \in S : i <= j
  <2> HIDE DEF S
  <2> QED BY <1>3 DEF Ac4!Min
<1>5. i \in pos..(Len(es) - 1) /\ Ac4!Cell(i).sync
  <2> HIDE DEF i
  <2> QED BY <1>4 DEF Ac4!SyncFrom
<1> HIDE DEF i
<1>6. Ac4!FrameEnd(i) \in Nat /\ i < Ac4!FrameEnd(i) /\ Ac4!Cell(i).hdr \in Nat
  <2>1. i \in Nat /\ i + 1 \in 1..Len(es)
    BY <1>1, <1>5
  <2>2. es[i + 1].hdr \in Nat \ {0} /\ es[i + 1].len \in Nat /\ es[i + 1].crc \in BOOLEAN
    BY <1>5, <2>1 DEF Ac4!IsStream, Ac4!Cell
  <2>3. Ac4!Cell(i).hdr \in Nat \ {0} /\ Ac4!Cell(i).len \in Nat
    BY <2>2 DEF Ac4!Cell
  <2> QED BY <2>1, <2>3 DEF Ac4!FrameEnd
<1> QED BY <1>4, <1>5, <1>6 DEF i

LEMMA Ac4ComesBy ==
    ASSUME NEW pos \in Nat, NEW i \in pos..(Len(es) - 1), Ac4!Cell(i).sync
    PROVE  i \in Ac4!SyncFrom(pos) \/ i - 1 \in Ac4!Skipping
<1> SUFFICES ASSUME i - 1 \notin Ac4!Skipping PROVE i \in Ac4!SyncFrom(pos)
  OBVIOUS
<1>1. i \in Int /\ pos <= i
  OBVIOUS
<1>2. i \in pos..i /\ (i - i) % 2 = 0 /\ \A k \in i..(i - 1) : k \in Ac4!Skipping
  BY <1>1
<1>3. Ac4!Reached(Ac4!Skipping, pos, i)
  BY <1>2 DEF Ac4!Reached
<1> QED BY <1>3 DEF Ac4!SyncFrom

LEMMA Ac4FramesRest ==
    ASSUME es' = es
    PROVE  /\ \A i : Ac4!Cell(i)' = Ac4!Cell(i) /\ Ac4!FrameEnd(i)' = Ac4!FrameEnd(i)
           /\ \A pos : Ac4!Clip(pos)' = Ac4!Clip(pos)
           /\ Ac4!Skipping' = Ac4!Skipping
<1>1. \A i : Ac4!Cell(i)' = Ac4!Cell(i) /\ Ac4!FrameEnd(i)' = Ac4!FrameEnd(i)
  BY DEF Ac4!Cell, Ac4!FrameEnd
<1>2. \A pos : Ac4!Clip(pos)' = Ac4!Clip(pos)
  BY DEF Ac4!Clip
<1>3. Ac4!Skipping' = Ac4!Skipping
  BY <1>1 DEF Ac4!Skipping
<1> QED BY <1>1, <1>2, <1>3

Ac4Frame(k) ==
    LET h == out[k].head
    IN  /\ Ac4!Cell(h).sync /\ out[k].at = h + Ac4!Cell(h).hdr /\ out[k].size = Ac4!Cell(h).len
        /\ k > 1 => h >= Ac4!FrameEnd(out[k - 1].head)

Ac4Found(i) == \E k \in 1..Len(out) : out[k].head <= i /\ i < Ac4!FrameEnd(out[k].head)

Ac4Inv ==
    /\ Ac4!IsStream(es) /\ IsSeq(out) /\ "pos" \in DOMAIN p
    /\ p.pos \in -1..Len(es) /\ status \in {"open", "eoes", "es error", "configured"}
    /\ out # << >> => p.pos = Ac4!Clip(Ac4!FrameEnd(out[Len(out)].head)) /\ p.pos >= 0
    /\ \A k \in 1..Len(out) : Ac4Frame(k)
    /\ \A i \in 0..(Len(es) - 1) : Ac4!Cell(i).sync =>
         (status # "eoes" /\ i >= p.pos) \/ Ac4Found(i) \/ i - 1 \in Ac4!Skipping

LEMMA Ac4Starts ==
    ASSUME kind = "ac4", Ac4!Init
    PROVE  Ac4Inv
<1>1. PICK stream \in Ac4Streams : Ac4!Start(stream)
  BY DEF Ac4!Init
<1>2. /\ es = stream /\ out = << >> /\ status = "open" /\ p.pos = -1 /\ "pos" \in DOMAIN p
  BY <1>1 DEF Ac4!Start
<1>3. Ac4!IsStream(es)
  BY <1>2, StreamsAssumption
<1>4. Len(es) \in Nat /\ Len(out) = 0 /\ IsSeq(out)
  BY <1>2, <1>3, EmptyIsSeq DEF Ac4!IsStream
<1>5. p.pos \in -1..Len(es) /\ \A i \in 0..(Len(es) - 1) : i >= p.pos
  BY <1>2, <1>4
<1> QED BY <1>2, <1>3, <1>4, <1>5 DEF Ac4Inv

LEMMA Ac4Ends ==
    ASSUME kind = "ac4", Ac4Inv, Ac4!InitParser \/ Ac4!EndOfStream \/ Ac4!TocError \/ Ac4!GetMp4Cfg
    PROVE  Ac4Inv'
<1>1. /\ es' = es /\ out' = out /\ "pos" \in DOMAIN p'
      /\ p'.pos = p.pos \/ (p.pos = -1 /\ p'.pos = 0)
  BY DEF Ac4Inv, Ac4!InitParser, Ac4!EndOfStream, Ac4!TocError, Ac4!GetMp4Cfg
<1>2. Ac4!IsStream(es) /\ Len(es) \in Nat /\ p.pos \in -1..Len(es)
  <2>1. Ac4!IsStream(es) /\ p.pos \in -1..Len(es)
    BY DEF Ac4Inv
  <2> QED BY <2>1 DEF Ac4!IsStream
<1>3. status' \in {"open", "eoes", "es error", "configured"}
  BY DEF Ac4Inv, Ac4!InitParser, Ac4!EndOfStream, Ac4!TocError, Ac4!GetMp4Cfg
<1>4. ASSUME NEW i \in 0..(Len(es) - 1), Ac4!Cell(i).sync
      PROVE  (status' # "eoes" /\ i >= p'.pos) \/ Ac4Found(i) \/ i - 1 \in Ac4!Skipping
  <2> SUFFICES ASSUME i - 1 \notin Ac4!Skipping
               PROVE  (status' # "eoes" /\ i >= p'.pos) \/ Ac4Found(i)
    OBVIOUS
  <2>1. (status # "eoes" /\ i >= p.pos) \/ Ac4Found(i)
    BY <1>4 DEF Ac4Inv
  <2>2. i \in Nat /\ i < Len(es)
    BY <1>2
  <2>3. CASE Ac4!InitParser
    <3>1. i \in Ac4!SyncFrom(0)
      BY <1>4, Ac4ComesBy
    <3> QED BY <1>1, <2>1, <2>2, <2>3, <3>1 DEF Ac4!InitParser
  <2>4. CASE Ac4!EndOfStream
    <3>1. Ac4!SyncFrom(p.pos) = {} /\ p.pos >= 0
      BY <2>4 DEF Ac4!EndOfStream
    <3>2. ~(i >= p.pos)
      <4> SUFFICES ASSUME i >= p.pos PROVE FALSE
        OBVIOUS
      <4>1. p.pos \in Nat /\ i \in p.pos..(Len(es) - 1)
        BY <1>2, <2>2, <3>1
      <4> QED BY <1>4, <3>1, <4>1, Ac4ComesBy
    <3> QED BY <2>1, <3>2
  <2>5. CASE Ac4!TocError
    BY <2>1, <2>5 DEF Ac4!TocError
  <2>6. CASE Ac4!GetMp4Cfg
    BY <2>1, <2>6 DEF Ac4!GetMp4Cfg
  <2> QED BY <2>3, <2>4, <2>5, <2>6
<1>5. \A k \in 1..Len(out') : Ac4Frame(k)'
  <2>1. \A k : Ac4Frame(k)' <=> Ac4Frame(k)
    BY <1>1, Ac4FramesRest DEF Ac4Frame
  <2> QED BY <1>1, <2>1 DEF Ac4Inv
<1>6. out' # << >> => p'.pos = (Ac4!Clip(Ac4!FrameEnd(out[Len(out)].head)))' /\ p'.pos >= 0
  <2>1. out # << >> => p.pos = Ac4!Clip(Ac4!FrameEnd(out[Len(out)].head)) /\ p.pos >= 0
    BY DEF Ac4Inv
  <2>2. out # << >> => p'.pos = p.pos
    BY <1>1, <1>2, <2>1
  <2>3. (Ac4!Clip(Ac4!FrameEnd(out[Len(out)].head)))' = Ac4!Clip(Ac4!FrameEnd(out[Len(out)].head))
    BY <1>1 DEF Ac4!Cell, Ac4!FrameEnd, Ac4!Clip
  <2> QED BY <1>1, <2>1, <2>2, <2>3
<1>7. \A i \in 0..(Len(es') - 1) : Ac4!Cell(i)'.sync =>
        (status' # "eoes" /\ i >= p'.pos) \/ Ac4Found(i)' \/ i - 1 \in Ac4!Skipping'
  <2>1. \A i : Ac4Found(i)' <=> Ac4Found(i)
    BY <1>1, Ac4FramesRest DEF Ac4Found
  <2> QED BY <1>1, <1>4, <2>1, Ac4FramesRest
<1>8. Ac4!IsStream(es') /\ IsSeq(out') /\ p'.pos \in -1..Len(es')
  <2>1. IsSeq(out)
    BY DEF Ac4Inv
  <2>2. p'.pos \in -1..Len(es)
    BY <1>1, <1>2
  <2> QED BY <1>1, <1>2, <2>1, <2>2
<1> QED BY <1>1, <1>3, <1>5, <1>6, <1>7, <1>8 DEF Ac4Inv

LEMMA Ac4Takes ==
    ASSUME kind = "ac4", Ac4Inv, Ac4!GetSample
    PROVE  Ac4Inv'
<1> DEFINE i == Ac4!Min(Ac4!SyncFrom(p.pos))
           n == Len(out)
           ticks == IF p.num = 0 THEN Ac4!Ticks(Ac4!Cell(i).toc.rate) ELSE p.ticks
           x == Ac4!Sample(i, ticks)
<1>1. /\ es' = es /\ status' = status /\ status = "open" /\ p.pos >= 0
      /\ out' = Append(out, x) /\ Ac4!SyncFrom(p.pos) # {}
  BY DEF Ac4!GetSample
<1>2. p'.pos = Ac4!Clip(Ac4!FrameEnd(i)) /\ "pos" \in DOMAIN p'
  <2>1. PICK rest \in Rest : p' =
          LET q == Ac4!ReadToc(Ac4!Cell(i).toc, rest)
          IN  [q EXCEPT !.pos = Ac4!Clip(Ac4!FrameEnd(i)), !.ticks = ticks, !.num = @ + 1,
                        !.channels = IF p.num = 0 THEN Ac4!ChannelCount(q) ELSE @]
    BY DEF Ac4!GetSample
  <2>2. "pos" \in DOMAIN Ac4!ReadToc(Ac4!Cell(i).toc, rest)
    BY Ac4Reads DEF Ac4Inv
  <2> HIDE DEF i, ticks
  <2> QED BY <2>1, <2>2
<1>3. x.head = i /\ x.at = i + Ac4!Cell(i).hdr /\ x.size = Ac4!Cell(i).len
  BY DEF Ac4!Sample
<1>4. /\ Ac4!IsStream(es) /\ Len(es) \in Nat /\ p.pos \in 0..Len(es) /\ IsSeq(out)
  <2>1. Ac4!IsStream(es) /\ p.pos \in -1..Len(es) /\ IsSeq(out)
    BY DEF Ac4Inv
  <2>2. Len(es) \in Nat
    BY <2>1 DEF Ac4!IsStream
  <2> QED BY <1>1, <2>1, <2>2
<1>5. /\ i \in p.pos..(Len(es) - 1) /\ Ac4!Cell(i).sync
      /\ \A j \in Ac4!SyncFrom(p.pos) : i <= j
      /\ Ac4!FrameEnd(i) \in Nat /\ i < Ac4!FrameEnd(i)
  BY <1>1, <1>4, Ac4Syncs
<1> HIDE DEF i, n, x, ticks
<1>6. /\ n \in Nat /\ Len(out') = n + 1 /\ out'[n + 1] = x /\ IsSeq(out') /\ out' # << >>
      /\ \A k \in 1..n : out'[k] = out[k]
      /\ out = << >> <=> n = 0
  BY <1>1, <1>4, Appended DEF n
<1>7. p'.pos \in 0..Len(es) /\ (p'.pos = Ac4!FrameEnd(i) \/ p'.pos = Len(es))
  BY <1>2, <1>4, <1>5 DEF Ac4!Clip
<1>8. n > 0 => i >= Ac4!FrameEnd(out[n].head)
  <2> SUFFICES ASSUME n > 0 PROVE i >= Ac4!FrameEnd(out[n].head)
    OBVIOUS
  <2>1. p.pos = Ac4!Clip(Ac4!FrameEnd(out[n].head))
    <3>1. out # << >>
      BY <1>6
    <3> QED BY <3>1 DEF Ac4Inv, n
  <2>2. p.pos < Len(es)
    BY <1>4, <1>5
  <2>3. p.pos = Ac4!FrameEnd(out[n].head)
    BY <1>4, <2>1, <2>2 DEF Ac4!Clip
  <2> QED BY <1>4, <1>5, <2>3
<1>9. \A k \in 1..Len(out') : Ac4Frame(k)'
  <2> SUFFICES ASSUME NEW k \in 1..(n + 1) PROVE Ac4Frame(k)'
    BY <1>6
  <2>1. CASE k = n + 1
    <3>1. out'[k] = x /\ x.head = i
      BY <1>3, <1>6, <2>1
    <3>2. k > 1 => out'[k - 1] = out[n] /\ n > 0
      BY <1>6, <2>1
    <3>3. k > 1 => i >= Ac4!FrameEnd(out'[k - 1].head)
      BY <1>8, <3>2
    <3> QED BY <1>1, <1>3, <1>5, <3>1, <3>3, Ac4FramesRest DEF Ac4Frame
  <2>2. CASE k \in 1..n
    <3>1. Ac4Frame(k)
      BY <2>2 DEF Ac4Inv, n
    <3>2. out'[k] = out[k] /\ (k > 1 => out'[k - 1] = out[k - 1])
      BY <1>6, <2>2
    <3> QED BY <1>1, <3>1, <3>2 DEF Ac4Frame, Ac4!Cell, Ac4!FrameEnd
  <2> QED BY <1>6, <2>1, <2>2
<1>10. ASSUME NEW j \in 0..(Len(es) - 1), Ac4!Cell(j).sync, j - 1 \notin Ac4!Skipping
       PROVE  j >= p'.pos \/ \E k \in 1..(n + 1) : /\ out'[k].head <= j
                                                 /\ j < Ac4!FrameEnd(out'[k].head)
  <2>1. j \in Nat /\ j < Len(es)
    BY <1>4
  <2>2. CASE j < p.pos
    <3>1. Ac4Found(j)
      <4>1. j >= p.pos \/ Ac4Found(j)
        BY <1>10 DEF Ac4Inv
      <4>2. ~(j >= p.pos)
        BY <1>4, <2>1, <2>2
      <4> QED BY <4>1, <4>2
    <3>2. PICK k \in 1..n : out[k].head <= j /\ j < Ac4!FrameEnd(out[k].head)
      BY <3>1 DEF Ac4Found, n
    <3>3. k \in 1..(n + 1) /\ out'[k] = out[k]
      BY <1>6
    <3> QED BY <3>2, <3>3
  <2>3. CASE j >= p.pos
    <3>1. j \in Ac4!SyncFrom(p.pos)
      <4>1. p.pos \in Nat /\ j \in p.pos..(Len(es) - 1)
        BY <1>4, <2>1, <2>3
      <4> QED BY <1>10, <4>1, Ac4ComesBy
    <3>2. i <= j
      BY <1>5, <3>1
    <3>3. n + 1 \in 1..(n + 1) /\ out'[n + 1].head = i
      BY <1>3, <1>6
    <3>4. CASE j < Ac4!FrameEnd(i)
      BY <3>2, <3>3, <3>4
    <3>5. CASE ~(j < Ac4!FrameEnd(i))
      BY <1>4, <1>5, <1>7, <2>1, <3>5, <1>2 DEF Ac4!Clip
    <3> QED BY <3>4, <3>5
  <2> QED BY <1>4, <2>1, <2>2, <2>3
<1>11. \A j \in 0..(Len(es') - 1) : Ac4!Cell(j)'.sync =>
         (status' # "eoes" /\ j >= p'.pos) \/ Ac4Found(j)' \/ j - 1 \in Ac4!Skipping'
  <2>1. \A j : Ac4Found(j)' <=> \E k \in 1..(n + 1) : /\ out'[k].head <= j
                                                      /\ j < Ac4!FrameEnd(out'[k].head)
    BY <1>1, <1>6, Ac4FramesRest DEF Ac4Found
  <2> QED BY <1>1, <1>10, <2>1, Ac4FramesRest
<1>12. p'.pos = (Ac4!Clip(Ac4!FrameEnd(out[Len(out)].head)))'
  <2>1. out'[Len(out')].head = i
    BY <1>3, <1>6
  <2> QED BY <1>1, <1>2, <2>1 DEF Ac4!Clip, Ac4!FrameEnd, Ac4!Cell
<1>13. Ac4!IsStream(es') /\ p'.pos \in -1..Len(es') /\ p'.pos >= 0
  BY <1>1, <1>4, <1>7
<1> QED BY <1>1, <1>2, <1>6, <1>9, <1>11, <1>12, <1>13 DEF Ac4Inv

LEMMA Ac4Steps ==
    ASSUME kind = "ac4", Ac4Inv, Ac4!Next
    PROVE  Ac4Inv'
BY Ac4Ends, Ac4Takes DEF Ac4!Next

LEMMA Ac4IsRight == ASSUME Ac4Inv PROVE Ac4!TypeOK /\ Ac4!FramesAreSamples
<1>1. \A k \in 1..Len(out) : Ac4Frame(k)
  BY DEF Ac4Inv
<1>2. status = "eoes" => \A i \in 0..(Len(es) - 1) : Ac4!Cell(i).sync =>
        Ac4Found(i) \/ i - 1 \in Ac4!Skipping
  BY DEF Ac4Inv
<1>3. Ac4!FramesAreSamples
  BY <1>1, <1>2 DEF Ac4!FramesAreSamples, Ac4Frame, Ac4Found
<1> QED BY <1>3 DEF Ac4Inv, Ac4!TypeOK
-----------------------------------------------------------------------------
(* Dolby Digital frames.                                                    *)
LEMMA SummedAlike ==
    ASSUME NEW v, NEW i, NEW j PROVE Dd!SumOver(v, i, j) = SumOver(v, i, j)
BY DEF Dd!SumOver, SumOver

LEMMA DdCountedAlike == ASSUME NEW S PROVE Dd!Cardinality(S) = Cardinality(S)
BY DEF Dd!Cardinality, Cardinality

DdTyped ==
    /\ DOMAIN p = DdFields /\ es \in DdStreams /\ IsSeq(out)
    /\ p.lastIndep \in -1..(MaxStreams - 1) /\ p.lastDep \in -1..(MaxStreams - 1)
    /\ p.pos \in 1..(Len(es.units) + 1) /\ p.inds \in 0..MaxStreams
    /\ p.deps \in [0..(MaxStreams - 1) -> Nat]
    /\ p.taken \in Seq(Nat) /\ p.counted \in Nat /\ p.numInd \in Nat
    /\ p.calling \in BOOLEAN /\ status \in {"open", "eoes"}

(* A substream that is entered; of frames that fit, it is taken too.        *)
DdEnters(u) ==
    /\ \A f \in {"aud", "dts", "num", "calling", "numInd"} : p'[f] = p[f]
    /\ p'.pos = p.pos + 1 /\ p'.numblks = u.blks
    /\ u.t = "dep" => /\ p'.lastIndep = p.lastIndep /\ p'.lastDep = u.id /\ p'.inds = p.inds
                      /\ p'.deps = [p.deps EXCEPT ![p.lastIndep] = Dd!AtLeast(@, u.id + 1)]
    /\ u.t # "dep" => /\ p'.lastIndep = u.id /\ p'.lastDep = -1 /\ p'.deps = p.deps
                      /\ p'.inds = Dd!AtLeast(p.inds, u.id + 1)

DdHere(u) ==
    /\ p.calling /\ Dd!HeaderAt(p.pos) /\ u = Dd!Unit(p.pos)
    /\ p.pos \in 1..Len(es.units) /\ Dd!IsUnit(u) /\ ~Dd!EndsFrame(u)
    /\ DOMAIN p' = DdFields /\ es' = es /\ out' = out /\ status' = status

DdTakes(u) ==
    /\ DdHere(u) /\ Dd!Belongs(u) /\ DdEnters(u)
    /\ p'.taken = Append(p.taken, p.pos) /\ p'.counted = Dd!Counted(u)

DdSkips(u) ==
    /\ DdHere(u) /\ ~Dd!Belongs(u) /\ p'.taken = p.taken /\ p'.counted = p.counted
    /\ u.t = "ac3" => DdEnters(u)
    /\ u.t # "ac3" => /\ p'.pos = p.pos + 1
                      /\ \A f \in DdFields \ {"pos"} : p'[f] = p[f]

LEMMA DdTaken ==
    ASSUME DdTyped, Dd!TakeSubstream
    PROVE  DdTakes(Dd!Unit(p.pos))
<1> DEFINE u == Dd!Unit(p.pos)
           e == Dd!Entered(u)
<1>1. /\ p.calling /\ Dd!HeaderAt(p.pos) /\ ~Dd!EndsFrame(u) /\ Dd!Belongs(u)
      /\ p' = [e EXCEPT !.taken = Append(@, p.pos), !.pos = @ + 1, !.counted = Dd!Counted(u)]
      /\ es' = es /\ out' = out /\ status' = status
  BY DEF Dd!TakeSubstream
<1>2. p.pos \in 1..Len(es.units) /\ Dd!IsUnit(u)
  <2>1. p.pos \in Nat \ {0}
    BY DEF DdTyped
  <2> QED BY <1>1, <2>1, DdUnits DEF DdTyped
<1>3. DOMAIN e = DdFields
  BY DEF Dd!Entered, DdTyped, DdFields
<1>4. /\ \A f \in {"pos", "aud", "dts", "num", "calling", "numInd", "taken"} : e[f] = p[f]
      /\ e.numblks = u.blks
      /\ u.t = "dep" => /\ e.lastIndep = p.lastIndep /\ e.lastDep = u.id /\ e.inds = p.inds
                        /\ e.deps = [p.deps EXCEPT ![p.lastIndep] = Dd!AtLeast(@, u.id + 1)]
      /\ u.t # "dep" => /\ e.lastIndep = u.id /\ e.lastDep = -1 /\ e.deps = p.deps
                        /\ e.inds = Dd!AtLeast(p.inds, u.id + 1)
  <2> HIDE DEF u
  <2> QED BY DEF Dd!Entered, DdTyped, DdFields
<1> HIDE DEF e, u
<1>5. /\ DOMAIN p' = DdFields /\ p'.taken = Append(e.taken, p.pos) /\ p'.pos = e.pos + 1
      /\ p'.counted = Dd!Counted(u)
      /\ \A f \in DdFields \ {"taken", "pos", "counted"} : p'[f] = e[f]
  BY <1>1, <1>3 DEF DdFields
<1>6. DdHere(u)
  BY <1>1, <1>2, <1>5 DEF DdHere, u
<1>7. DdEnters(u)
  BY <1>4, <1>5 DEF DdEnters, DdFields
<1> QED BY <1>1, <1>4, <1>5, <1>6, <1>7 DEF DdTakes, u

LEMMA DdSkipped ==
    ASSUME DdTyped, Dd!Resync
    PROVE  DdSkips(Dd!Unit(p.pos))
<1> DEFINE u == Dd!Unit(p.pos)
           e == Dd!Entered(u)
<1>1. /\ p.calling /\ Dd!HeaderAt(p.pos) /\ ~Dd!EndsFrame(u) /\ ~Dd!Belongs(u)
      /\ p' = [(IF u.t = "ac3" THEN e ELSE p) EXCEPT !.pos = p.pos + 1]
      /\ es' = es /\ out' = out /\ status' = status
  BY DEF Dd!Resync
<1>2. p.pos \in 1..Len(es.units) /\ Dd!IsUnit(u) /\ DOMAIN p = DdFields
  <2>1. p.pos \in Nat \ {0}
    BY DEF DdTyped
  <2> QED BY <1>1, <2>1, DdUnits DEF DdTyped
<1>3. DOMAIN e = DdFields
  BY DEF Dd!Entered, DdTyped, DdFields
<1>4. /\ \A f \in {"aud", "dts", "num", "calling", "numInd", "taken", "counted"} : e[f] = p[f]
      /\ e.numblks = u.blks
      /\ u.t # "dep" => /\ e.lastIndep = u.id /\ e.lastDep = -1 /\ e.deps = p.deps
                        /\ e.inds = Dd!AtLeast(p.inds, u.id + 1)
  <2> HIDE DEF u
  <2> QED BY DEF Dd!Entered, DdTyped, DdFields
<1> HIDE DEF e, u
<1>5. CASE u.t = "ac3"
  <2>1. /\ DOMAIN p' = DdFields /\ p'.pos = p.pos + 1
        /\ \A f \in DdFields \ {"pos"} : p'[f] = e[f]
    BY <1>1, <1>3, <1>5 DEF DdFields
  <2>2. DdHere(u)
    BY <1>1, <1>2, <2>1 DEF DdHere, u
  <2>3. DdEnters(u)
    BY <1>4, <1>5, <2>1 DEF DdEnters, DdFields
  <2> QED BY <1>1, <1>4, <1>5, <2>1, <2>2, <2>3 DEF DdSkips, DdFields, u
<1>6. CASE u.t # "ac3"
  <2>1. /\ DOMAIN p' = DdFields /\ p'.pos = p.pos + 1
        /\ \A f \in DdFields \ {"pos"} : p'[f] = p[f]
    BY <1>1, <1>2, <1>6 DEF DdFields
  <2>2. DdHere(u)
    BY <1>1, <1>2, <2>1 DEF DdHere, u
  <2> QED BY <1>1, <1>6, <2>1, <2>2 DEF DdSkips, DdFields, u
<1> QED BY <1>5, <1>6

(* What the other steps do.                                                 *)
DdAs(fields) ==
    /\ DOMAIN p' = DdFields /\ es' = es
    /\ \A f \in DdFields \ fields : p'[f] = p[f]

LEMMA DdBegins ==
    ASSUME DdTyped, Dd!GetSample
    PROVE  /\ DdAs({"lastIndep", "taken", "aud", "calling"}) /\ out' = out /\ status' = status
           /\ p'.lastIndep = -1 /\ p'.taken = << >> /\ p'.aud = 0 /\ p'.calling = TRUE
           /\ ~p.calling /\ status = "open"
BY DEF DdTyped, Dd!GetSample, DdAs, DdFields

LEMMA DdGoesOn ==
    ASSUME DdTyped, Dd!NextFrame
    PROVE  /\ DdAs({"aud", "lastIndep"}) /\ out' = out /\ status' = status
           /\ p'.lastIndep = -1 /\ p'.aud = p.aud + p.numblks
           /\ p.calling /\ Dd!HeaderAt(p.pos) /\ Dd!EndsFrame(Dd!Unit(p.pos))
           /\ p.aud + p.numblks < FullBlocks
BY DEF DdTyped, Dd!NextFrame, DdAs, DdFields

LEMMA DdCompletes ==
    ASSUME DdTyped, Dd!CompleteSample \/ Dd!LastSample
    PROVE  /\ DdAs({"dts", "num", "aud", "numInd", "lastIndep", "calling"})
           /\ status' = status /\ out' = Append(out, Dd!Sample(p.aud + p.numblks))
           /\ p'.num = p.num + 1 /\ p'.aud = p.aud + p.numblks
           /\ p'.lastIndep = -1 /\ p'.calling = FALSE
           /\ p'.numInd = IF p.num = 0 THEN p.inds ELSE p.numInd
           /\ p.calling
           /\ \/ Dd!HeaderAt(p.pos) /\ Dd!EndsFrame(Dd!Unit(p.pos))
              \/ ~Dd!HeaderAt(p.pos) /\ Dd!LastFrameComplete
<1> DEFINE x == Dd!Sample(p.aud + p.numblks)
<1>1. /\ Dd!DeliverSample(p.aud + p.numblks) /\ p.calling
      /\ \/ Dd!HeaderAt(p.pos) /\ Dd!EndsFrame(Dd!Unit(p.pos))
         \/ ~Dd!HeaderAt(p.pos) /\ Dd!LastFrameComplete
  BY DEF Dd!CompleteSample, Dd!LastSample
<1>2. /\ out' = Append(out, x) /\ es' = es /\ status' = status
      /\ p' = [p EXCEPT !.dts = x.dts, !.num = @ + 1, !.aud = p.aud + p.numblks,
                        !.numInd = IF p.num = 0 THEN p.inds ELSE @,
                        !.lastIndep = -1, !.calling = FALSE]
  BY <1>1 DEF Dd!DeliverSample
<1> HIDE DEF x
<1> QED BY <1>1, <1>2 DEF DdTyped, DdAs, DdFields, x

LEMMA DdFinishes ==
    ASSUME DdTyped, Dd!EndOfStream
    PROVE  /\ DdAs({"calling"}) /\ out' = out /\ status' = "eoes" /\ p'.calling = FALSE
           /\ p.calling /\ ~Dd!HeaderAt(p.pos)
           /\ ~(Dd!LastFrameComplete /\ p.aud + p.numblks = FullBlocks)
BY DEF DdTyped, Dd!EndOfStream, DdAs, DdFields

LEMMA DdStaysTyped ==
    ASSUME DdTyped, Dd!Next
    PROVE  DdTyped'
<1> DEFINE u == Dd!Unit(p.pos)
<1>0. MaxStreams \in Nat \ {0} /\ Len(es.units) \in Nat
  <2>1. Dd!IsStream(es)
    BY StreamsAssumption DEF DdTyped
  <2> QED BY <2>1, StreamsAssumption DEF Dd!IsStream
<1>t. /\ p.lastIndep \in -1..(MaxStreams - 1) /\ p.lastDep \in -1..(MaxStreams - 1)
      /\ p.pos \in 1..(Len(es.units) + 1) /\ p.inds \in 0..MaxStreams
      /\ p.deps \in [0..(MaxStreams - 1) -> Nat] /\ p.counted \in Nat /\ p.numInd \in Nat
      /\ p.taken \in Seq(Nat) /\ p.calling \in BOOLEAN /\ status \in {"open", "eoes"}
      /\ es \in DdStreams /\ IsSeq(out)
  BY DEF DdTyped
<1>e. ASSUME NEW x, x = u, DdHere(x), DdEnters(x), x.t = "dep" => p.lastIndep >= 0
      PROVE  /\ p'.lastIndep \in -1..(MaxStreams - 1) /\ p'.lastDep \in -1..(MaxStreams - 1)
             /\ p'.inds \in 0..MaxStreams /\ p'.deps \in [0..(MaxStreams - 1) -> Nat]
  <2>1. x.id \in 0..(MaxStreams - 1)
    BY <1>e DEF DdHere, Dd!IsUnit
  <2>2. CASE x.t = "dep"
    <3>1. Dd!AtLeast(p.deps[p.lastIndep], x.id + 1) \in Nat
      <4>1. p.deps[p.lastIndep] \in Nat
        BY <1>0, <1>t, <1>e, <2>2
      <4> QED BY <1>0, <2>1, <4>1 DEF Dd!AtLeast
    <3>2. p'.deps \in [0..(MaxStreams - 1) -> Nat]
      BY <1>t, <1>e, <2>2, <3>1 DEF DdEnters
    <3>3. p'.lastIndep = p.lastIndep /\ p'.lastDep = x.id /\ p'.inds = p.inds
      BY <1>e, <2>2 DEF DdEnters
    <3>4. x.id \in -1..(MaxStreams - 1)
      BY <1>0, <2>1
    <3> QED BY <1>t, <3>2, <3>3, <3>4
  <2>3. CASE x.t # "dep"
    <3>1. Dd!AtLeast(p.inds, x.id + 1) \in 0..MaxStreams
      BY <1>0, <1>t, <2>1 DEF Dd!AtLeast
    <3>2. /\ p'.lastIndep = x.id /\ p'.lastDep = -1 /\ p'.inds = Dd!AtLeast(p.inds, x.id + 1)
          /\ p'.deps = p.deps
      BY <1>e, <2>3 DEF DdEnters
    <3>3. x.id \in -1..(MaxStreams - 1) /\ -1 \in -1..(MaxStreams - 1)
      BY <1>0, <2>1
    <3> QED BY <1>t, <3>1, <3>2, <3>3
  <2> QED BY <2>2, <2>3
<1>1. CASE Dd!TakeSubstream
  <2>1. DdTakes(u)
    BY <1>1, DdTaken
  <2> HIDE DEF u
  <2>2. DdHere(u) /\ Dd!Belongs(u) /\ DdEnters(u) /\ p'.taken = Append(p.taken, p.pos)
        /\ p'.counted = Dd!Counted(u)
    BY <2>1 DEF DdTakes
  <2>3. u.t = "dep" => p.lastIndep >= 0
    BY <2>2 DEF Dd!Belongs
  <2>4. /\ p'.lastIndep \in -1..(MaxStreams - 1) /\ p'.lastDep \in -1..(MaxStreams - 1)
        /\ p'.inds \in 0..MaxStreams /\ p'.deps \in [0..(MaxStreams - 1) -> Nat]
    BY <1>e, <2>2, <2>3
  <2>5. /\ DOMAIN p' = DdFields /\ es' = es /\ out' = out /\ status' = status
        /\ p'.pos = p.pos + 1 /\ p'.calling = p.calling /\ p'.numInd = p.numInd
        /\ p.pos \in 1..Len(es.units)
    BY <2>2 DEF DdHere, DdEnters
  <2>6. p'.counted \in Nat
    BY <1>t, <2>2 DEF Dd!Counted
  <2>7. p'.taken \in Seq(Nat) /\ p'.pos \in 1..(Len(es.units) + 1)
    <3>1. p.pos \in Nat /\ p.pos + 1 \in 1..(Len(es.units) + 1)
      BY <1>0, <2>5
    <3>2. Append(p.taken, p.pos) \in Seq(Nat)
      BY <1>t, <3>1
    <3> QED BY <2>2, <2>5, <3>1, <3>2
  <2> QED BY <1>t, <2>4, <2>5, <2>6, <2>7 DEF DdTyped
<1>2. CASE Dd!Resync
  <2>1. DdSkips(u)
    BY <1>2, DdSkipped
  <2> HIDE DEF u
  <2>2. DdHere(u) /\ p'.taken = p.taken /\ p'.counted = p.counted
    BY <2>1 DEF DdSkips
  <2>3. /\ p'.lastIndep \in -1..(MaxStreams - 1) /\ p'.lastDep \in -1..(MaxStreams - 1)
        /\ p'.inds \in 0..MaxStreams /\ p'.deps \in [0..(MaxStreams - 1) -> Nat]
        /\ p'.pos = p.pos + 1 /\ p'.calling = p.calling /\ p'.numInd = p.numInd
    <3>1. CASE u.t = "ac3"
      <4>1. DdEnters(u)
        BY <2>1, <3>1 DEF DdSkips
      <4> QED BY <1>e, <2>2, <3>1, <4>1 DEF DdEnters
    <3>2. CASE u.t # "ac3"
      <4>1. p'.pos = p.pos + 1 /\ \A f \in DdFields \ {"pos"} : p'[f] = p[f]
        BY <2>1, <3>2 DEF DdSkips
      <4> QED BY <1>t, <4>1 DEF DdFields
    <3> QED BY <3>1, <3>2
  <2>4. /\ DOMAIN p' = DdFields /\ es' = es /\ out' = out /\ status' = status
        /\ p.pos \in 1..Len(es.units)
    BY <2>2 DEF DdHere
  <2>5. p'.pos \in 1..(Len(es.units) + 1)
    BY <1>0, <2>3, <2>4
  <2> QED BY <1>t, <2>2, <2>3, <2>4, <2>5 DEF DdTyped
<1>3. CASE Dd!GetSample
  <2>1. /\ DdAs({"lastIndep", "taken", "aud", "calling"}) /\ out' = out /\ status' = status
        /\ p'.lastIndep = -1 /\ p'.taken = << >> /\ p'.calling = TRUE
    BY <1>3, DdBegins
  <2>2. -1 \in -1..(MaxStreams - 1) /\ << >> \in Seq(Nat)
    BY <1>0
  <2>3. p'.calling \in BOOLEAN
    BY <2>1, Zenon
  <2> QED BY <1>t, <2>1, <2>2, <2>3 DEF DdTyped, DdAs, DdFields
<1>4. CASE Dd!NextFrame
  <2>1. DdAs({"aud", "lastIndep"}) /\ out' = out /\ status' = status /\ p'.lastIndep = -1
    BY <1>4, DdGoesOn
  <2>2. -1 \in -1..(MaxStreams - 1)
    BY <1>0
  <2> QED BY <1>t, <2>1, <2>2 DEF DdTyped, DdAs, DdFields
<1>5. CASE Dd!CompleteSample \/ Dd!LastSample
  <2>1. /\ DdAs({"dts", "num", "aud", "numInd", "lastIndep", "calling"})
        /\ status' = status /\ out' = Append(out, Dd!Sample(p.aud + p.numblks))
        /\ p'.lastIndep = -1 /\ p'.calling = FALSE
        /\ p'.numInd = IF p.num = 0 THEN p.inds ELSE p.numInd
    BY <1>5, DdCompletes
  <2>2. -1 \in -1..(MaxStreams - 1) /\ p'.numInd \in Nat
    BY <1>0, <1>t, <2>1
  <2>3. p'.calling \in BOOLEAN
    BY <2>1, Zenon
  <2>4. IsSeq(out')
    BY <1>t, <2>1, Appended
  <2> QED BY <1>t, <2>1, <2>2, <2>3, <2>4 DEF DdTyped, DdAs, DdFields
<1>6. CASE Dd!EndOfStream
  <2>1. DdAs({"calling"}) /\ out' = out /\ status' = "eoes" /\ p'.calling = FALSE
    BY <1>6, DdFinishes
  <2>2. p'.calling \in BOOLEAN
    BY <2>1, Zenon
  <2> QED BY <1>t, <2>1, <2>2 DEF DdTyped, DdAs, DdFields
<1> QED BY <1>1, <1>2, <1>3, <1>4, <1>5, <1>6 DEF Dd!Next

(* Whole frames, of units of the stream s.                                  *)
OpensIn(s, i) == s.units[i].t = "ac3" \/ (s.units[i].t = "ind" /\ s.units[i].id = 0)

BlocksIn(s, u) ==
    SumOver([k \in 1..Len(u) |-> IF OpensIn(s, u[k]) THEN s.units[u[k]].blks ELSE 0], 1, Len(u))

FollowsIn(s, i, j) ==
    IF s.units[i].t = "ind" THEN s.units[i].id > 0
    ELSE s.units[i].id = 0 \/ (s.units[j].t = "dep" /\ s.units[j].id = s.units[i].id - 1)

WholeIn(s, u) ==
    /\ u \in Seq(Nat) /\ u # << >> /\ OpensIn(s, u[1])
    /\ \A i \in 2..Len(u) : /\ s.units[u[i]].t # "junk"
                            /\ OpensIn(s, u[i]) \/ FollowsIn(s, u[i], u[i - 1])

ClosedIn(s, i, j) == \A k \in (i + 1)..(j - 1) : ~OpensIn(s, k)

EndOf(u) == u[Len(u)]

UsedTo(o, c, t) ==
    IF c /\ t # << >> THEN EndOf(t) ELSE IF o = << >> THEN 0 ELSE EndOf(o[Len(o)].units)

DdSound ==
    /\ \A k \in 1..Len(out) :
         /\ WholeIn(es, out[k].units)
         /\ out[k].duration = BlocksIn(es, out[k].units) * SamplesPerBlock
         /\ k < Len(out) => ClosedIn(es, EndOf(out[k].units), out[k + 1].units[1])
    /\ status = "open" => ClosedIn(es, UsedTo(out, p.calling, p.taken), p.pos)
    /\ p.calling =>
         /\ status = "open" /\ p.aud \in Nat
         /\ BlocksIn(es, p.taken) = p.aud + (IF p.lastIndep >= 0 THEN p.numblks ELSE 0)
         /\ p.taken = << >> => p.lastIndep = -1
         /\ p.taken # << >> =>
              /\ WholeIn(es, p.taken)
              /\ out # << >> => ClosedIn(es, EndOf(out[Len(out)].units), p.taken[1])
         /\ p.lastIndep >= 0 =>
              p.lastDep = IF es.units[EndOf(p.taken)].t = "dep" THEN es.units[EndOf(p.taken)].id ELSE -1

LEMMA BlocksNext ==
    ASSUME NEW s, NEW u \in Seq(Nat), NEW k \in Nat
    PROVE  /\ BlocksIn(s, << >>) = 0
           /\ BlocksIn(s, Append(u, k)) =
                BlocksIn(s, u) + (IF OpensIn(s, k) THEN s.units[k].blks ELSE 0)
<1> DEFINE B(t) == [j \in 1..Len(t) |-> IF OpensIn(s, t[j]) THEN s.units[t[j]].blks ELSE 0]
           n == Len(u)
           w == Append(u, k)
<1>1. BlocksIn(s, << >>) = 0
  <2>1. Len(<< >>) = 0
    OBVIOUS
  <2>2. BlocksIn(s, << >>) = SumOver(B(<< >>), 1, 0)
    BY <2>1 DEF BlocksIn
  <2> HIDE DEF B
  <2> QED BY <2>2, SumEmpty
<1>2. n \in Nat /\ Len(w) = n + 1 /\ w[n + 1] = k /\ \A j \in 1..n : w[j] = u[j]
  OBVIOUS
<1>3. BlocksIn(s, u) = SumOver(B(u), 1, n) /\ BlocksIn(s, w) = SumOver(B(w), 1, n + 1)
  BY <1>2 DEF BlocksIn
<1> HIDE DEF n, w
<1>4. \A j \in 1..n : B(w)[j] = B(u)[j]
  <2> SUFFICES ASSUME NEW j \in 1..n PROVE B(w)[j] = B(u)[j]
    OBVIOUS
  <2>1. j \in 1..Len(w) /\ j \in 1..Len(u) /\ w[j] = u[j]
    BY <1>2 DEF n
  <2> QED BY <2>1
<1>5. B(w)[n + 1] = IF OpensIn(s, k) THEN s.units[k].blks ELSE 0
  <2>1. n + 1 \in 1..Len(w)
    BY <1>2
  <2> QED BY <1>2, <2>1
<1> HIDE DEF B
<1>6. SumOver(B(w), 1, n + 1) = SumOver(B(w), 1, n) + B(w)[n + 1]
  <2>1. n + 1 \in Int /\ 1 <= n + 1 /\ (n + 1) - 1 = n
    BY <1>2
  <2> QED BY <2>1, SumNext
<1>7. SumOver(B(w), 1, n) = SumOver(B(u), 1, n)
  BY <1>2, <1>4, SumSame
<1> QED BY <1>1, <1>3, <1>5, <1>6, <1>7 DEF w

LEMMA WholeNext ==
    ASSUME NEW s, NEW u, WholeIn(s, u), NEW k \in Nat,
           s.units[k].t # "junk", OpensIn(s, k) \/ FollowsIn(s, k, EndOf(u))
    PROVE  WholeIn(s, Append(u, k)) /\ Append(u, k)[1] = u[1] /\ EndOf(Append(u, k)) = k
<1> DEFINE n == Len(u)
           w == Append(u, k)
<1>1. u \in Seq(Nat) /\ u # << >>
  BY DEF WholeIn
<1>2. /\ n \in Nat /\ n > 0 /\ Len(w) = n + 1 /\ w[n + 1] = k /\ \A j \in 1..n : w[j] = u[j]
      /\ w \in Seq(Nat) /\ w # << >>
  BY <1>1
<1>3. EndOf(u) = u[n] /\ EndOf(w) = k
  BY <1>2 DEF EndOf
<1> HIDE DEF w
<1>4. w[1] = u[1] /\ OpensIn(s, w[1])
  BY <1>2 DEF WholeIn
<1>5. \A i \in 2..(n + 1) : /\ s.units[w[i]].t # "junk"
                            /\ OpensIn(s, w[i]) \/ FollowsIn(s, w[i], w[i - 1])
  <2> SUFFICES ASSUME NEW i \in 2..(n + 1)
               PROVE  /\ s.units[w[i]].t # "junk"
                      /\ OpensIn(s, w[i]) \/ FollowsIn(s, w[i], w[i - 1])
    OBVIOUS
  <2>1. CASE i = n + 1
    <3>1. w[i] = k /\ w[i - 1] = u[n]
      BY <1>2, <2>1
    <3> QED BY <1>3, <3>1
  <2>2. CASE i # n + 1
    <3>1. i \in 2..n /\ w[i] = u[i] /\ w[i - 1] = u[i - 1]
      BY <1>2, <2>2
    <3> QED BY <3>1 DEF WholeIn
  <2> QED BY <2>1, <2>2
<1> QED BY <1>2, <1>3, <1>4, <1>5 DEF WholeIn, w

(* A first unit is a whole beginning.                                       *)
LEMMA WholeFirst ==
    ASSUME NEW s, NEW k \in Nat, OpensIn(s, k)
    PROVE  /\ WholeIn(s, Append(<< >>, k)) /\ Append(<< >>, k)[1] = k
           /\ EndOf(Append(<< >>, k)) = k
<1>1. Append(<< >>, k) \in Seq(Nat) /\ Len(Append(<< >>, k)) = 1 /\ Append(<< >>, k)[1] = k
  OBVIOUS
<1>2. Append(<< >>, k) # << >>
  OBVIOUS
<1> QED BY <1>1, <1>2 DEF WholeIn, EndOf

DdIntact == \A i \in 1..Len(es.units) : es.units[i].t = "ac3" => es.units[i].ok

LEMMA DdTakesSound ==
    ASSUME DdTyped, DdIntact, DdSound, NEW b \in 1..FullBlocks, DdAt(b), Dd!TakeSubstream
    PROVE  DdSound'
<1> DEFINE u == Dd!Unit(p.pos)
<1>1. DdTakes(u)
  BY DdTaken
<1> HIDE DEF u
<1>2. /\ u = es.units[p.pos] /\ p.pos \in 1..Len(es.units) /\ p.pos \in Nat /\ Dd!IsUnit(u)
      /\ ~Dd!EndsFrame(u) /\ Dd!Belongs(u) /\ DdEnters(u) /\ p.calling
      /\ es' = es /\ out' = out /\ status' = status /\ p'.taken = Append(p.taken, p.pos)
  <2>1. DdHere(u) /\ Dd!Belongs(u) /\ DdEnters(u) /\ p'.taken = Append(p.taken, p.pos)
    BY <1>1 DEF DdTakes
  <2>2. p.pos \in 1..Len(es.units)
    BY <2>1 DEF DdHere
  <2> QED BY <2>1, <2>2 DEF DdHere, Dd!Unit
<1>3. /\ status = "open" /\ p.aud \in Nat
      /\ BlocksIn(es, p.taken) = p.aud + (IF p.lastIndep >= 0 THEN p.numblks ELSE 0)
      /\ p.taken = << >> => p.lastIndep = -1
      /\ p.taken # << >> =>
              /\ WholeIn(es, p.taken)
              /\ out # << >> => ClosedIn(es, EndOf(out[Len(out)].units), p.taken[1])
      /\ p.lastIndep >= 0 =>
              p.lastDep = IF es.units[EndOf(p.taken)].t = "dep" THEN es.units[EndOf(p.taken)].id ELSE -1
      /\ ClosedIn(es, UsedTo(out, p.calling, p.taken), p.pos)
  BY <1>2 DEF DdSound
<1>4. /\ p'.aud = p.aud /\ p'.calling = p.calling /\ p'.pos = p.pos + 1 /\ p'.numblks = u.blks
      /\ u.t = "dep" => p'.lastIndep = p.lastIndep /\ p'.lastDep = u.id
      /\ u.t # "dep" => p'.lastIndep = u.id /\ p'.lastDep = -1
  BY <1>2 DEF DdEnters
<1>5. /\ u.t \in {"ac3", "ind", "dep"} /\ u.id \in Nat /\ u.blks \in Nat /\ u.blks = b
      /\ u.t = "ac3" => u.id = 0
      /\ p.lastIndep >= 0 => p.numblks = b
      /\ p.lastIndep \in Int /\ p.lastDep \in Int
  <2>1. u.t \in {"ac3", "ind", "dep"}
    BY <1>2 DEF Dd!Belongs
  <2>2. u.id \in Nat /\ u.blks \in Nat /\ (u.t = "ac3" => u.id = 0)
    BY <1>2 DEF Dd!IsUnit
  <2>3. u.blks = b /\ (p.lastIndep >= 0 => p.numblks = b)
    BY <1>2, <2>1 DEF DdAt
  <2> QED BY <2>1, <2>2, <2>3 DEF DdTyped
<1>6. p.taken \in Seq(Nat) /\ b \in Nat
  BY StreamsAssumption DEF DdTyped
<1>7. BlocksIn(es, p'.taken) = BlocksIn(es, p.taken) + (IF OpensIn(es, p.pos) THEN u.blks ELSE 0)
  BY <1>2, <1>6, BlocksNext
<1>8. p'.taken # << >> /\ EndOf(p'.taken) = p.pos
  <2>1. Len(p'.taken) = Len(p.taken) + 1 /\ p'.taken[Len(p.taken) + 1] = p.pos /\ Len(p.taken) \in Nat
    BY <1>2, <1>6
  <2> QED BY <1>2, <1>6, <2>1 DEF EndOf
<1>9. /\ p'.lastIndep >= 0 /\ p'.lastDep = IF u.t = "dep" THEN u.id ELSE -1
      /\ BlocksIn(es, p'.taken) = p.aud + u.blks
      /\ OpensIn(es, p.pos) \/ (p.taken # << >> /\ FollowsIn(es, p.pos, EndOf(p.taken)))
      /\ p.taken = << >> => OpensIn(es, p.pos)
  <2>1. CASE p.lastIndep < 0
    <3>1. u.t = "ac3" \/ (u.t = "ind" /\ u.id = 0)
      <4>1. p.lastIndep = -1
        BY <2>1 DEF DdTyped
      <4> QED BY <1>2, <1>5, <4>1 DEF Dd!Belongs
    <3>2. OpensIn(es, p.pos)
      BY <1>2, <3>1 DEF OpensIn
    <3>3. p'.lastIndep = 0 /\ p'.lastDep = -1 /\ u.t # "dep"
      BY <1>4, <1>5, <3>1
    <3>4. ~(p.lastIndep >= 0)
      BY <1>5, <2>1
    <3> QED BY <1>3, <1>5, <1>7, <3>2, <3>3, <3>4
  <2>2. CASE p.lastIndep >= 0
    <3>1. /\ ~OpensIn(es, p.pos)
          /\ \/ u.t = "ind" /\ u.id > 0 /\ u.id = p.lastIndep + 1
             \/ u.t = "dep" /\ u.id = p.lastDep + 1
      BY <1>2, <1>5, <2>2 DEF Dd!EndsFrame, Dd!Belongs, OpensIn
    <3>2. p.taken # << >>
      BY <1>3, <2>2
    <3>3. p.lastDep = IF es.units[EndOf(p.taken)].t = "dep" THEN es.units[EndOf(p.taken)].id ELSE -1
      BY <1>3, <2>2
    <3>4. FollowsIn(es, p.pos, EndOf(p.taken))
      <4>1. CASE u.t = "ind"
        BY <1>2, <3>1, <4>1 DEF FollowsIn
      <4>2. CASE u.t = "dep"
        <5>1. u.id = p.lastDep + 1
          BY <3>1, <4>2
        <5>2. CASE es.units[EndOf(p.taken)].t = "dep"
          <6>1. p.lastDep = es.units[EndOf(p.taken)].id /\ p.lastDep = u.id - 1
            BY <1>5, <3>3, <5>1, <5>2
          <6> QED BY <1>2, <4>2, <5>2, <6>1 DEF FollowsIn
        <5>3. CASE es.units[EndOf(p.taken)].t # "dep"
          <6>1. u.id = 0
            BY <1>5, <3>3, <5>1, <5>3
          <6> QED BY <1>2, <4>2, <6>1 DEF FollowsIn
        <5> QED BY <5>2, <5>3
      <4> QED BY <3>1, <4>1, <4>2
    <3>5. BlocksIn(es, p'.taken) = p.aud + u.blks
      <4>1. BlocksIn(es, p.taken) = p.aud + b
        BY <1>3, <1>5, <2>2
      <4> QED BY <1>3, <1>5, <1>6, <1>7, <3>1, <4>1
    <3>6. p'.lastIndep >= 0 /\ p'.lastDep = IF u.t = "dep" THEN u.id ELSE -1
      BY <1>4, <1>5, <2>2
    <3> QED BY <3>2, <3>4, <3>5, <3>6
  <2> QED BY <1>5, <2>1, <2>2
<1>10. /\ WholeIn(es, p'.taken)
       /\ out # << >> => ClosedIn(es, EndOf(out[Len(out)].units), p'.taken[1])
  <2>1. CASE p.taken = << >>
    <3>1. OpensIn(es, p.pos)
      BY <1>9, <2>1
    <3>2. WholeIn(es, p'.taken) /\ p'.taken[1] = p.pos
      BY <1>2, <2>1, <3>1, WholeFirst
    <3>3. out # << >> => UsedTo(out, p.calling, p.taken) = EndOf(out[Len(out)].units)
      BY <2>1 DEF UsedTo
    <3> QED BY <1>3, <3>2, <3>3
  <2>2. CASE p.taken # << >>
    <3>1. es.units[p.pos].t # "junk" /\ (OpensIn(es, p.pos) \/ FollowsIn(es, p.pos, EndOf(p.taken)))
      BY <1>2, <1>5, <1>9
    <3>2. WholeIn(es, p'.taken) /\ p'.taken[1] = p.taken[1]
      BY <1>2, <1>3, <2>2, <3>1, WholeNext
    <3> QED BY <1>3, <2>2, <3>2
  <2> QED BY <2>1, <2>2
<1>11. ClosedIn(es, UsedTo(out, p'.calling, p'.taken), p'.pos)
  <2>1. UsedTo(out, p'.calling, p'.taken) = p.pos
    BY <1>2, <1>4, <1>8 DEF UsedTo
  <2>2. \A k \in (p.pos + 1)..(p'.pos - 1) : FALSE
    <3>1. p.pos \in Int /\ p'.pos = p.pos + 1
      BY <1>2, <1>4
    <3> QED BY ONLY <3>1
  <2>3. ClosedIn(es, p.pos, p'.pos)
    BY <2>2 DEF ClosedIn
  <2> QED BY <2>1, <2>3
<1> QED
  <2>1. /\ p'.calling /\ status' = "open" /\ p'.aud \in Nat
        /\ BlocksIn(es', p'.taken) = p'.aud + (IF p'.lastIndep >= 0 THEN p'.numblks ELSE 0)
        /\ p'.lastDep = IF es'.units[EndOf(p'.taken)].t = "dep" THEN es'.units[EndOf(p'.taken)].id ELSE -1
    BY <1>2, <1>3, <1>4, <1>8, <1>9
  <2>2. \A k \in 1..Len(out') :
         /\ WholeIn(es', out'[k].units)
         /\ out'[k].duration = BlocksIn(es', out'[k].units) * SamplesPerBlock
         /\ k < Len(out') => ClosedIn(es', EndOf(out'[k].units), out'[k + 1].units[1])
    BY <1>2 DEF DdSound
  <2> QED BY <1>2, <1>8, <1>10, <1>11, <2>1, <2>2 DEF DdSound


LEMMA DdSkipsSound ==
    ASSUME DdTyped, DdIntact, DdSound, Dd!Resync
    PROVE  DdSound'
<1> DEFINE u == Dd!Unit(p.pos)
<1>1. DdSkips(u)
  BY DdSkipped
<1> HIDE DEF u
<1>2. /\ u = es.units[p.pos] /\ p.pos \in 1..Len(es.units) /\ p.pos \in Nat /\ Dd!IsUnit(u)
      /\ ~Dd!EndsFrame(u) /\ ~Dd!Belongs(u) /\ p.calling
      /\ es' = es /\ out' = out /\ status' = status /\ DOMAIN p' = DdFields
  <2>1. DdHere(u) /\ ~Dd!Belongs(u)
    BY <1>1 DEF DdSkips
  <2>2. p.pos \in 1..Len(es.units)
    BY <2>1 DEF DdHere
  <2> QED BY <2>1, <2>2 DEF DdHere, Dd!Unit
<1>3. u.t # "ac3" /\ ~OpensIn(es, p.pos)
  <2>1. p.lastIndep \in Int /\ p.lastIndep >= -1 /\ MaxStreams \in Nat /\ MaxStreams > 0
    BY StreamsAssumption DEF DdTyped
  <2>2. u.t = "ac3" => u.ok
    BY <1>2 DEF DdIntact
  <2>3. u.t # "ac3"
    BY <1>2, <2>1, <2>2 DEF Dd!EndsFrame, Dd!Belongs
  <2>4. ~(u.t = "ind" /\ u.id = 0)
    BY <1>2, <2>1 DEF Dd!EndsFrame, Dd!Belongs
  <2> QED BY <1>2, <2>3, <2>4 DEF OpensIn
<1>4. p'.pos = p.pos + 1 /\ \A f \in DdFields \ {"pos"} : p'[f] = p[f]
  BY <1>1, <1>3 DEF DdSkips
<1>5. ClosedIn(es, UsedTo(out, p.calling, p.taken), p.pos)
  BY <1>2 DEF DdSound
<1>6. ClosedIn(es, UsedTo(out, p.calling, p.taken), p'.pos)
  <2> DEFINE e == UsedTo(out, p.calling, p.taken)
  <2> HIDE DEF e
  <2> SUFFICES ASSUME NEW k \in (e + 1)..(p'.pos - 1) PROVE ~OpensIn(es, k)
    BY DEF ClosedIn, e
  <2>1. CASE k = p.pos
    BY <1>3, <2>1
  <2>2. CASE k # p.pos
    <3>1. k \in (e + 1)..(p.pos - 1)
      BY <1>2, <1>4, <2>2
    <3> QED BY <1>5, <3>1 DEF ClosedIn, e
  <2> QED BY <2>1, <2>2
<1>7. p'.calling = p.calling /\ p'.taken = p.taken /\ p'.aud = p.aud /\ p'.lastIndep = p.lastIndep
      /\ p'.lastDep = p.lastDep /\ p'.numblks = p.numblks
  BY <1>4 DEF DdFields
<1> QED BY <1>2, <1>6, <1>7 DEF DdSound

LEMMA DdDeliversSound ==
    ASSUME DdTyped, DdSound, Dd!CompleteSample \/ Dd!LastSample
    PROVE  DdSound'
<1> DEFINE x == Dd!Sample(p.aud + p.numblks)
           n == Len(out)
<1>1. /\ DdAs({"dts", "num", "aud", "numInd", "lastIndep", "calling"})
      /\ status' = status /\ out' = Append(out, x)
      /\ p'.calling = FALSE /\ p.calling /\ p.lastIndep >= 0
  <2>1. p.lastIndep >= 0
    BY DdCompletes DEF Dd!EndsFrame, Dd!LastFrameComplete
  <2> QED BY <2>1, DdCompletes
<1>2. x.units = p.taken /\ x.duration = (p.aud + p.numblks) * SamplesPerBlock
  BY DEF Dd!Sample
<1> HIDE DEF x
<1>3. /\ n \in Nat /\ Len(out') = n + 1 /\ out'[n + 1] = x /\ out' # << >>
      /\ \A k \in 1..n : out'[k] = out[k]
      /\ out = << >> <=> n = 0
  BY <1>1, Appended DEF DdTyped
<1>4. es' = es /\ p'.taken = p.taken /\ p'.pos = p.pos
  BY <1>1 DEF DdAs, DdFields
<1>5. /\ p.taken # << >> /\ WholeIn(es, p.taken)
      /\ BlocksIn(es, p.taken) = p.aud + p.numblks
      /\ n # 0 => ClosedIn(es, EndOf(out[n].units), p.taken[1])
      /\ ClosedIn(es, UsedTo(out, p.calling, p.taken), p.pos)
  <2>1. p.taken # << >>
    <3>1. p.taken = << >> => p.lastIndep = -1
      BY <1>1 DEF DdSound
    <3> QED BY <1>1, <3>1
  <2>2. BlocksIn(es, p.taken) = p.aud + p.numblks
    BY <1>1 DEF DdSound
  <2>3. status = "open"
    BY <1>1 DEF DdSound
  <2> QED BY <1>1, <1>3, <2>1, <2>2, <2>3 DEF DdSound
<1> HIDE DEF n
<1>6. ASSUME NEW k \in 1..(n + 1)
      PROVE  /\ WholeIn(es, out'[k].units)
             /\ out'[k].duration = BlocksIn(es, out'[k].units) * SamplesPerBlock
             /\ k < n + 1 => ClosedIn(es, EndOf(out'[k].units), out'[k + 1].units[1])
  <2>1. CASE k = n + 1
    BY <1>2, <1>3, <1>5, <2>1
  <2>2. CASE k # n + 1
    <3>1. k \in 1..n /\ out'[k] = out[k]
      BY <1>3, <2>2
    <3>2. /\ WholeIn(es, out[k].units)
          /\ out[k].duration = BlocksIn(es, out[k].units) * SamplesPerBlock
          /\ k < n => ClosedIn(es, EndOf(out[k].units), out[k + 1].units[1])
      BY <3>1 DEF DdSound, n
    <3>3. CASE k < n
      <4>1. k + 1 \in 1..n /\ out'[k + 1] = out[k + 1]
        BY <1>3, <3>1, <3>3
      <4> QED BY <3>1, <3>2, <3>3, <4>1
    <3>4. CASE k = n
      <4>1. n # 0 /\ out'[k + 1] = x
        BY <1>3, <3>1, <3>4
      <4> QED BY <1>2, <1>5, <3>1, <3>2, <3>4, <4>1
    <3> QED BY <1>3, <3>1, <3>3, <3>4
  <2> QED BY <2>1, <2>2
<1>7. UsedTo(out', p'.calling, p'.taken) = UsedTo(out, p.calling, p.taken)
  <2>1. UsedTo(out, p.calling, p.taken) = EndOf(p.taken)
    BY <1>1, <1>5 DEF UsedTo
  <2>2. UsedTo(out', p'.calling, p'.taken) = EndOf(out'[Len(out')].units)
    BY <1>1, <1>3 DEF UsedTo
  <2> QED BY <1>2, <1>3, <2>1, <2>2
<1> QED BY <1>1, <1>3, <1>4, <1>5, <1>6, <1>7 DEF DdSound

LEMMA DdStaysSound ==
    ASSUME DdTyped, DdIntact, DdSound, NEW b \in 1..FullBlocks, DdAt(b), Dd!Next
    PROVE  DdSound'
<1>0. b \in Nat /\ p.lastIndep \in Int
  BY StreamsAssumption DEF DdTyped
<1>1. CASE Dd!GetSample
  <2>1. /\ DdAs({"lastIndep", "taken", "aud", "calling"}) /\ out' = out /\ status' = status
        /\ p'.lastIndep = -1 /\ p'.taken = << >> /\ p'.aud = 0 /\ p'.calling = TRUE
        /\ ~p.calling /\ status = "open"
    BY <1>1, DdBegins
  <2>2. es' = es /\ p'.pos = p.pos
    BY <2>1 DEF DdAs, DdFields
  <2>3. BlocksIn(es, << >>) = 0
    <3>1. << >> \in Seq(Nat) /\ 0 \in Nat
      OBVIOUS
    <3> QED BY <3>1, BlocksNext
  <2>4. ClosedIn(es, UsedTo(out, p'.calling, p'.taken), p'.pos)
    <3>1. UsedTo(out, p'.calling, p'.taken) = UsedTo(out, p.calling, p.taken)
      BY <2>1 DEF UsedTo
    <3> QED BY <2>1, <2>2, <3>1 DEF DdSound
  <2>5. BlocksIn(es', p'.taken) = p'.aud + (IF p'.lastIndep >= 0 THEN p'.numblks ELSE 0)
    BY <2>1, <2>2, <2>3
  <2>6. \A k \in 1..Len(out') :
         /\ WholeIn(es', out'[k].units)
         /\ out'[k].duration = BlocksIn(es', out'[k].units) * SamplesPerBlock
         /\ k < Len(out') => ClosedIn(es', EndOf(out'[k].units), out'[k + 1].units[1])
    BY <2>1, <2>2 DEF DdSound
  <2>7. ~(p'.lastIndep >= 0) /\ p'.aud \in Nat
    BY <2>1
  <2> QED BY <2>1, <2>2, <2>4, <2>5, <2>6, <2>7 DEF DdSound
<1>2. CASE Dd!TakeSubstream
  BY <1>2, DdTakesSound
<1>3. CASE Dd!Resync
  BY <1>3, DdSkipsSound
<1>4. CASE Dd!NextFrame
  <2>1. /\ DdAs({"aud", "lastIndep"}) /\ out' = out /\ status' = status
        /\ p'.lastIndep = -1 /\ p'.aud = p.aud + p.numblks
        /\ p.calling /\ p.lastIndep >= 0
    BY <1>4, DdGoesOn DEF Dd!EndsFrame
  <2>2. es' = es /\ p'.pos = p.pos /\ p'.calling = p.calling /\ p'.taken = p.taken
    BY <2>1 DEF DdAs, DdFields
  <2>3. p.numblks = b /\ p.aud \in Nat
    BY <2>1 DEF DdAt, DdSound
  <2>4. BlocksIn(es', p'.taken) = p'.aud + (IF p'.lastIndep >= 0 THEN p'.numblks ELSE 0)
    <3>1. BlocksIn(es, p.taken) = p.aud + p.numblks
      BY <2>1 DEF DdSound
    <3>2. p'.aud \in Nat /\ p'.aud = p.aud + p.numblks /\ ~(p'.lastIndep >= 0)
      BY <1>0, <2>1, <2>3
    <3> QED BY <2>2, <3>1, <3>2
  <2>5. p'.aud \in Nat /\ ~(p'.lastIndep >= 0)
    BY <1>0, <2>1, <2>3
  <2>6. ClosedIn(es', UsedTo(out', p'.calling, p'.taken), p'.pos) /\ status' = "open"
    BY <2>1, <2>2 DEF DdSound
  <2> QED BY <2>1, <2>2, <2>4, <2>5, <2>6 DEF DdSound
<1>5. CASE Dd!CompleteSample \/ Dd!LastSample
  BY <1>5, DdDeliversSound
<1>6. CASE Dd!EndOfStream
  <2>1. DdAs({"calling"}) /\ out' = out /\ status' = "eoes" /\ p'.calling = FALSE
    BY <1>6, DdFinishes
  <2>2. es' = es
    BY <2>1 DEF DdAs
  <2> QED BY <2>1, <2>2 DEF DdSound
<1> QED BY <1>1, <1>2, <1>3, <1>4, <1>5, <1>6 DEF Dd!Next

LEMMA DdStarts ==
    ASSUME Dd!Init
    PROVE  DdTyped /\ DdSound
<1>1. PICK s \in DdStreams : Dd!Start(s)
  BY DEF Dd!Init
<1>2. /\ es \in DdStreams /\ out = << >> /\ status = "open" /\ DOMAIN p = DdFields
      /\ p.pos = 1 /\ p.lastIndep = -1 /\ p.lastDep = -1 /\ p.inds = 0 /\ p.aud = 0
      /\ p.deps = [i \in 0..(MaxStreams - 1) |-> 0] /\ p.counted = 0 /\ p.numInd = 0
      /\ p.taken = << >> /\ p.calling = FALSE
  BY <1>1 DEF Dd!Start, DdFields
<1>3. IsSeq(out) /\ Len(out) = 0 /\ Len(es.units) \in Nat /\ MaxStreams \in Nat \ {0}
  <2>1. Dd!IsStream(es)
    BY <1>2, StreamsAssumption
  <2> QED BY <1>2, <2>1, EmptyIsSeq, StreamsAssumption DEF Dd!IsStream
<1>4. DdTyped
  <2>1. p.calling \in BOOLEAN
    BY <1>2, Zenon
  <2>2. p.deps \in [0..(MaxStreams - 1) -> Nat]
    BY <1>2
  <2>3. << >> \in Seq(Nat) /\ -1 \in -1..(MaxStreams - 1) /\ 1 \in 1..(Len(es.units) + 1)
        /\ 0 \in 0..MaxStreams
    BY <1>3
  <2> QED BY <1>2, <1>3, <2>1, <2>2, <2>3 DEF DdTyped
<1>5. DdSound
  <2>1. UsedTo(out, p.calling, p.taken) = 0
    BY <1>2 DEF UsedTo
  <2>2. ClosedIn(es, 0, 1)
    BY DEF ClosedIn
  <2> QED BY <1>2, <1>3, <2>1, <2>2 DEF DdSound
<1> QED BY <1>4, <1>5

LEMMA DdIsWhole ==
    ASSUME DdTyped, DdIntact => DdSound
    PROVE  Dd!TypeOK /\ Dd!SamplesAreWholeFrames
<1>1. Dd!TypeOK
  BY DEF DdTyped, Dd!TypeOK
<1>2. \A i : Dd!Opens(i) = OpensIn(es, i)
  BY DEF Dd!Opens, OpensIn, Dd!Unit
<1>3. \A u : Dd!BlocksOf(u) = BlocksIn(es, u)
  <2> TAKE u
  <2> DEFINE v == [k \in 1..Len(u) |-> IF OpensIn(es, u[k]) THEN es.units[u[k]].blks ELSE 0]
  <2>1. Dd!BlocksOf(u) = Dd!SumOver(v, 1, Len(u))
    BY <1>2 DEF Dd!BlocksOf, Dd!Unit
  <2>2. BlocksIn(es, u) = SumOver(v, 1, Len(u))
    BY DEF BlocksIn
  <2> HIDE DEF v
  <2> QED BY <2>1, <2>2, SummedAlike
<1>4. Dd!Intact <=> DdIntact
  BY DEF Dd!Intact, DdIntact, Dd!Unit
<1>5. ASSUME DdIntact, NEW k \in 1..Len(out)
      PROVE  LET u == out[k].units
             IN  /\ u # << >> /\ Dd!Opens(u[1])
                 /\ \A i \in 2..Len(u) :
                      /\ Dd!Unit(u[i]).t # "junk"
                      /\ Dd!Opens(u[i]) \/ Dd!Follows(Dd!Unit(u[i]), Dd!Unit(u[i - 1]))
                 /\ out[k].duration = Dd!BlocksOf(u) * SamplesPerBlock
                 /\ k < Len(out) =>
                      \A i \in (u[Len(u)] + 1)..(out[k + 1].units[1] - 1) : ~Dd!Opens(i)
  <2> DEFINE u == out[k].units
  <2>1. /\ WholeIn(es, u) /\ out[k].duration = BlocksIn(es, u) * SamplesPerBlock
        /\ k < Len(out) => ClosedIn(es, EndOf(u), out[k + 1].units[1])
    BY <1>5 DEF DdSound
  <2> HIDE DEF u
  <2>2. \A i \in 2..Len(u) :
                      /\ Dd!Unit(u[i]).t # "junk"
                      /\ Dd!Opens(u[i]) \/ Dd!Follows(Dd!Unit(u[i]), Dd!Unit(u[i - 1]))
    BY <1>2, <2>1 DEF WholeIn, FollowsIn, Dd!Follows, Dd!Unit
  <2>3. k < Len(out) => \A i \in (u[Len(u)] + 1)..(out[k + 1].units[1] - 1) : ~Dd!Opens(i)
    BY <1>2, <2>1 DEF ClosedIn, EndOf
  <2> QED BY <1>2, <1>3, <2>1, <2>2, <2>3 DEF WholeIn, u
<1>6. Dd!SamplesAreWholeFrames
  <2> SUFFICES ASSUME DdIntact, NEW k \in 1..Len(out)
               PROVE  LET u == out[k].units
                      IN  /\ u # << >> /\ Dd!Opens(u[1])
                          /\ \A i \in 2..Len(u) :
                               /\ Dd!Unit(u[i]).t # "junk"
                               /\ Dd!Opens(u[i]) \/ Dd!Follows(Dd!Unit(u[i]), Dd!Unit(u[i - 1]))
                          /\ out[k].duration = Dd!BlocksOf(u) * SamplesPerBlock
                          /\ k < Len(out) =>
                               \A i \in (u[Len(u)] + 1)..(out[k + 1].units[1] - 1) : ~Dd!Opens(i)
    BY <1>4 DEF Dd!SamplesAreWholeFrames
  <2> QED BY <1>5
<1> QED BY <1>1, <1>6

(* Regular streams: n frames of w units, each like the first.               *)
IndsIn(s, m) == Cardinality({j \in 1..m : s.units[j].t # "dep"})

Depth(s, x) == IF s.units[x].t = "dep" THEN s.units[x].id + 1 ELSE 0

WidthIn(s) == Len(s.units) \div Cardinality({i \in 1..Len(s.units) : OpensIn(s, i)})

RegularIn(s, w) ==
    /\ w \in Nat \ {0} /\ Len(s.units) \in Nat \ {0}
    /\ \E n \in Nat : n * w = Len(s.units)
    /\ s.cut = "none" /\ OpensIn(s, 1)
    /\ \A i \in 1..Len(s.units) : s.units[i].t \in {"ac3", "ind", "dep"} /\ s.units[i].id \in 0..(MaxStreams - 1)
    /\ \A i \in 1..Len(s.units) : s.units[i].t = "ac3" => s.units[i].id = 0 /\ s.units[i].ok
    /\ \A i \in 1..(Len(s.units) - w) : s.units[i] = s.units[i + w]
    /\ \A i \in 2..w :
         \/ s.units[i].t = "dep" /\ s.units[i - 1].t = "dep" /\ s.units[i].id = s.units[i - 1].id + 1
         \/ s.units[i].t = "dep" /\ s.units[i - 1].t # "dep" /\ s.units[i].id = 0
         \/ s.units[i].t = "ind" /\ s.units[i].id = IndsIn(s, i - 1)

LEMMA RegularMeans ==
    ASSUME es \in DdStreams, Dd!Regular
    PROVE  RegularIn(es, WidthIn(es)) /\ DdIntact
<1> DEFINE L == Len(es.units)
           O == {i \in 1..L : OpensIn(es, i)}
           n == Cardinality(O)
           w == L \div n
<1>1. \A i : Dd!Opens(i) = OpensIn(es, i)
  BY DEF Dd!Opens, OpensIn, Dd!Unit
<1>2. {i \in 1..L : Dd!Opens(i)} = O
  BY <1>1
<1>3. Dd!Cardinality({i \in 1..Len(es.units) : Dd!Opens(i)}) = n
  BY <1>2, DdCountedAlike
<1>4. /\ Dd!Intact /\ \A i \in 1..L : es.units[i].t # "junk"
      /\ L > 0 /\ OpensIn(es, 1) /\ es.cut = "none"
      /\ w * n = L
      /\ \A i \in 1..(L - w) : es.units[i] = es.units[i + w]
      /\ \A i \in 2..w :
            \/ es.units[i].t = "dep" /\ es.units[i - 1].t = "dep" /\ es.units[i].id = es.units[i - 1].id + 1
            \/ es.units[i].t = "dep" /\ es.units[i - 1].t # "dep" /\ es.units[i].id = 0
            \/ /\ es.units[i].t = "ind"
               /\ es.units[i].id = Dd!Cardinality({j \in 1..(i - 1) : es.units[j].t # "dep"})
  <2> HIDE DEF n, w
  <2>1. /\ Dd!Intact /\ \A i \in 1..L : Dd!Unit(i).t # "junk"
        /\ L > 0 /\ Dd!Opens(1) /\ es.cut = "none"
        /\ w * n = L
        /\ \A i \in 1..(L - w) : Dd!Unit(i) = Dd!Unit(i + w)
        /\ \A i \in 2..w :
              \/ Dd!Unit(i).t = "dep" /\ Dd!Unit(i - 1).t = "dep" /\ Dd!Unit(i).id = Dd!Unit(i - 1).id + 1
              \/ Dd!Unit(i).t = "dep" /\ Dd!Unit(i - 1).t # "dep" /\ Dd!Unit(i).id = 0
              \/ /\ Dd!Unit(i).t = "ind"
                 /\ Dd!Unit(i).id = Dd!Cardinality({j \in 1..(i - 1) : Dd!Unit(j).t # "dep"})
    BY <1>3 DEF Dd!Regular, w
  <2> QED BY <1>1, <2>1 DEF Dd!Unit
<1>5. Dd!IsStream(es)
  BY StreamsAssumption
<1>6. L \in Nat /\ \A i \in 1..L : Dd!IsUnit(es.units[i])
  BY <1>5 DEF Dd!IsStream
<1>7. n \in Nat
  <2>1. IsFiniteSet(1..L) /\ O \subseteq 1..L
    BY <1>6, FS_Interval
  <2>2. IsFiniteSet(O)
    BY <2>1, FS_Subset
  <2> QED BY <2>2, FS_CardinalityType
<1>8. L > 0 /\ n > 0
  <2>1. 1 \in O
    BY <1>4, <1>6
  <2>2. O # {} /\ IsFiniteSet(O)
    <3>1. IsFiniteSet(1..L) /\ O \subseteq 1..L
      BY <1>6, FS_Interval
    <3> QED BY <2>1, <3>1, FS_Subset
  <2> HIDE DEF O
  <2>3. Cardinality(O) # 0
    BY <2>2, FS_EmptySet
  <2> QED BY <1>4, <1>7, <2>3
<1> HIDE DEF O, n
<1>9. w \in Nat
  BY <1>6, <1>7, <1>8
<1> HIDE DEF w
<1>10. w # 0 /\ n * w = L
  <2>1. n * w = L
    BY <1>4, <1>7, <1>9
  <2>2. w = 0 => n * w = 0
    BY <1>7
  <2> QED BY <1>8, <2>1, <2>2
<1>11. w = WidthIn(es)
  BY DEF w, n, O, L, WidthIn
<1>12. \A i \in 1..L : /\ es.units[i].t \in {"ac3", "ind", "dep"} /\ es.units[i].id \in 0..(MaxStreams - 1)
                       /\ es.units[i].t = "ac3" => es.units[i].id = 0
  BY <1>4, <1>6 DEF Dd!IsUnit
<1>13. DdIntact
  BY <1>4 DEF Dd!Intact, DdIntact, Dd!Unit
<1>14. \A i \in 2..w : Dd!Cardinality({j \in 1..(i - 1) : es.units[j].t # "dep"}) = IndsIn(es, i - 1)
  BY DdCountedAlike DEF IndsIn
<1>15. RegularIn(es, w)
  <2> HIDE DEF L
  <2>1. w \in Nat \ {0} /\ L \in Nat \ {0} /\ \E k \in Nat : k * w = L
    BY <1>6, <1>7, <1>8, <1>9, <1>10
  <2>2. \A i \in 1..L : es.units[i].t = "ac3" => es.units[i].id = 0 /\ es.units[i].ok
    BY <1>12, <1>13 DEF DdIntact, L
  <2>3. \A i \in 2..w :
         \/ es.units[i].t = "dep" /\ es.units[i - 1].t = "dep" /\ es.units[i].id = es.units[i - 1].id + 1
         \/ es.units[i].t = "dep" /\ es.units[i - 1].t # "dep" /\ es.units[i].id = 0
         \/ es.units[i].t = "ind" /\ es.units[i].id = IndsIn(es, i - 1)
    BY <1>4, <1>14
  <2> QED BY <1>4, <1>12, <2>1, <2>2, <2>3 DEF RegularIn, L
<1> QED BY <1>11, <1>13, <1>15

(* Frames begin every w units.                                              *)
FrameAt(s, w, c) ==
    /\ \E k \in Nat : c = k * w
    /\ c + w <= Len(s.units) /\ \A x \in 1..w : s.units[c + x] = s.units[x]

LEMMA FirstFrame ==
    ASSUME NEW s, NEW w, RegularIn(s, w)
    PROVE  FrameAt(s, w, 0)
<1>1. w \in Nat \ {0} /\ Len(s.units) \in Nat \ {0}
  BY DEF RegularIn
<1>2. PICK n \in Nat : n * w = Len(s.units)
  BY DEF RegularIn
<1>3. n > 0 /\ 0 * w = 0 /\ 0 \in Nat
  BY <1>1, <1>2
<1>4. n * w >= 0 * w + w
  BY <1>1, <1>3, MultiplesAreApart
<1>5. \A x \in 1..w : 0 + x = x
  OBVIOUS
<1> QED BY <1>1, <1>2, <1>3, <1>4, <1>5 DEF FrameAt

LEMMA FrameAfter ==
    ASSUME NEW s, NEW w, RegularIn(s, w), NEW c, FrameAt(s, w, c), c + w < Len(s.units)
    PROVE  FrameAt(s, w, c + w)
<1>1. w \in Nat \ {0} /\ Len(s.units) \in Nat \ {0}
  BY DEF RegularIn
<1>2. PICK n \in Nat : n * w = Len(s.units)
  BY DEF RegularIn
<1>3. PICK k \in Nat : c = k * w
  BY DEF FrameAt
<1>4. c \in Nat /\ k + 1 \in Nat /\ c + w = (k + 1) * w
  BY <1>1, <1>3
<1>5. n > k + 1
  <2> SUFFICES ASSUME ~(n > k + 1) PROVE FALSE
    OBVIOUS
  <2>1. CASE n = k + 1
    BY <1>2, <1>4, <2>1, <1>1
  <2>2. CASE n < k + 1
    <3>1. (k + 1) * w >= n * w + w
      BY <1>1, <1>4, <2>2, MultiplesAreApart
    <3>2. c + w >= Len(s.units) + w
      BY <1>2, <1>4, <3>1
    <3> QED BY <1>1, <1>4, <3>2
  <2> QED BY <1>4, <2>1, <2>2
<1>6. Len(s.units) >= c + w + w
  <2>1. n * w >= (k + 1) * w + w
    BY <1>1, <1>4, <1>5, MultiplesAreApart
  <2> QED BY <1>2, <1>4, <2>1
<1>7. \A x \in 1..w : s.units[c + w + x] = s.units[x]
  <2> SUFFICES ASSUME NEW x \in 1..w PROVE s.units[c + w + x] = s.units[x]
    OBVIOUS
  <2>1. c + x \in 1..(Len(s.units) - w) /\ c + w + x = (c + x) + w
    BY <1>1, <1>4, <1>6
  <2>2. s.units[c + x] = s.units[(c + x) + w]
    BY <2>1 DEF RegularIn
  <2>3. s.units[c + x] = s.units[x]
    BY DEF FrameAt
  <2> QED BY <2>1, <2>2, <2>3
<1>8. c + w + w <= Len(s.units) /\ \E j \in Nat : c + w = j * w
  BY <1>1, <1>4, <1>6
<1> QED BY <1>7, <1>8 DEF FrameAt

LEMMA IndsNext ==
    ASSUME NEW s, NEW m \in Nat
    PROVE  /\ IndsIn(s, m) \in Nat /\ IndsIn(s, 0) = 0
           /\ IndsIn(s, m + 1) = IndsIn(s, m) + (IF s.units[m + 1].t = "dep" THEN 0 ELSE 1)
           /\ IndsIn(s, m) <= m
<1> DEFINE I(k) == {j \in 1..k : s.units[j].t # "dep"}
<1>1. I(m) \subseteq 1..m /\ IsFiniteSet(1..m) /\ Cardinality(1..m) = m
  <2>1. 1 \in Int /\ m \in Int
    OBVIOUS
  <2>2. IsFiniteSet(1..m) /\ Cardinality(1..m) = IF 1 > m THEN 0 ELSE m - 1 + 1
    BY <2>1, FS_Interval
  <2>3. Cardinality(1..m) = m
    BY <2>2
  <2> QED BY <2>2, <2>3
<1>2. IsFiniteSet(I(m)) /\ Cardinality(I(m)) \in Nat /\ Cardinality(I(m)) <= m
  <2> HIDE DEF I
  <2> QED BY <1>1, FS_Subset, FS_CardinalityType
<1>3. m + 1 \notin I(m)
  OBVIOUS
<1>4. /\ s.units[m + 1].t = "dep" => I(m + 1) = I(m)
      /\ s.units[m + 1].t # "dep" => I(m + 1) = I(m) \cup {m + 1}
  <2>1. \A j : j \in 1..(m + 1) <=> j \in 1..m \/ j = m + 1
    OBVIOUS
  <2>2. \A j : j \in I(m + 1) <=> j \in I(m) \/ (j = m + 1 /\ s.units[m + 1].t # "dep")
    BY <2>1
  <2> HIDE DEF I
  <2> QED BY <2>2
<1>5. I(0) = {}
  OBVIOUS
<1>6. \A k : IndsIn(s, k) = Cardinality(I(k))
  BY DEF IndsIn
<1> HIDE DEF I
<1>7. Cardinality(I(m) \cup {m + 1}) = Cardinality(I(m)) + 1
  BY <1>2, <1>3, FS_AddElement
<1>8. Cardinality(I(0)) = 0
  BY <1>5, FS_EmptySet
<1>9. IndsIn(s, m + 1) = IndsIn(s, m) + (IF s.units[m + 1].t = "dep" THEN 0 ELSE 1)
  <2>1. CASE s.units[m + 1].t = "dep"
    BY <1>2, <1>4, <1>6, <2>1
  <2>2. CASE s.units[m + 1].t # "dep"
    BY <1>2, <1>4, <1>6, <1>7, <2>2
  <2> QED BY <2>1, <2>2
<1> QED BY <1>2, <1>6, <1>8, <1>9

LEMMA IndsGrow ==
    ASSUME NEW s, NEW m \in Nat, NEW n \in Nat, m <= n
    PROVE  IndsIn(s, m) <= IndsIn(s, n)
<1> DEFINE I(k) == {j \in 1..k : s.units[j].t # "dep"}
<1>1. I(m) \subseteq I(n) /\ I(n) \subseteq 1..n /\ IsFiniteSet(1..n)
  BY FS_Interval
<1> HIDE DEF I
<1>2. IsFiniteSet(I(n))
  BY <1>1, FS_Subset
<1>3. Cardinality(I(m)) <= Cardinality(I(n))
  BY <1>1, <1>2, FS_Subset
<1> QED BY <1>3 DEF IndsIn, I

(* A unit of the first frame: its place says which substream it is.         *)
LEMMA InFrame ==
    ASSUME NEW s, NEW w, RegularIn(s, w), NEW m \in 1..w
    PROVE  /\ s.units[m].t \in {"ac3", "ind", "dep"} /\ s.units[m].id \in 0..(MaxStreams - 1)
           /\ IndsIn(s, m) \in Nat /\ IndsIn(s, m - 1) \in Nat /\ IndsIn(s, m) >= 1
           /\ Depth(s, m) \in Nat
           /\ m = 1 => /\ OpensIn(s, 1) /\ IndsIn(s, 0) = 0
           /\ m > 1 => ~OpensIn(s, m)
           /\ s.units[m].t = "dep" => /\ m > 1 /\ s.units[m].id = Depth(s, m - 1)
                                      /\ IndsIn(s, m) = IndsIn(s, m - 1)
           /\ s.units[m].t # "dep" => /\ s.units[m].id = IndsIn(s, m - 1)
                                      /\ IndsIn(s, m) = IndsIn(s, m - 1) + 1
                                      /\ m > 1 => s.units[m].t = "ind"
<1>1. w \in Nat \ {0} /\ Len(s.units) \in Nat \ {0} /\ m \in Nat /\ m - 1 \in Nat
      /\ 1 \in Nat /\ MaxStreams \in Nat \ {0}
  BY StreamsAssumption DEF RegularIn
<1>2. w <= Len(s.units)
  <2>1. 0 + w <= Len(s.units)
    BY FirstFrame DEF FrameAt
  <2> QED BY <1>1, <2>1
<1>3. m \in 1..Len(s.units) /\ 1 \in 1..Len(s.units)
  BY <1>1, <1>2
<1>4. s.units[m].t \in {"ac3", "ind", "dep"} /\ s.units[m].id \in 0..(MaxStreams - 1)
  BY <1>3 DEF RegularIn
<1>5. /\ IndsIn(s, m) \in Nat /\ IndsIn(s, m - 1) \in Nat /\ IndsIn(s, 0) = 0 /\ IndsIn(s, 1) = 1
      /\ IndsIn(s, m) = IndsIn(s, m - 1) + (IF s.units[m].t = "dep" THEN 0 ELSE 1)
  <2>1. m - 1 + 1 = m /\ 0 + 1 = 1 /\ 0 \in Nat
    BY <1>1
  <2>2. IndsIn(s, 0 + 1) = IndsIn(s, 0) + (IF s.units[0 + 1].t = "dep" THEN 0 ELSE 1)
    BY <2>1, IndsNext
  <2>3. s.units[1].t # "dep"
    BY DEF RegularIn, OpensIn
  <2>4. IndsIn(s, (m - 1) + 1) = IndsIn(s, m - 1) + (IF s.units[(m - 1) + 1].t = "dep" THEN 0 ELSE 1)
    BY <1>1, IndsNext
  <2> QED BY <1>1, <2>1, <2>2, <2>3, <2>4, IndsNext
<1>6. IndsIn(s, m) >= 1 /\ (m > 1 => IndsIn(s, m - 1) >= 1)
  <2>1. 1 <= m /\ IndsIn(s, 1) <= IndsIn(s, m)
    BY <1>1, IndsGrow
  <2>2. m > 1 => 1 <= m - 1 /\ IndsIn(s, 1) <= IndsIn(s, m - 1)
    BY <1>1, IndsGrow
  <2> QED BY <1>1, <1>5, <2>1, <2>2
<1>7. Depth(s, m) \in Nat
  BY <1>1, <1>4 DEF Depth
<1>8. CASE m = 1
  <2>1. OpensIn(s, 1) /\ s.units[1].t # "dep" /\ s.units[1].id = 0
    BY <1>3 DEF RegularIn, OpensIn
  <2> QED BY <1>4, <1>5, <1>6, <1>7, <1>8, <2>1
<1>9. CASE m # 1
  <2>1. m \in 2..w /\ m > 1
    BY <1>1, <1>9
  <2>2. \/ s.units[m].t = "dep" /\ s.units[m - 1].t = "dep" /\ s.units[m].id = s.units[m - 1].id + 1
        \/ s.units[m].t = "dep" /\ s.units[m - 1].t # "dep" /\ s.units[m].id = 0
        \/ s.units[m].t = "ind" /\ s.units[m].id = IndsIn(s, m - 1)
    BY <2>1 DEF RegularIn
  <2>3. s.units[m].t = "dep" => s.units[m].id = Depth(s, m - 1)
    BY <2>2 DEF Depth
  <2>4. s.units[m].t # "dep" => s.units[m].t = "ind" /\ s.units[m].id = IndsIn(s, m - 1)
    BY <2>2
  <2>5. ~OpensIn(s, m)
    BY <1>5, <1>6, <2>1, <2>4 DEF OpensIn
  <2> QED BY <1>4, <1>5, <1>6, <1>7, <2>1, <2>3, <2>4, <2>5
<1> QED BY <1>8, <1>9

(* What the parser knows of the first e units of a frame: its substreams.   *)
Known(s, e, inds, deps) ==
    /\ inds = IndsIn(s, e)
    /\ \A x \in 1..e : deps[IndsIn(s, x) - 1] >= Depth(s, x)
    /\ e >= 1 => deps[IndsIn(s, e) - 1] = Depth(s, e)
    /\ \A l \in IndsIn(s, e)..(MaxStreams - 1) : deps[l] = 0
    /\ SumOver(deps, 0, IndsIn(s, e) - 1) = e - IndsIn(s, e)

(* A unit that is entered, behind the last one or again.                    *)
Updates(u, last, inds, deps, inds2, deps2) ==
    /\ u.t = "dep" => inds2 = inds /\ deps2 = [deps EXCEPT ![last] = Dd!AtLeast(@, u.id + 1)]
    /\ u.t # "dep" => deps2 = deps /\ inds2 = Dd!AtLeast(inds, u.id + 1)

LEMMA LastOneMore ==
    ASSUME NEW v, NEW w, NEW j \in Nat, \A k \in 0..j : v[k] \in Nat /\ w[k] \in Nat,
           \A k \in 0..j : k # j => w[k] = v[k], w[j] = v[j] + 1
    PROVE  SumOver(w, 0, j) = SumOver(v, 0, j) + 1
<1>1. 0 \in Int /\ j \in Int /\ 0 <= j /\ j - 1 \in Int /\ j \in 0..j
  OBVIOUS
<1>2. SumOver(w, 0, j) = SumOver(w, 0, j - 1) + w[j]
  BY <1>1, SumNext
<1>3. SumOver(v, 0, j) = SumOver(v, 0, j - 1) + v[j]
  BY <1>1, SumNext
<1>4. \A k \in 0..(j - 1) : v[k] \in Nat /\ v[k] = w[k]
  OBVIOUS
<1>5. SumOver(v, 0, j - 1) = SumOver(w, 0, j - 1)
  BY <1>1, <1>4, SumSame
<1>6. SumOver(v, 0, j - 1) \in Nat
  BY <1>1, <1>4, SumNat
<1> QED BY <1>1, <1>2, <1>3, <1>5, <1>6

LEMMA KnownNext ==
    ASSUME NEW s, NEW w, RegularIn(s, w), NEW m \in 1..w,
           NEW inds, NEW deps \in [0..(MaxStreams - 1) -> Nat], Known(s, m - 1, inds, deps),
           NEW inds2, NEW deps2,
           Updates(s.units[m], IndsIn(s, m - 1) - 1, inds, deps, inds2, deps2)
    PROVE  Known(s, m, inds2, deps2)
<1> DEFINE I == IndsIn(s, m)
           J == IndsIn(s, m - 1)
           u == s.units[m]
<1>1. /\ w \in Nat \ {0} /\ m \in Nat /\ m - 1 \in Nat /\ m >= 1 /\ MaxStreams \in Nat \ {0}
  BY StreamsAssumption DEF RegularIn
<1>2. /\ I \in Nat /\ J \in Nat /\ I >= 1 /\ u.id \in 0..(MaxStreams - 1) /\ Depth(s, m) \in Nat
      /\ m = 1 => J = 0
      /\ u.t = "dep" => m > 1 /\ u.id = Depth(s, m - 1) /\ I = J
      /\ u.t # "dep" => u.id = J /\ I = J + 1
  BY InFrame
<1>3. \A x \in 1..m : IndsIn(s, x) \in Nat /\ IndsIn(s, x) >= 1 /\ Depth(s, x) \in Nat
  <2> SUFFICES ASSUME NEW x \in 1..m
               PROVE  IndsIn(s, x) \in Nat /\ IndsIn(s, x) >= 1 /\ Depth(s, x) \in Nat
    OBVIOUS
  <2>1. x \in 1..w
    BY <1>1
  <2> QED BY <2>1, InFrame
<1>4. /\ inds = J
      /\ \A x \in 1..(m - 1) : deps[IndsIn(s, x) - 1] >= Depth(s, x)
      /\ m - 1 >= 1 => deps[J - 1] = Depth(s, m - 1)
      /\ \A l \in J..(MaxStreams - 1) : deps[l] = 0
      /\ SumOver(deps, 0, J - 1) = (m - 1) - J
  BY DEF Known
<1>5. Depth(s, m) = IF u.t = "dep" THEN u.id + 1 ELSE 0
  BY DEF Depth
<1>6. \A x \in 1..(m - 1) : IndsIn(s, x) <= J
  <2> SUFFICES ASSUME NEW x \in 1..(m - 1) PROVE IndsIn(s, x) <= J
    OBVIOUS
  <2>1. x \in Nat /\ x <= m - 1
    BY <1>1
  <2> QED BY <1>1, <2>1, IndsGrow
<1> HIDE DEF I, J, u
<1>7. CASE u.t = "dep"
  <2>1. /\ inds2 = inds /\ deps2 = [deps EXCEPT ![J - 1] = Dd!AtLeast(@, u.id + 1)]
    BY <1>7 DEF Updates, u, J
  <2>2. m - 1 >= 1 /\ I = J /\ J >= 1 /\ u.id = Depth(s, m - 1) /\ J - 1 \in 0..(MaxStreams - 1)
    <3>1. m - 1 >= 1 /\ I = J /\ J >= 1 /\ u.id = Depth(s, m - 1)
      BY <1>1, <1>2, <1>7
    <3>2. m - 1 \in 1..w
      BY <1>1, <3>1
    <3>3. J - 1 <= MaxStreams - 1
      \* the last independent substream is one of the units
      <4> DEFINE S == {x \in 0..w : x >= 1 => IndsIn(s, x) - 1 <= MaxStreams - 1}
      <4>1. 0 \in S
        BY <1>1
      <4>2. \A x \in 0..(w - 1) : x \in S => x + 1 \in S
        <5> SUFFICES ASSUME NEW x \in 0..(w - 1), x \in S PROVE x + 1 \in S
          OBVIOUS
        <5>1. x + 1 \in 1..w /\ (x + 1) - 1 = x
          BY <1>1
        <5>2. /\ IndsIn(s, x + 1) \in Nat /\ IndsIn(s, x) \in Nat
              /\ s.units[x + 1].t = "dep" => x + 1 > 1 /\ IndsIn(s, x + 1) = IndsIn(s, x)
              /\ s.units[x + 1].t # "dep" => /\ s.units[x + 1].id = IndsIn(s, x)
                                            /\ IndsIn(s, x + 1) = IndsIn(s, x) + 1
              /\ s.units[x + 1].id \in 0..(MaxStreams - 1)
          BY <5>1, InFrame
        <5>3. IndsIn(s, x + 1) - 1 <= MaxStreams - 1
          BY <1>1, <5>2
        <5> QED BY <5>1, <5>3
      <4>3. 0 \in Int /\ w \in Int
        BY <1>1
      <4>4. \A x \in 0..w : x \in S
        <5> HIDE DEF S
        <5> QED BY <4>1, <4>2, <4>3, Upwards
      <4>5. m - 1 \in 0..w
        BY <1>1
      <4>6. IndsIn(s, m - 1) - 1 <= MaxStreams - 1
        BY <3>1, <4>4, <4>5
      <4> QED BY <4>6 DEF J
    <3> QED BY <1>1, <1>2, <3>1, <3>3
  <2>3. deps[J - 1] = u.id /\ u.id \in Nat /\ Dd!AtLeast(deps[J - 1], u.id + 1) = u.id + 1
    <3>1. deps[J - 1] = u.id /\ u.id \in Nat
      BY <1>1, <1>2, <1>4, <2>2
    <3>2. ~(deps[J - 1] >= u.id + 1)
      BY <3>1
    <3> QED BY <3>1, <3>2 DEF Dd!AtLeast
  <2>4. /\ deps2[J - 1] = deps[J - 1] + 1 /\ deps2[J - 1] = Depth(s, m)
        /\ \A l \in 0..(MaxStreams - 1) : l # J - 1 => deps2[l] = deps[l]
        /\ deps2 \in [0..(MaxStreams - 1) -> Nat]
    BY <1>5, <1>7, <2>1, <2>2, <2>3
  <2>5. \A x \in 1..m : deps2[IndsIn(s, x) - 1] >= Depth(s, x)
    <3> SUFFICES ASSUME NEW x \in 1..m PROVE deps2[IndsIn(s, x) - 1] >= Depth(s, x)
      OBVIOUS
    <3> DEFINE l == IndsIn(s, x) - 1
    <3>1. CASE x = m
      BY <1>2, <2>2, <2>4, <3>1 DEF I
    <3>2. CASE x # m
      <4>0. x \in 1..(m - 1) /\ deps[l] >= Depth(s, x)
        BY <1>1, <1>4, <3>2
      <4>a. IndsIn(s, x) \in Nat /\ IndsIn(s, x) >= 1 /\ IndsIn(s, x) <= J
        BY <1>3, <1>6, <4>0
      <4>b. J - 1 <= MaxStreams - 1 /\ J \in Nat
        BY <1>1, <1>2, <2>2
      <4>c. l \in 0..(MaxStreams - 1)
        BY <1>1, <4>a, <4>b
      <4>1. x \in 1..(m - 1) /\ deps[l] >= Depth(s, x) /\ l \in 0..(MaxStreams - 1)
        BY <4>0, <4>c
      <4>2. deps2[l] >= deps[l] /\ deps2[l] \in Nat /\ deps[l] \in Nat /\ Depth(s, x) \in Nat
        <5>1. deps2[l] \in Nat /\ deps[l] \in Nat
          BY <2>4, <4>1
        <5>2. Depth(s, x) \in Nat
          BY <1>3
        <5>3. l # J - 1 => deps2[l] = deps[l]
          BY <2>4, <4>1
        <5>4. l = J - 1 => deps2[l] = deps[l] + 1
          BY <2>4
        <5> HIDE DEF l
        <5> QED BY <5>1, <5>2, <5>3, <5>4
      <4> HIDE DEF l
      <4>3. deps2[l] >= Depth(s, x)
        BY <4>1, <4>2
      <4> QED BY <4>3 DEF l
    <3> QED BY <3>1, <3>2
  <2>6. \A l \in I..(MaxStreams - 1) : deps2[l] = 0
    <3> SUFFICES ASSUME NEW l \in I..(MaxStreams - 1) PROVE deps2[l] = 0
      OBVIOUS
    <3>1. l \in J..(MaxStreams - 1) /\ l \in 0..(MaxStreams - 1) /\ l # J - 1
      BY <1>1, <1>2, <2>2
    <3> QED BY <1>4, <2>4, <3>1
  <2>7. SumOver(deps2, 0, I - 1) = m - I
    <3>1. \A l \in 0..(J - 1) : deps[l] \in Nat /\ deps2[l] \in Nat
      <4>1. \A l \in 0..(J - 1) : l \in 0..(MaxStreams - 1)
        BY <1>1, <1>2, <2>2
      <4> QED BY <2>4, <4>1
    <3>2. \A l \in 0..(J - 1) : l # J - 1 => deps2[l] = deps[l]
      <4>1. \A l \in 0..(J - 1) : l \in 0..(MaxStreams - 1)
        BY <1>1, <1>2, <2>2
      <4> QED BY <2>4, <4>1
    <3>3. J - 1 \in 0..(J - 1) /\ 0 \in Int /\ J - 1 \in Int /\ 1 \in Int
      BY <1>2, <2>2
    <3>4. SumOver(deps2, 0, J - 1) = SumOver(deps, 0, J - 1) + 1
      <4>1. deps2[J - 1] = deps[J - 1] + 1 /\ J - 1 \in Nat
        BY <2>2, <2>4, <1>2
      <4> QED BY <3>1, <3>2, <4>1, LastOneMore
    <3> QED BY <1>1, <1>2, <1>4, <2>2, <3>4
  <2>8. inds2 = I
    BY <1>4, <2>1, <2>2
  <2>9. deps2[I - 1] = Depth(s, m)
    BY <2>2, <2>4
  <2> QED BY <2>5, <2>6, <2>7, <2>8, <2>9 DEF Known, I
<1>8. CASE u.t # "dep"
  <2>1. deps2 = deps /\ inds2 = Dd!AtLeast(inds, u.id + 1) /\ u.id = J /\ I = J + 1
    BY <1>2, <1>8 DEF Updates, u
  <2>2. inds2 = I
    BY <1>2, <1>4, <2>1 DEF Dd!AtLeast
  <2>3. J \in J..(MaxStreams - 1) /\ deps[J] = 0
    <3>1. J \in J..(MaxStreams - 1)
      BY <1>1, <1>2, <2>1
    <3> QED BY <1>4, <3>1
  <2>4. I - 1 = J /\ Depth(s, m) = 0
    BY <1>2, <1>5, <1>8, <2>1
  <2>5. \A x \in 1..m : deps2[IndsIn(s, x) - 1] >= Depth(s, x)
    <3> SUFFICES ASSUME NEW x \in 1..m PROVE deps2[IndsIn(s, x) - 1] >= Depth(s, x)
      OBVIOUS
    <3>1. CASE x = m
      <4>1. IndsIn(s, x) - 1 = J /\ Depth(s, x) = 0
        BY <2>4, <3>1 DEF I
      <4> QED BY <2>1, <2>3, <4>1
    <3>2. CASE x # m
      <4>1. x \in 1..(m - 1)
        BY <1>1, <3>2
      <4> QED BY <1>4, <2>1, <4>1
    <3> QED BY <3>1, <3>2
  <2>6. \A l \in I..(MaxStreams - 1) : deps2[l] = 0
    <3> SUFFICES ASSUME NEW l \in I..(MaxStreams - 1) PROVE deps2[l] = 0
      OBVIOUS
    <3>1. l \in J..(MaxStreams - 1)
      BY <1>1, <1>2, <2>1
    <3> QED BY <1>4, <2>1, <3>1
  <2>7. SumOver(deps2, 0, I - 1) = m - I
    <3>1. SumOver(deps, 0, J) = SumOver(deps, 0, J - 1) + deps[J]
      <4>1. 0 \in Int /\ J \in Int /\ 0 <= J
        BY <1>2
      <4> QED BY <4>1, SumNext
    <3> QED BY <1>1, <1>2, <1>4, <2>1, <2>3, <2>4, <3>1
  <2>8. deps2[I - 1] = Depth(s, m)
    BY <2>1, <2>3, <2>4
  <2> QED BY <2>2, <2>5, <2>6, <2>7, <2>8 DEF Known, I
<1> QED BY <1>7, <1>8

LEMMA KnownAgain ==
    ASSUME NEW s, NEW w, RegularIn(s, w), NEW m \in 1..w,
           NEW inds, NEW deps \in [0..(MaxStreams - 1) -> Nat], Known(s, w, inds, deps),
           NEW inds2, NEW deps2,
           Updates(s.units[m], IndsIn(s, m - 1) - 1, inds, deps, inds2, deps2)
    PROVE  Known(s, w, inds2, deps2)
<1> DEFINE I == IndsIn(s, m)
           J == IndsIn(s, m - 1)
           u == s.units[m]
<1>1. w \in Nat \ {0} /\ m \in Nat /\ MaxStreams \in Nat \ {0} /\ m <= w
  BY StreamsAssumption DEF RegularIn
<1>2. /\ I \in Nat /\ J \in Nat /\ I >= 1 /\ u.id \in 0..(MaxStreams - 1) /\ Depth(s, m) \in Nat
      /\ u.t = "dep" => I = J
      /\ u.t # "dep" => u.id = J /\ I = J + 1
  BY InFrame
<1>3. I <= IndsIn(s, w) /\ IndsIn(s, w) \in Nat
  <2>1. w \in Nat
    BY <1>1
  <2> QED BY <1>1, <2>1, IndsGrow, IndsNext
<1>4. inds = IndsIn(s, w) /\ deps[I - 1] >= Depth(s, m)
  BY DEF Known
<1>5. Depth(s, m) = IF u.t = "dep" THEN u.id + 1 ELSE 0
  BY DEF Depth
<1> HIDE DEF I, J, u
<1>6. ASSUME u.t = "dep" PROVE inds2 = inds /\ deps2 = deps
  <2>1. inds2 = inds /\ deps2 = [deps EXCEPT ![J - 1] = Dd!AtLeast(@, u.id + 1)]
    BY <1>6 DEF Updates, u, J
  <2>2. Dd!AtLeast(deps[J - 1], u.id + 1) = deps[J - 1]
    BY <1>2, <1>4, <1>5, <1>6 DEF Dd!AtLeast
  <2> QED BY <2>1, <2>2
<1>7. ASSUME u.t # "dep" PROVE inds2 = inds /\ deps2 = deps
  <2>1. deps2 = deps /\ inds2 = Dd!AtLeast(inds, I)
    BY <1>2, <1>7 DEF Updates, u
  <2> QED BY <1>2, <1>3, <1>4, <2>1 DEF Dd!AtLeast
<1>8. inds2 = inds /\ deps2 = deps
  BY <1>6, <1>7
<1> QED BY <1>8

(* Where in a frame the parser is: behind the first m units of the one at c. *)
InPhase(s, w, pos, calling, lastIndep, lastDep, c, m) ==
    /\ c \in Nat /\ m \in 0..w /\ pos - 1 = c + m
    /\ FrameAt(s, w, c) \/ (c = Len(s.units) /\ m = 0)
    /\ calling => lastIndep = IndsIn(s, m) - 1 /\ (m >= 1 => lastDep = Depth(s, m) - 1)
    /\ ~calling => m = 0

LEMMA UnitAt ==
    ASSUME NEW s, NEW w, RegularIn(s, w), NEW c \in Nat, NEW m \in 0..w,
           FrameAt(s, w, c) \/ (c = Len(s.units) /\ m = 0), c + m < Len(s.units)
    PROVE  /\ FrameAt(s, w, c)
           /\ m < w => s.units[c + m + 1] = s.units[m + 1]
           /\ m = w => FrameAt(s, w, c + w)
           /\ OpensIn(s, c + m + 1) <=> m = 0 \/ m = w
<1>1. w \in Nat \ {0} /\ Len(s.units) \in Nat \ {0} /\ m \in Nat /\ m <= w
  BY DEF RegularIn
<1>2. FrameAt(s, w, c)
  BY <1>1
<1>3. CASE m < w
  <2>1. m + 1 \in 1..w /\ c + m + 1 = c + (m + 1)
    BY <1>1, <1>3
  <2>2. s.units[c + m + 1] = s.units[m + 1]
    BY <1>2, <2>1 DEF FrameAt
  <2>3. OpensIn(s, c + m + 1) <=> OpensIn(s, m + 1)
    BY <2>2 DEF OpensIn
  <2>4. OpensIn(s, m + 1) <=> m = 0
    <3>1. m + 1 = 1 <=> m = 0
      BY <1>1
    <3>2. m + 1 > 1 <=> m # 0
      BY <1>1
    <3>3. m + 1 > 1 => ~OpensIn(s, m + 1)
      BY <2>1, InFrame
    <3>4. OpensIn(s, 1)
      BY DEF RegularIn
    <3> QED BY <3>1, <3>2, <3>3, <3>4
  <2>5. m # w
    BY <1>1, <1>3
  <2> QED BY <1>2, <2>2, <2>3, <2>4, <2>5
<1>4. CASE m = w
  <2>1. FrameAt(s, w, c + w)
    BY <1>1, <1>2, <1>4, FrameAfter
  <2>2. s.units[(c + w) + 1] = s.units[1]
    <3>1. 1 \in 1..w
      BY <1>1
    <3> QED BY <2>1, <3>1 DEF FrameAt
  <2>3. OpensIn(s, 1)
    BY DEF RegularIn
  <2>4. OpensIn(s, c + m + 1)
    BY <1>4, <2>2, <2>3 DEF OpensIn
  <2>5. ~(m < w)
    BY <1>1, <1>4
  <2> QED BY <1>2, <1>4, <2>1, <2>4, <2>5
<1> QED BY <1>1, <1>3, <1>4

(* In a regular stream every unit belongs to the frame or begins the next.  *)
LEMMA DdFits ==
    ASSUME DdTyped, NEW w, RegularIn(es, w), NEW c, NEW m, p.calling, Dd!HeaderAt(p.pos),
           InPhase(es, w, p.pos, p.calling, p.lastIndep, p.lastDep, c, m)
    PROVE  LET u == Dd!Unit(p.pos)
           IN  /\ Dd!EndsFrame(u) <=> m = w
               /\ m < w => /\ u = es.units[m + 1] /\ Dd!Belongs(u) /\ FrameAt(es, w, c)
               /\ m = w => FrameAt(es, w, c + w)
<1> DEFINE u == Dd!Unit(p.pos)
<1>1. w \in Nat \ {0} /\ Len(es.units) \in Nat \ {0} /\ MaxStreams \in Nat \ {0}
  BY StreamsAssumption DEF RegularIn
<1>2. /\ c \in Nat /\ m \in 0..w /\ m \in Nat /\ p.pos - 1 = c + m
      /\ FrameAt(es, w, c) \/ (c = Len(es.units) /\ m = 0)
      /\ p.lastIndep = IndsIn(es, m) - 1 /\ (m >= 1 => p.lastDep = Depth(es, m) - 1)
  BY <1>1 DEF InPhase
<1>3. p.pos \in 1..Len(es.units) /\ u = es.units[p.pos]
  <2>1. p.pos \in Nat \ {0}
    BY DEF DdTyped
  <2> QED BY <2>1, DdUnits DEF DdTyped, Dd!Unit
<1>4. c + m < Len(es.units) /\ c + m + 1 = p.pos
  BY <1>1, <1>2, <1>3
<1>5. /\ FrameAt(es, w, c)
      /\ m < w => u = es.units[m + 1]
      /\ m = w => FrameAt(es, w, c + w)
      /\ OpensIn(es, p.pos) <=> m = 0 \/ m = w
  BY <1>2, <1>3, <1>4, UnitAt
<1>6. IndsIn(es, 0) = 0 /\ IndsIn(es, m) \in Nat /\ (m >= 1 => IndsIn(es, m) >= 1 /\ Depth(es, m) \in Nat)
  <2>1. 0 \in Nat
    OBVIOUS
  <2>2. IndsIn(es, 0) = 0 /\ IndsIn(es, m) \in Nat
    BY <1>2, <2>1, IndsNext
  <2>3. m >= 1 => IndsIn(es, m) >= 1 /\ Depth(es, m) \in Nat
    <3> SUFFICES ASSUME m >= 1 PROVE IndsIn(es, m) >= 1 /\ Depth(es, m) \in Nat
      OBVIOUS
    <3>1. m \in 1..w
      BY <1>1, <1>2
    <3> QED BY <3>1, InFrame
  <2> QED BY <2>2, <2>3
<1>7. p.lastIndep >= 0 <=> m >= 1
  <2>1. m >= 1 \/ m = 0
    BY <1>2
  <2>2. CASE m = 0
    BY <1>2, <1>6, <2>2
  <2>3. CASE m >= 1
    BY <1>2, <1>6, <2>3
  <2> QED BY <2>1, <2>2, <2>3
<1>8. OpensIn(es, p.pos) <=> u.t = "ac3" \/ (u.t = "ind" /\ u.id = 0)
  BY <1>3 DEF OpensIn
<1>9. Dd!EndsFrame(u) <=> m = w
  <2>1. Dd!EndsFrame(u) <=> m >= 1 /\ OpensIn(es, p.pos)
    BY <1>7, <1>8 DEF Dd!EndsFrame
  <2>2. m = w => m >= 1
    BY <1>1, <1>2
  <2>3. m >= 1 => m # 0
    BY <1>2
  <2> QED BY <1>5, <2>1, <2>2, <2>3
<1>10. ASSUME m < w PROVE Dd!Belongs(u)
  <2>1. m + 1 \in 1..w /\ (m + 1) - 1 = m /\ u = es.units[m + 1]
    BY <1>1, <1>2, <1>5, <1>10
  <2>2. /\ u.t \in {"ac3", "ind", "dep"} /\ u.id \in 0..(MaxStreams - 1)
        /\ u.t = "dep" => m + 1 > 1 /\ u.id = Depth(es, m)
        /\ u.t # "dep" => u.id = IndsIn(es, m) /\ (m + 1 > 1 => u.t = "ind")
    BY <2>1, InFrame
  <2>3. u.id < MaxStreams /\ u.id \in Nat
    BY <1>1, <2>2
  <2>4. u.t = "ac3" => u.ok
    BY <1>3 DEF RegularIn
  <2>5. CASE u.t = "dep"
    <3>1. m >= 1
      BY <1>2, <2>2, <2>5
    <3>2. p.lastIndep >= 0 /\ u.id = p.lastDep + 1
      BY <1>2, <1>6, <1>7, <2>2, <2>5, <3>1
    <3> QED BY <2>3, <2>5, <3>2 DEF Dd!Belongs
  <2>6. CASE u.t = "ind"
    <3>1. u.id = p.lastIndep + 1
      BY <1>2, <1>6, <2>2, <2>6
    <3> QED BY <2>3, <2>6, <3>1 DEF Dd!Belongs
  <2>7. CASE u.t = "ac3"
    <3>1. m = 0
      BY <1>2, <2>2, <2>7
    <3>2. p.lastIndep < 0
      BY <1>2, <1>6, <3>1
    <3> QED BY <2>4, <2>7, <3>2 DEF Dd!Belongs
  <2> QED BY <2>2, <2>5, <2>6, <2>7
<1>11. m < w => u = es.units[m + 1] /\ Dd!Belongs(u) /\ FrameAt(es, w, c)
  BY <1>5, <1>10
<1>12. m = w => FrameAt(es, w, c + w)
  BY <1>5
<1> HIDE DEF u
<1> QED BY <1>9, <1>11, <1>12 DEF u

(* What was taken is all that was read.                                     *)
SizeOf(o) == SumOver([k \in 1..Len(o) |-> o[k].size], 1, Len(o))

RunOf(a, n) == [i \in 1..n |-> i + a]

LEMMA SizeNext ==
    ASSUME NEW o, IsSeq(o), NEW x
    PROVE  SizeOf(<< >>) = 0 /\ SizeOf(Append(o, x)) = SizeOf(o) + x.size
<1> DEFINE B(t) == [j \in 1..Len(t) |-> t[j].size]
           n == Len(o)
           w == Append(o, x)
<1>1. SizeOf(<< >>) = 0
  <2>1. Len(<< >>) = 0
    OBVIOUS
  <2>2. SizeOf(<< >>) = SumOver(B(<< >>), 1, 0)
    BY <2>1 DEF SizeOf
  <2> HIDE DEF B
  <2> QED BY <2>2, SumEmpty
<1>2. n \in Nat /\ Len(w) = n + 1 /\ w[n + 1] = x /\ \A j \in 1..n : w[j] = o[j]
  BY Appended
<1>3. SizeOf(o) = SumOver(B(o), 1, n) /\ SizeOf(w) = SumOver(B(w), 1, n + 1)
  BY <1>2 DEF SizeOf
<1> HIDE DEF n, w
<1>4. \A j \in 1..n : B(w)[j] = B(o)[j]
  <2> SUFFICES ASSUME NEW j \in 1..n PROVE B(w)[j] = B(o)[j]
    OBVIOUS
  <2>1. j \in 1..Len(w) /\ j \in 1..Len(o) /\ w[j] = o[j]
    BY <1>2 DEF n
  <2> QED BY <2>1
<1>5. B(w)[n + 1] = x.size
  <2>1. n + 1 \in 1..Len(w)
    BY <1>2
  <2> QED BY <1>2, <2>1
<1> HIDE DEF B
<1>6. SumOver(B(w), 1, n + 1) = SumOver(B(w), 1, n) + B(w)[n + 1]
  <2>1. n + 1 \in Int /\ 1 <= n + 1 /\ (n + 1) - 1 = n
    BY <1>2
  <2> QED BY <2>1, SumNext
<1>7. SumOver(B(w), 1, n) = SumOver(B(o), 1, n)
  BY <1>2, <1>4, SumSame
<1> QED BY <1>1, <1>3, <1>5, <1>6, <1>7 DEF w

LEMMA RunNext ==
    ASSUME NEW a \in Nat, NEW n \in Nat
    PROVE  /\ RunOf(a, 0) = << >> /\ RunOf(a, n) \in Seq(Nat) /\ Len(RunOf(a, n)) = n
           /\ Append(RunOf(a, n), a + n + 1) = RunOf(a, n + 1)
<1>1. RunOf(a, n) \in Seq(Nat) /\ Len(RunOf(a, n)) = n
  BY DEF RunOf
<1>2. RunOf(a, 0) = << >>
  <2>1. RunOf(a, 0) \in Seq(Nat) /\ Len(RunOf(a, 0)) = 0
    BY DEF RunOf
  <2> QED BY <2>1
<1>3. Append(RunOf(a, n), a + n + 1) = RunOf(a, n + 1)
  <2> DEFINE t == Append(RunOf(a, n), a + n + 1)
  <2>1. t \in Seq(Nat) /\ Len(t) = n + 1 /\ t[n + 1] = a + n + 1
        /\ \A i \in 1..n : t[i] = RunOf(a, n)[i]
    BY <1>1
  <2>2. RunOf(a, n + 1) \in Seq(Nat) /\ Len(RunOf(a, n + 1)) = n + 1
    BY DEF RunOf
  <2> HIDE DEF t
  <2>3. \A i \in 1..(n + 1) : t[i] = RunOf(a, n + 1)[i]
    <3> SUFFICES ASSUME NEW i \in 1..(n + 1) PROVE t[i] = RunOf(a, n + 1)[i]
      OBVIOUS
    <3>1. CASE i = n + 1
      BY <2>1, <3>1 DEF RunOf
    <3>2. CASE i # n + 1
      <4>1. i \in 1..n
        BY <3>2
      <4> QED BY <2>1, <4>1 DEF RunOf
    <3> QED BY <3>1, <3>2
  <2>4. t = RunOf(a, n + 1)
    <3> DEFINE r == RunOf(a, n + 1)
    <3>1. r \in Seq(Nat) /\ Len(r) = n + 1 /\ \A i \in 1..(n + 1) : t[i] = r[i]
      BY <2>2, <2>3
    <3> HIDE DEF r
    <3>2. t = r
      BY <2>1, <3>1
    <3> QED BY <3>2 DEF r
  <2> QED BY <2>4 DEF t
<1> QED BY <1>1, <1>2, <1>3

Reached(w, pos) == IF pos - 1 < w THEN pos - 1 ELSE w

DdSteady(w) ==
    /\ status = "open" => \E c, m :
         InPhase(es, w, p.pos, p.calling, p.lastIndep, p.lastDep, c, m)
    /\ Known(es, Reached(w, p.pos), p.inds, p.deps)
    /\ SizeOf(out) \in Nat
    /\ status = "open" /\ ~p.calling => SizeOf(out) = p.pos - 1
    /\ status = "open" /\ p.calling =>
         /\ SizeOf(out) <= p.pos - 1
         /\ p.taken = RunOf(SizeOf(out), p.pos - 1 - SizeOf(out))
    /\ status = "eoes" =>
         /\ SizeOf(out) <= Len(es.units)
         /\ BlocksIn(es, RunOf(SizeOf(out), Len(es.units) - SizeOf(out))) < FullBlocks

LEMMA DdStartsSteady ==
    ASSUME Dd!Init, NEW w, RegularIn(es, w)
    PROVE  DdSteady(w)
<1>1. PICK s \in DdStreams : Dd!Start(s)
  BY DEF Dd!Init
<1>2. /\ out = << >> /\ status = "open" /\ p.pos = 1 /\ p.inds = 0 /\ p.calling = FALSE
      /\ p.deps = [i \in 0..(MaxStreams - 1) |-> 0]
  BY <1>1 DEF Dd!Start
<1>3. w \in Nat \ {0}
  BY DEF RegularIn
<1>4. SizeOf(out) = 0
  BY <1>2, EmptyIsSeq, SizeNext
<1>5. InPhase(es, w, p.pos, p.calling, p.lastIndep, p.lastDep, 0, 0)
  <2>1. FrameAt(es, w, 0)
    BY FirstFrame
  <2>2. 0 \in Nat /\ 0 \in 0..w /\ p.pos - 1 = 0 + 0
    BY <1>2, <1>3
  <2> QED BY <1>2, <2>1, <2>2 DEF InPhase
<1>6. Reached(w, p.pos) = 0
  BY <1>2, <1>3 DEF Reached
<1>7. Known(es, 0, p.inds, p.deps)
  <2>1. IndsIn(es, 0) = 0
    <3>1. 0 \in Nat
      OBVIOUS
    <3> QED BY <3>1, IndsNext
  <2>2. SumOver(p.deps, 0, 0 - 1) = 0
    <3>1. 0 \in Int /\ 0 - 1 \in Int /\ 0 - 1 < 0
      OBVIOUS
    <3> QED BY <3>1, SumEmpty
  <2>3. \A l \in 0..(MaxStreams - 1) : p.deps[l] = 0
    BY <1>2
  <2> QED BY <1>2, <2>1, <2>2, <2>3 DEF Known
<1> QED BY <1>2, <1>4, <1>5, <1>6, <1>7 DEF DdSteady

LEMMA DdTakesSteady ==
    ASSUME DdTyped, NEW w, RegularIn(es, w), DdSteady(w), status = "open", Dd!TakeSubstream
    PROVE  DdSteady(w)'
<1> DEFINE u == Dd!Unit(p.pos)
           a == SizeOf(out)
<1>1. DdTakes(u)
  BY DdTaken
<1>2. /\ p.calling /\ Dd!HeaderAt(p.pos) /\ ~Dd!EndsFrame(u) /\ DdEnters(u)
      /\ es' = es /\ out' = out /\ status' = status /\ p'.taken = Append(p.taken, p.pos)
  BY <1>1 DEF DdTakes, DdHere
<1>3. PICK c, m : InPhase(es, w, p.pos, p.calling, p.lastIndep, p.lastDep, c, m)
  BY DEF DdSteady
<1>4. w \in Nat \ {0} /\ c \in Nat /\ m \in 0..w /\ m \in Nat /\ p.pos - 1 = c + m
      /\ p.pos \in Nat \ {0} /\ p.lastIndep = IndsIn(es, m) - 1
      /\ (m >= 1 => p.lastDep = Depth(es, m) - 1)
  <2>1. w \in Nat \ {0} /\ p.pos \in Nat \ {0}
    BY DEF RegularIn, DdTyped
  <2> QED BY <1>2, <1>3, <2>1 DEF InPhase
<1>5. m < w /\ u = es.units[m + 1] /\ FrameAt(es, w, c)
  <2>1. Dd!EndsFrame(u) <=> m = w
    BY <1>2, <1>3, DdFits
  <2>2. m < w
    BY <1>2, <1>4, <2>1
  <2> QED BY <1>2, <1>3, <2>2, DdFits
<1> HIDE DEF u
<1>6. /\ p'.pos = p.pos + 1 /\ p'.calling = p.calling
      /\ u.t = "dep" => /\ p'.lastIndep = p.lastIndep /\ p'.lastDep = u.id /\ p'.inds = p.inds
                        /\ p'.deps = [p.deps EXCEPT ![p.lastIndep] = Dd!AtLeast(@, u.id + 1)]
      /\ u.t # "dep" => /\ p'.lastIndep = u.id /\ p'.lastDep = -1 /\ p'.deps = p.deps
                        /\ p'.inds = Dd!AtLeast(p.inds, u.id + 1)
  BY <1>2 DEF DdEnters
<1>7. m + 1 \in 1..w /\ (m + 1) - 1 = m /\ m + 1 \in 0..w /\ m + 1 >= 1
  BY <1>4, <1>5
<1>8. InPhase(es, w, p'.pos, p'.calling, p'.lastIndep, p'.lastDep, c, m + 1)
  <2>1. /\ IndsIn(es, m) \in Nat /\ IndsIn(es, m + 1) \in Nat
        /\ u.t = "dep" => m + 1 > 1 /\ IndsIn(es, m + 1) = IndsIn(es, m)
        /\ u.t # "dep" => u.id = IndsIn(es, m) /\ IndsIn(es, m + 1) = IndsIn(es, m) + 1
        /\ u.id \in 0..(MaxStreams - 1)
    BY <1>5, <1>7, InFrame
  <2>2. Depth(es, m + 1) = IF u.t = "dep" THEN u.id + 1 ELSE 0
    BY <1>5 DEF Depth
  <2>3. p'.lastIndep = IndsIn(es, m + 1) - 1 /\ p'.lastDep = Depth(es, m + 1) - 1
    <3>0. MaxStreams \in Nat
      BY StreamsAssumption
    <3>1. CASE u.t = "dep"
      BY <1>4, <1>6, <2>1, <2>2, <3>0, <3>1
    <3>2. CASE u.t # "dep"
      BY <1>6, <2>1, <2>2, <3>2
    <3> QED BY <3>1, <3>2
  <2>4. p'.pos - 1 = c + (m + 1)
    BY <1>4, <1>6
  <2> QED BY <1>2, <1>4, <1>5, <1>6, <1>7, <2>3, <2>4 DEF InPhase
<1>9. Updates(es.units[m + 1], IndsIn(es, (m + 1) - 1) - 1, p.inds, p.deps, p'.inds, p'.deps)
  <2>1. Updates(u, p.lastIndep, p.inds, p.deps, p'.inds, p'.deps)
    BY <1>6 DEF Updates
  <2> QED BY <1>4, <1>5, <1>7, <2>1
<1>10. Known(es, Reached(w, p.pos), p.inds, p.deps) /\ p.deps \in [0..(MaxStreams - 1) -> Nat]
  BY DEF DdSteady, DdTyped
<1>11. Known(es, Reached(w, p'.pos), p'.inds, p'.deps)
  <2>1. PICK k \in Nat : c = k * w
    BY <1>5 DEF FrameAt
  <2>2. CASE k = 0
    <3>1. c = 0
      BY <1>4, <2>1, <2>2
    <3>2. Reached(w, p.pos) = m /\ Reached(w, p'.pos) = m + 1
      BY <1>4, <1>5, <1>6, <3>1 DEF Reached
    <3>3. Known(es, (m + 1) - 1, p.inds, p.deps)
      BY <1>7, <1>10, <3>2
    <3>4. Known(es, m + 1, p'.inds, p'.deps)
      BY <1>7, <1>9, <1>10, <3>3, KnownNext
    <3> QED BY <3>2, <3>4
  <2>3. CASE k # 0
    <3>1. c >= w
      <4>1. k * w >= 0 * w + w
        BY <1>4, <2>3, MultiplesAreApart
      <4>2. 0 * w = 0
        BY <1>4
      <4> QED BY <1>4, <2>1, <4>1, <4>2
    <3>2. Reached(w, p.pos) = w /\ Reached(w, p'.pos) = w
      BY <1>4, <1>6, <3>1 DEF Reached
    <3>3. Known(es, w, p.inds, p.deps)
      BY <1>10, <3>2
    <3>4. Known(es, w, p'.inds, p'.deps)
      BY <1>7, <1>9, <1>10, <3>3, KnownAgain
    <3> QED BY <3>2, <3>4
  <2> QED BY <2>2, <2>3
<1>12. /\ a \in Nat /\ a <= p'.pos - 1 /\ p'.taken = RunOf(a, p'.pos - 1 - a)
  <2>1. a \in Nat /\ a <= p.pos - 1 /\ p.taken = RunOf(a, p.pos - 1 - a)
    BY <1>2 DEF DdSteady
  <2> DEFINE n == p.pos - 1 - a
  <2>2. n \in Nat /\ p.pos = a + n + 1 /\ p'.pos - 1 - a = n + 1 /\ a <= p'.pos - 1
    BY <1>4, <1>6, <2>1
  <2>3. p.taken = RunOf(a, n)
    BY <2>1
  <2> HIDE DEF n, a
  <2>4. Append(RunOf(a, n), a + n + 1) = RunOf(a, n + 1)
    BY <2>1, <2>2, RunNext
  <2> QED BY <1>2, <2>1, <2>2, <2>3, <2>4
<1>13. SizeOf(out') = a
  BY <1>2
<1>14. p'.calling /\ status' = "open"
  BY <1>2, <1>6
<1> HIDE DEF a
<1>15. /\ SizeOf(out') \in Nat /\ SizeOf(out') <= p'.pos - 1
       /\ p'.taken = RunOf(SizeOf(out'), p'.pos - 1 - SizeOf(out'))
  BY <1>12, <1>13
<1> QED BY <1>2, <1>8, <1>11, <1>14, <1>15 DEF DdSteady

(* No unit is passed over.                                                  *)
LEMMA DdNoResync ==
    ASSUME DdTyped, NEW w, RegularIn(es, w), DdSteady(w), status = "open"
    PROVE  ~Dd!Resync
<1> SUFFICES ASSUME Dd!Resync PROVE FALSE
  OBVIOUS
<1> DEFINE u == Dd!Unit(p.pos)
<1>1. p.calling /\ Dd!HeaderAt(p.pos) /\ ~Dd!EndsFrame(u) /\ ~Dd!Belongs(u)
  BY DEF Dd!Resync
<1>2. PICK c, m : InPhase(es, w, p.pos, p.calling, p.lastIndep, p.lastDep, c, m)
  BY DEF DdSteady
<1>3. /\ Dd!EndsFrame(u) <=> m = w
      /\ m < w => Dd!Belongs(u)
  BY <1>1, <1>2, DdFits
<1>4. m < w
  <2>1. m \in 0..w /\ w \in Nat
    BY <1>2 DEF InPhase, RegularIn
  <2> QED BY <1>1, <1>3, <2>1
<1> QED BY <1>1, <1>3, <1>4

(* A frame that is complete: the next one begins behind it.                 *)
LEMMA DdEndsSteady ==
    ASSUME DdTyped, NEW w, RegularIn(es, w), DdSteady(w), status = "open", p.calling,
           \/ Dd!HeaderAt(p.pos) /\ Dd!EndsFrame(Dd!Unit(p.pos))
           \/ ~Dd!HeaderAt(p.pos) /\ p.lastIndep >= 0,
           es' = es, p'.pos = p.pos, p'.lastIndep = -1
    PROVE  /\ \E c, m : InPhase(es, w, p'.pos, p'.calling, p'.lastIndep, p'.lastDep, c, m)
           /\ Reached(w, p.pos) = w
<1>1. PICK c, m : InPhase(es, w, p.pos, p.calling, p.lastIndep, p.lastDep, c, m)
  BY DEF DdSteady
<1>2. /\ w \in Nat \ {0} /\ c \in Nat /\ m \in 0..w /\ m \in Nat /\ p.pos - 1 = c + m
      /\ p.pos \in Nat \ {0} /\ p.pos <= Len(es.units) + 1 /\ Len(es.units) \in Nat
      /\ FrameAt(es, w, c) \/ (c = Len(es.units) /\ m = 0)
      /\ p.lastIndep = IndsIn(es, m) - 1 /\ es.cut = "none"
  <2>1. w \in Nat \ {0} /\ p.pos \in Nat \ {0} /\ Len(es.units) \in Nat /\ es.cut = "none"
        /\ p.pos \in 1..(Len(es.units) + 1)
    BY DEF RegularIn, DdTyped
  <2>2. p.pos <= Len(es.units) + 1
    BY <2>1
  <2> QED BY <1>1, <2>1, <2>2 DEF InPhase
<1>3. m = w /\ (FrameAt(es, w, c + w) \/ c + w = Len(es.units))
  <2>1. CASE Dd!HeaderAt(p.pos) /\ Dd!EndsFrame(Dd!Unit(p.pos))
    <3>1. m = w
      BY <1>1, <2>1, DdFits
    <3>2. FrameAt(es, w, c + w)
      BY <1>1, <2>1, <3>1, DdFits
    <3> QED BY <3>1, <3>2
  <2>2. CASE ~Dd!HeaderAt(p.pos) /\ p.lastIndep >= 0
    <3>1. c + m = Len(es.units)
      BY <1>2, <2>2 DEF Dd!HeaderAt
    <3>2. m # 0
      <4>1. IndsIn(es, 0) = 0
        <5>1. 0 \in Nat
          OBVIOUS
        <5> QED BY <5>1, IndsNext
      <4> QED BY <1>2, <2>2, <4>1
    <3>3. c + w <= Len(es.units)
      BY <1>2, <3>2 DEF FrameAt
    <3>4. m = w
      BY <1>2, <3>1, <3>3
    <3> QED BY <3>1, <3>4
  <2> QED BY <2>1, <2>2
<1>4. IndsIn(es, 0) = 0 /\ 0 \in Nat
  <2>1. 0 \in Nat
    OBVIOUS
  <2> QED BY <2>1, IndsNext
<1>5. InPhase(es, w, p'.pos, p'.calling, p'.lastIndep, p'.lastDep, c + w, 0)
  <2>1. c + w \in Nat /\ 0 \in 0..w /\ p'.pos - 1 = c + w + 0 /\ ~(0 >= 1)
    BY <1>2, <1>3
  <2>2. p'.lastIndep = IndsIn(es, 0) - 1
    BY <1>4
  <2> QED BY <1>3, <2>1, <2>2 DEF InPhase
<1>6. Reached(w, p.pos) = w
  BY <1>2, <1>3 DEF Reached
<1> QED BY <1>5, <1>6

LEMMA DdOpensSteady ==
    ASSUME DdTyped, NEW w, RegularIn(es, w), DdSteady(w), Dd!GetSample
    PROVE  DdSteady(w)'
<1>1. /\ DdAs({"lastIndep", "taken", "aud", "calling"}) /\ out' = out /\ status' = status
      /\ p'.lastIndep = -1 /\ p'.taken = << >> /\ p'.calling = TRUE
      /\ ~p.calling /\ status = "open"
  BY DdBegins
<1>2. es' = es /\ p'.pos = p.pos /\ p'.inds = p.inds /\ p'.deps = p.deps
  BY <1>1 DEF DdAs, DdFields
<1>3. PICK c, m : InPhase(es, w, p.pos, p.calling, p.lastIndep, p.lastDep, c, m)
  BY <1>1 DEF DdSteady
<1>4. m = 0
  BY <1>1, <1>3 DEF InPhase
<1>5. InPhase(es, w, p'.pos, p'.calling, p'.lastIndep, p'.lastDep, c, m)
  <2>1. IndsIn(es, 0) = 0
    <3>1. 0 \in Nat
      OBVIOUS
    <3> QED BY <3>1, IndsNext
  <2>2. p'.lastIndep = IndsIn(es, m) - 1 /\ ~(m >= 1)
    BY <1>1, <1>4, <2>1
  <2> QED BY <1>1, <1>2, <1>3, <1>4, <2>2 DEF InPhase
<1>6. SizeOf(out) \in Nat /\ SizeOf(out) = p.pos - 1 /\ p.pos \in Nat
  <2>1. p.pos \in Nat
    BY DEF DdTyped
  <2> QED BY <1>1, <2>1 DEF DdSteady
<1>7. p'.taken = RunOf(SizeOf(out), p.pos - 1 - SizeOf(out))
  <2>1. p.pos - 1 - SizeOf(out) = 0
    BY <1>6
  <2>2. RunOf(SizeOf(out), 0) = << >>
    BY <1>6, RunNext
  <2> QED BY <1>1, <2>1, <2>2
<1>8. SizeOf(out) <= p.pos - 1
  BY <1>6
<1>9. Known(es, Reached(w, p.pos), p.inds, p.deps)
  BY DEF DdSteady
<1> QED BY <1>1, <1>2, <1>5, <1>6, <1>7, <1>8, <1>9 DEF DdSteady

LEMMA DdGoesSteady ==
    ASSUME DdTyped, NEW w, RegularIn(es, w), DdSteady(w), status = "open", Dd!NextFrame
    PROVE  DdSteady(w)'
<1>1. /\ DdAs({"aud", "lastIndep"}) /\ out' = out /\ status' = status
      /\ p'.lastIndep = -1
      /\ p.calling /\ Dd!HeaderAt(p.pos) /\ Dd!EndsFrame(Dd!Unit(p.pos))
  BY DdGoesOn
<1>2. es' = es /\ p'.pos = p.pos /\ p'.inds = p.inds /\ p'.deps = p.deps /\ p'.taken = p.taken
      /\ p'.calling = p.calling
  BY <1>1 DEF DdAs, DdFields
<1>3. \E c, m : InPhase(es, w, p'.pos, p'.calling, p'.lastIndep, p'.lastDep, c, m)
  BY <1>1, <1>2, DdEndsSteady
<1>4. /\ Known(es, Reached(w, p.pos), p.inds, p.deps) /\ SizeOf(out) \in Nat
      /\ SizeOf(out) <= p.pos - 1 /\ p.taken = RunOf(SizeOf(out), p.pos - 1 - SizeOf(out))
  BY <1>1 DEF DdSteady
<1> QED BY <1>1, <1>2, <1>3, <1>4 DEF DdSteady

LEMMA DdDeliversSteady ==
    ASSUME DdTyped, NEW w, RegularIn(es, w), DdSteady(w), status = "open",
           Dd!CompleteSample \/ Dd!LastSample
    PROVE  DdSteady(w)'
<1> DEFINE x == Dd!Sample(p.aud + p.numblks)
<1>1. /\ DdAs({"dts", "num", "aud", "numInd", "lastIndep", "calling"})
      /\ status' = status /\ out' = Append(out, x)
      /\ p'.lastIndep = -1 /\ p'.calling = FALSE /\ p.calling
      /\ \/ Dd!HeaderAt(p.pos) /\ Dd!EndsFrame(Dd!Unit(p.pos))
         \/ ~Dd!HeaderAt(p.pos) /\ Dd!LastFrameComplete
  BY DdCompletes
<1>2. x.size = Len(p.taken)
  BY DEF Dd!Sample
<1> HIDE DEF x
<1>3. es' = es /\ p'.pos = p.pos /\ p'.inds = p.inds /\ p'.deps = p.deps
  BY <1>1 DEF DdAs, DdFields
<1>4. \E c, m : InPhase(es, w, p'.pos, p'.calling, p'.lastIndep, p'.lastDep, c, m)
  <2>1. \/ Dd!HeaderAt(p.pos) /\ Dd!EndsFrame(Dd!Unit(p.pos))
        \/ ~Dd!HeaderAt(p.pos) /\ p.lastIndep >= 0
    BY <1>1 DEF Dd!LastFrameComplete
  <2> QED BY <1>1, <1>3, <2>1, DdEndsSteady
<1>5. /\ Known(es, Reached(w, p.pos), p.inds, p.deps) /\ SizeOf(out) \in Nat
      /\ SizeOf(out) <= p.pos - 1 /\ p.taken = RunOf(SizeOf(out), p.pos - 1 - SizeOf(out))
  BY <1>1 DEF DdSteady
<1>6. SizeOf(out') = p.pos - 1 /\ p.pos - 1 \in Nat
  <2>1. SizeOf(out') = SizeOf(out) + x.size
    BY <1>1, SizeNext DEF DdTyped
  <2>2. p.pos - 1 \in Nat /\ p.pos - 1 - SizeOf(out) \in Nat
    <3>1. p.pos \in Nat \ {0}
      BY DEF DdTyped
    <3> QED BY <1>5, <3>1
  <2>3. Len(p.taken) = p.pos - 1 - SizeOf(out)
    BY <1>5, <2>2, RunNext
  <2> QED BY <1>2, <1>5, <2>1, <2>2, <2>3
<1> QED BY <1>1, <1>3, <1>4, <1>5, <1>6 DEF DdSteady

(* At the end of the data the last frame is complete, so that what was      *)
(* collected would be a sample if it had all the blocks.                    *)
LEMMA DdFinishesSteady ==
    ASSUME DdTyped, NEW w, RegularIn(es, w), DdSound, DdSteady(w),
           NEW b \in 1..FullBlocks, \E n \in Nat : n * b = FullBlocks, DdAt(b), Dd!EndOfStream
    PROVE  DdSteady(w)'
<1>1. /\ DdAs({"calling"}) /\ out' = out /\ status' = "eoes" /\ p'.calling = FALSE
      /\ p.calling /\ ~Dd!HeaderAt(p.pos)
      /\ ~(Dd!LastFrameComplete /\ p.aud + p.numblks = FullBlocks)
  BY DdFinishes
<1>2. es' = es /\ p'.pos = p.pos /\ p'.inds = p.inds /\ p'.deps = p.deps
  BY <1>1 DEF DdAs, DdFields
<1>3. /\ status = "open" /\ p.aud \in Multiples(b) /\ p.aud < FullBlocks
      /\ p.lastIndep >= 0 => p.numblks = b
      /\ b \in Nat \ {0} /\ FullBlocks \in Nat
  BY <1>1, StreamsAssumption DEF DdAt
<1>4. /\ Known(es, Reached(w, p.pos), p.inds, p.deps) /\ SizeOf(out) \in Nat
      /\ SizeOf(out) <= p.pos - 1 /\ p.taken = RunOf(SizeOf(out), p.pos - 1 - SizeOf(out))
  BY <1>1, <1>3 DEF DdSteady
<1>5. p.pos = Len(es.units) + 1 /\ Len(es.units) \in Nat /\ es.cut = "none" /\ w \in Nat \ {0}
  <2>1. p.pos \in 1..(Len(es.units) + 1) /\ Len(es.units) \in Nat /\ es.cut = "none"
        /\ w \in Nat \ {0}
    BY DEF DdTyped, RegularIn
  <2> QED BY <1>1, <2>1 DEF Dd!HeaderAt
<1>6. PICK c, m : InPhase(es, w, p.pos, p.calling, p.lastIndep, p.lastDep, c, m)
  BY <1>3 DEF DdSteady
<1>7. BlocksIn(es, p.taken) < FullBlocks
  <2>1. BlocksIn(es, p.taken) = p.aud + (IF p.lastIndep >= 0 THEN p.numblks ELSE 0) /\ p.aud \in Nat
    BY <1>1 DEF DdSound
  <2>2. CASE ~(p.lastIndep >= 0)
    BY <1>3, <2>1, <2>2
  <2>3. CASE p.lastIndep >= 0
    <3>1. /\ c \in Nat /\ m \in 0..w /\ m \in Nat /\ c + m = Len(es.units)
          /\ FrameAt(es, w, c) \/ (c = Len(es.units) /\ m = 0)
          /\ p.lastIndep = IndsIn(es, m) - 1 /\ (m >= 1 => p.lastDep = Depth(es, m) - 1)
      BY <1>1, <1>5, <1>6 DEF InPhase
    <3>2. m # 0
      <4>1. 0 \in Nat
        OBVIOUS
      <4>2. IndsIn(es, 0) = 0
        BY <4>1, IndsNext
      <4> QED BY <2>3, <3>1, <4>2
    <3>3. m = w
      <4>1. c + w <= Len(es.units)
        BY <3>1, <3>2 DEF FrameAt
      <4> QED BY <1>5, <3>1, <4>1
    <3>4. Reached(w, p.pos) = w
      BY <1>5, <3>1, <3>3 DEF Reached
    <3>5. p.inds = IndsIn(es, w) /\ p.deps[IndsIn(es, w) - 1] = Depth(es, w)
      BY <1>4, <1>5, <3>4 DEF Known
    <3>6. IndsIn(es, w) \in Nat /\ Depth(es, w) \in Nat
      <4>1. w \in 1..w
        BY <1>5
      <4> QED BY <4>1, InFrame
    <3>7. Dd!LastFrameComplete
      <4>1. p.lastIndep + 1 = p.inds
        BY <3>1, <3>3, <3>5, <3>6
      <4>2. p.lastDep + 1 = p.deps[p.lastIndep]
        <5>1. p.lastDep = Depth(es, w) - 1
          BY <1>5, <3>1, <3>3
        <5>2. p.lastIndep = IndsIn(es, w) - 1
          BY <3>1, <3>3
        <5> QED BY <3>5, <3>6, <5>1, <5>2
      <4>3. p.lastIndep \in Int /\ p.lastDep \in Int
        BY DEF DdTyped
      <4>4. p.lastIndep + 1 >= p.inds /\ p.lastDep + 1 >= p.deps[p.lastIndep]
        BY <4>1, <4>2, <4>3
      <4> QED BY <2>3, <4>4 DEF Dd!LastFrameComplete
    <3>8. p.numblks = b /\ p.aud + b # FullBlocks
      BY <1>1, <1>3, <2>3, <3>7
    <3>9. PICK n \in Nat, k \in Nat : n * b = FullBlocks /\ p.aud = k * b
      BY <1>3 DEF Multiples
    <3>10. n > k
      <4>1. CASE n = k
        BY <1>3, <3>9, <4>1
      <4>2. CASE k > n
        <5>1. k * b >= n * b + b
          BY <1>3, <4>2, MultiplesAreApart
        <5> QED BY <1>3, <2>1, <3>9, <5>1
      <4> QED BY <4>1, <4>2
    <3>11. FullBlocks >= p.aud + b
      <4>1. n * b >= k * b + b
        BY <1>3, <3>10, MultiplesAreApart
      <4> QED BY <3>9, <4>1
    <3>12. p.aud + b < FullBlocks
      BY <1>3, <2>1, <3>8, <3>11
    <3> QED BY <2>1, <2>3, <3>8, <3>12
  <2> QED BY <2>2, <2>3
<1>8. SizeOf(out) <= Len(es.units) /\ p.pos - 1 = Len(es.units)
  BY <1>4, <1>5
<1>9. BlocksIn(es, RunOf(SizeOf(out), Len(es.units) - SizeOf(out))) < FullBlocks
  BY <1>4, <1>7, <1>8
<1> QED BY <1>1, <1>2, <1>4, <1>8, <1>9 DEF DdSteady

LEMMA DdStaysSteady ==
    ASSUME DdTyped, NEW w, RegularIn(es, w), DdSound, DdSteady(w),
           NEW b \in 1..FullBlocks, \E n \in Nat : n * b = FullBlocks, DdAt(b), Dd!Next
    PROVE  DdSteady(w)'
<1>1. CASE Dd!GetSample
  BY <1>1, DdOpensSteady
<1>2. p.calling => status = "open"
  BY DEF DdAt
<1>3. CASE Dd!TakeSubstream
  <2>1. status = "open"
    BY <1>2, <1>3 DEF Dd!TakeSubstream
  <2> QED BY <1>3, <2>1, DdTakesSteady
<1>4. CASE Dd!Resync
  <2>1. status = "open"
    BY <1>2, <1>4 DEF Dd!Resync
  <2> QED BY <1>4, <2>1, DdNoResync
<1>5. CASE Dd!NextFrame
  <2>1. status = "open"
    BY <1>2, <1>5 DEF Dd!NextFrame
  <2> QED BY <1>5, <2>1, DdGoesSteady
<1>6. CASE Dd!CompleteSample \/ Dd!LastSample
  <2>1. status = "open"
    BY <1>2, <1>6 DEF Dd!CompleteSample, Dd!LastSample
  <2> QED BY <1>6, <2>1, DdDeliversSteady
<1>7. CASE Dd!EndOfStream
  BY <1>7, DdFinishesSteady
<1> QED BY <1>1, <1>3, <1>4, <1>5, <1>6, <1>7 DEF Dd!Next

LEMMA DdLosesNothing ==
    ASSUME DdTyped, RegularIn(es, WidthIn(es)) => DdSteady(WidthIn(es))
    PROVE  Dd!NothingLost
<1> SUFFICES ASSUME Dd!Regular, status = "eoes"
             PROVE  LET taken == Dd!SumOver([k \in 1..Len(out) |-> out[k].size], 1, Len(out))
                    IN  /\ taken <= Len(es.units)
                        /\ Dd!BlocksOf([i \in 1..(Len(es.units) - taken) |-> i + taken]) < FullBlocks
  BY DEF Dd!NothingLost
<1> DEFINE taken == Dd!SumOver([k \in 1..Len(out) |-> out[k].size], 1, Len(out))
<1>1. DdSteady(WidthIn(es))
  BY RegularMeans DEF DdTyped
<1>2. taken = SizeOf(out)
  BY SummedAlike DEF SizeOf
<1>3. /\ SizeOf(out) <= Len(es.units)
      /\ BlocksIn(es, RunOf(SizeOf(out), Len(es.units) - SizeOf(out))) < FullBlocks
  BY <1>1 DEF DdSteady
<1>4. \A i : Dd!Opens(i) = OpensIn(es, i)
  BY DEF Dd!Opens, OpensIn, Dd!Unit
<1>5. \A u : Dd!BlocksOf(u) = BlocksIn(es, u)
  <2> TAKE u
  <2> DEFINE v == [k \in 1..Len(u) |-> IF OpensIn(es, u[k]) THEN es.units[u[k]].blks ELSE 0]
  <2>1. Dd!BlocksOf(u) = Dd!SumOver(v, 1, Len(u))
    BY <1>4 DEF Dd!BlocksOf, Dd!Unit
  <2>2. BlocksIn(es, u) = SumOver(v, 1, Len(u))
    BY DEF BlocksIn
  <2> HIDE DEF v
  <2> QED BY <2>1, <2>2, SummedAlike
<1>6. RunOf(SizeOf(out), Len(es.units) - SizeOf(out)) =
        [i \in 1..(Len(es.units) - taken) |-> i + taken]
  <2> HIDE DEF taken
  <2> QED BY <1>2 DEF RunOf
<1> HIDE DEF taken
<1>7. taken <= Len(es.units)
  BY <1>2, <1>3
<1>8. Dd!BlocksOf([i \in 1..(Len(es.units) - taken) |-> i + taken]) < FullBlocks
  BY <1>3, <1>5, <1>6
<1> QED BY <1>7, <1>8 DEF taken

(* What the number of blocks of the first unit says.                        *)
LEMMA DdDivides ==
    ASSUME es \in DdStreams, NEW b, NEW w, RegularIn(es, w),
           \A i \in 1..Len(es.units) : es.units[i].t # "junk" => es.units[i].blks = b
    PROVE  \E n \in Nat : n * b = FullBlocks
<1>1. Dd!IsStream(es)
  BY StreamsAssumption
<1>2. 1 \in 1..Len(es.units) /\ es.units[1].t # "junk"
  BY DEF RegularIn, OpensIn
<1>3. \E n \in 1..FullBlocks : n * b = FullBlocks
  BY <1>1, <1>2 DEF Dd!IsStream, Dd!IsUnit
<1>4. \A n \in 1..FullBlocks : n \in Nat
  BY StreamsAssumption
<1> QED BY <1>3, <1>4

DdInv ==
    /\ DdTyped
    /\ DdIntact => DdSound
    /\ \E w : w = WidthIn(es) /\ (RegularIn(es, w) => DdIntact /\ DdSteady(w))

LEMMA DdInvStarts ==
    ASSUME kind = "dd", Dd!Init
    PROVE  DdInv
<1>1. DdTyped /\ DdSound
  BY DdStarts
<1>2. PICK w : w = WidthIn(es)
  OBVIOUS
<1>3. RegularIn(es, w) => DdIntact /\ DdSteady(w)
  <2> SUFFICES ASSUME RegularIn(es, w) PROVE DdIntact /\ DdSteady(w)
    OBVIOUS
  <2>1. DdIntact
    BY DEF RegularIn, DdIntact
  <2> QED BY <2>1, DdStartsSteady
<1> QED BY <1>1, <1>2, <1>3 DEF DdInv

LEMMA DdSteps ==
    ASSUME DdInv, DdPace, Dd!Next
    PROVE  DdInv'
<1>1. DdTyped /\ (DdIntact => DdSound)
  BY DEF DdInv
<1>2. PICK w : w = WidthIn(es) /\ (RegularIn(es, w) => DdIntact /\ DdSteady(w))
  BY DEF DdInv
<1>3. PICK b \in 1..FullBlocks : DdAt(b)
  BY DEF DdPace
<1>4. es' = es
  BY DEF Dd!Next, Dd!GetSample, Dd!TakeSubstream, Dd!Resync, Dd!NextFrame, Dd!CompleteSample,
         Dd!LastSample, Dd!EndOfStream, Dd!DeliverSample
<1>5. DdTyped'
  BY <1>1, DdStaysTyped
<1>6. (DdIntact => DdSound)'
  <2>1. DdIntact' <=> DdIntact
    BY <1>4 DEF DdIntact
  <2>2. DdIntact => DdSound'
    BY <1>1, <1>3, DdStaysSound
  <2> QED BY <2>1, <2>2
<1>7. w = WidthIn(es)'
  BY <1>2, <1>4 DEF WidthIn, OpensIn
<1>8. RegularIn(es, w) => DdIntact' /\ DdSteady(w)'
  <2> SUFFICES ASSUME RegularIn(es, w) PROVE DdIntact' /\ DdSteady(w)'
    OBVIOUS
  <2>1. DdIntact /\ DdSteady(w) /\ DdSound
    BY <1>1, <1>2
  <2>2. DdIntact'
    BY <1>4, <2>1 DEF DdIntact
  <2>3. \E n \in Nat : n * b = FullBlocks
    <3>1. \A i \in 1..Len(es.units) : es.units[i].t # "junk" => es.units[i].blks = b
      BY <1>3 DEF DdAt
    <3>2. es \in DdStreams
      BY <1>1 DEF DdTyped
    <3> QED BY <3>1, <3>2, DdDivides
  <2>4. DdSteady(w)'
    BY <1>1, <1>3, <2>1, <2>3, DdStaysSteady
  <2> QED BY <2>2, <2>4
<1>9. RegularIn(es', w) => DdIntact' /\ DdSteady(w)'
  BY <1>4, <1>8
<1> QED BY <1>5, <1>6, <1>7, <1>9 DEF DdInv

LEMMA DdIsRight ==
    ASSUME DdInv
    PROVE  Dd!TypeOK /\ Dd!SamplesAreWholeFrames /\ Dd!NothingLost
<1>1. DdTyped /\ (DdIntact => DdSound)
  BY DEF DdInv
<1>2. RegularIn(es, WidthIn(es)) => DdSteady(WidthIn(es))
  BY DEF DdInv
<1>3. Dd!TypeOK /\ Dd!SamplesAreWholeFrames
  BY <1>1, DdIsWhole
<1>4. Dd!NothingLost
  BY <1>1, <1>2, DdLosesNothing
<1> QED BY <1>3, <1>4

-----------------------------------------------------------------------------
(* Whichever audio parser runs.                                             *)
FrameInv ==
    /\ kind = "aac" => AacInv
    /\ kind = "dd" => DdInv
    /\ kind = "ac4" => Ac4Inv

LEMMA FramesStart ==
    ASSUME Init
    PROVE  FrameInv
BY AacStarts, DdInvStarts, Ac4Starts DEF Init, FrameInv

LEMMA FramesRest ==
    ASSUME FrameInv, UNCHANGED <<kind, es, p, out, status>>
    PROVE  FrameInv'
<1>1. es' = es /\ p' = p /\ out' = out /\ status' = status /\ kind' = kind
  OBVIOUS
<1>2. AacInv => AacInv'
  <2>1. \A i : AacHead(i)' <=> AacHead(i)
    BY <1>1, AacHeadsRest
  <2>2. \A i : AacNext(0, i)' <=> AacNext(0, i)
    BY <1>1, AacHeadsRest
  <2>3. \A k : AacFrame(k)' <=> AacFrame(k)
    BY <1>1 DEF AacFrame
  <2>4. \A i : AacFound(i)' <=> AacFound(i)
    BY <1>1 DEF AacFound
  <2>5. Aac!FramesFollowHeaders' <=> Aac!FramesFollowHeaders
    BY <1>1 DEF Aac!FramesFollowHeaders, Aac!Cell, Aac!Confirmed, Aac!NextHeader
  <2>6. (\A i : Aac!Cell(i)' = Aac!Cell(i)) /\ Aac!Skipping' = Aac!Skipping
    BY <1>1, AacHeadsRest
  <2>7. ASSUME AacInv
        PROVE  /\ status' = "open" /\ out' = << >> /\ p'.dsis # << >> =>
                    /\ p'.pos = 0
                    /\ \E i : /\ AacNext(0, i)'
                             /\ p'.dsis = << Aac!InitDsi(Aac!Override(Aac!Cell(i)'.cfg)) >>
               /\ p'.dsis # << >> /\ status' \in {"open", "eoes"} =>
                    \A i \in 0..(Len(es') - 1) : AacHead(i)' /\ Aac!Cell(i)'.blocks = 0 =>
                       \/ i >= p'.pos /\ status' = "open"
                       \/ AacFound(i)' \/ i - 1 \in Aac!Skipping'
    BY <1>1, <2>1, <2>2, <2>4, <2>6, <2>7 DEF AacInv
  <2> QED BY <1>1, <2>3, <2>5, <2>7 DEF AacInv
<1>3. DdInv => DdInv'
  BY <1>1 DEF DdInv, DdTyped, DdIntact, DdSound, DdSteady, WidthIn
<1>4. Ac4Inv => Ac4Inv'
  <2>1. \A k : (Ac4Frame(k)' <=> Ac4Frame(k)) /\ (Ac4Found(k)' <=> Ac4Found(k))
    BY <1>1, Ac4FramesRest DEF Ac4Frame, Ac4Found
  <2>2. Ac4!Clip(Ac4!FrameEnd(out[Len(out)].head))' = Ac4!Clip(Ac4!FrameEnd(out[Len(out)].head))
    BY <1>1 DEF Ac4!Cell, Ac4!FrameEnd, Ac4!Clip
  <2> QED BY <1>1, <2>1, <2>2, Ac4FramesRest DEF Ac4Inv
<1> QED BY <1>1, <1>2, <1>3, <1>4 DEF FrameInv

LEMMA FramesStay ==
    ASSUME Paced, FrameInv, [Next]_vars
    PROVE  FrameInv'
<1>1. CASE AacStep
  <2>1. kind = "aac" /\ kind' = kind /\ Aac!Next /\ AacInv
    BY <1>1 DEF AacStep, FrameInv
  <2>2. AacInv'
    BY <2>1, AacSteps
  <2> QED BY <2>1, <2>2 DEF FrameInv
<1>2. CASE DdStep
  <2>1. kind = "dd" /\ kind' = kind /\ Dd!Next /\ DdInv /\ DdPace
    BY <1>2 DEF DdStep, FrameInv, Paced
  <2>2. DdInv'
    BY <2>1, DdSteps
  <2> QED BY <2>1, <2>2 DEF FrameInv
<1>3. CASE Ac4Step
  <2>1. kind = "ac4" /\ kind' = kind /\ Ac4!Next /\ Ac4Inv
    BY <1>3 DEF Ac4Step, FrameInv
  <2>2. Ac4Inv'
    BY <2>1, Ac4Steps
  <2> QED BY <2>1, <2>2 DEF FrameInv
<1>4. CASE AvcStep \/ HevcStep \/ AscStep
  BY <1>4 DEF AvcStep, HevcStep, AscStep, FrameInv
<1>5. CASE UNCHANGED vars
  <2>1. UNCHANGED <<kind, es, p, out, status>>
    BY <1>5 DEF vars, parserVars
  <2> QED BY <2>1, FramesRest
<1> QED BY <1>1, <1>2, <1>3, <1>4, <1>5 DEF Next

(* Whatever the stream, the samples of the audio parsers are its frames.    *)
(* Each AAC sample is a frame whose header is confirmed, under the          *)
(* description of its header, and each such header begins a sample or lies  *)
(* in one, but where the scan passes over a byte behind a header confirmed  *)
(* by half; each Dolby Digital sample is made of whole frames, with all     *)
(* their substreams in order, and of a regular stream only less than a      *)
(* sample is left at the end; each AC-4 sample is a frame behind a sync     *)
(* word, and a sync word is lost only behind a 0xAC of no sync word.        *)
THEOREM FramesAreDelivered == Spec => []FramesAreSamples
<1>1. Init => Paced /\ FrameInv
  BY Starts, FramesStart
<1>2. Paced /\ FrameInv /\ [Next]_vars => Paced' /\ FrameInv'
  BY Answers, FramesStay
<1>3. FrameInv => FramesAreSamples
  BY AacIsRight, DdIsRight, Ac4IsRight DEF FrameInv, FramesAreSamples
<1> QED BY <1>1, <1>2, <1>3, PTL DEF Spec
-----------------------------------------------------------------------------
(* HEVC: a unit so far has the NALs from one to another.  Its first slice   *)
(* has the type vcl, and nothing behind it ends a unit.                     *)
HSlice(i) == Hevc!Nal(i).t \in Hevc!Slices

HUnit(from, to, kept, vcl) ==
    /\ IsSeq(kept)
    /\ \A i \in 1..Len(kept) : kept[i] \in from..to /\ Hevc!Keeps(Hevc!Nal(kept[i]))
    /\ \A i \in from..to : Hevc!Keeps(Hevc!Nal(i)) => \E j \in 1..Len(kept) : kept[j] = i
    /\ vcl = Hevc!None => \A i \in from..to : ~HSlice(i)
    /\ vcl # Hevc!None => \E i \in from..to :
         /\ HSlice(i) /\ Hevc!Nal(i).t = vcl /\ \A j \in from..(i - 1) : ~HSlice(j)
         /\ \A j \in (i + 1)..to : ~Hevc!EndsUnit(Hevc!Nal(j))

HEnded(to, vcl) ==
    \/ to = Len(es.nals)
    \/ to < Len(es.nals) /\ vcl # Hevc!None /\ Hevc!EndsUnit(Hevc!Nal(to + 1))

LEMMA HevcSlices == Hevc!None \notin Hevc!Slices
BY DEF Hevc!None, Hevc!Slices, Hevc!Irap, Hevc!Bla, Hevc!Idr

(* A NAL more.                                                              *)
LEMMA HevcUnitGrows ==
    ASSUME NEW from \in Nat, NEW i \in Nat, from <= i, NEW kept, NEW vcl,
           HUnit(from, i - 1, kept, vcl),
           vcl # Hevc!None => ~Hevc!EndsUnit(Hevc!Nal(i)),
           NEW kept2, kept2 = (IF Hevc!Keeps(Hevc!Nal(i)) THEN Append(kept, i) ELSE kept),
           NEW vcl2, vcl2 = (IF HSlice(i) /\ vcl = Hevc!None THEN Hevc!Nal(i).t ELSE vcl)
    PROVE  HUnit(from, i, kept2, vcl2)
<1>0. IsSeq(kept) /\ Len(kept) \in Nat
  BY Appended DEF HUnit
<1>1. /\ IsSeq(kept2)
      /\ \A j \in 1..Len(kept2) : kept2[j] \in from..i /\ Hevc!Keeps(Hevc!Nal(kept2[j]))
      /\ \A j \in from..i : Hevc!Keeps(Hevc!Nal(j)) => \E l \in 1..Len(kept2) : kept2[l] = j
  <2>1. CASE Hevc!Keeps(Hevc!Nal(i))
    <3>1. kept2 = Append(kept, i)
      BY <2>1
    <3>2. /\ IsSeq(kept2) /\ Len(kept2) = Len(kept) + 1 /\ kept2[Len(kept) + 1] = i
          /\ \A j \in 1..Len(kept) : kept2[j] = kept[j]
      BY <1>0, <3>1, Appended
    <3>3. ASSUME NEW j \in 1..Len(kept2)
          PROVE  kept2[j] \in from..i /\ Hevc!Keeps(Hevc!Nal(kept2[j]))
      <4>1. CASE j = Len(kept) + 1
        <5>1. i \in from..i
          OBVIOUS
        <5> QED BY <2>1, <3>2, <4>1, <5>1
      <4>2. CASE j # Len(kept) + 1
        <5>1. j \in 1..Len(kept)
          BY <1>0, <3>2, <4>2
        <5>2. kept[j] \in from..(i - 1) /\ Hevc!Keeps(Hevc!Nal(kept[j]))
          BY <5>1 DEF HUnit
        <5>3. kept[j] \in from..i
          BY <5>2
        <5> QED BY <3>2, <5>1, <5>2, <5>3
      <4> QED BY <4>1, <4>2
    <3>4. ASSUME NEW j \in from..i, Hevc!Keeps(Hevc!Nal(j))
          PROVE  \E l \in 1..Len(kept2) : kept2[l] = j
      <4>1. CASE j = i
        <5>1. Len(kept) + 1 \in 1..Len(kept2)
          BY <1>0, <3>2
        <5> QED BY <3>2, <4>1, <5>1
      <4>2. CASE j # i
        <5>1. j \in from..(i - 1)
          BY <4>2
        <5>2. PICK l \in 1..Len(kept) : kept[l] = j
          BY <3>4, <5>1 DEF HUnit
        <5>3. l \in 1..Len(kept2)
          BY <1>0, <3>2
        <5> QED BY <3>2, <5>2, <5>3
      <4> QED BY <4>1, <4>2
    <3> QED BY <3>2, <3>3, <3>4
  <2>2. CASE ~Hevc!Keeps(Hevc!Nal(i))
    <3>1. kept2 = kept
      BY <2>2
    <3>2. ASSUME NEW j \in 1..Len(kept2)
          PROVE  kept2[j] \in from..i /\ Hevc!Keeps(Hevc!Nal(kept2[j]))
      <4>1. kept[j] \in from..(i - 1) /\ Hevc!Keeps(Hevc!Nal(kept[j]))
        BY <3>1 DEF HUnit
      <4>2. kept[j] \in from..i
        BY <4>1
      <4> QED BY <3>1, <4>1, <4>2
    <3>3. ASSUME NEW j \in from..i, Hevc!Keeps(Hevc!Nal(j))
          PROVE  \E l \in 1..Len(kept2) : kept2[l] = j
      <4>1. j # i
        BY <2>2, <3>3
      <4>2. j \in from..(i - 1)
        BY <4>1
      <4> QED BY <3>1, <3>3, <4>2 DEF HUnit
    <3> QED BY <1>0, <3>1, <3>2, <3>3
  <2> QED BY <2>1, <2>2
<1>2. /\ vcl2 = Hevc!None => \A j \in from..i : ~HSlice(j)
      /\ vcl2 # Hevc!None => \E f \in from..i :
           /\ HSlice(f) /\ Hevc!Nal(f).t = vcl2 /\ \A j \in from..(f - 1) : ~HSlice(j)
           /\ \A j \in (f + 1)..i : ~Hevc!EndsUnit(Hevc!Nal(j))
  <2>1. CASE vcl # Hevc!None
    <3>1. vcl2 = vcl
      BY <2>1
    <3>2. PICK f \in from..(i - 1) :
            /\ HSlice(f) /\ Hevc!Nal(f).t = vcl /\ \A j \in from..(f - 1) : ~HSlice(j)
            /\ \A j \in (f + 1)..(i - 1) : ~Hevc!EndsUnit(Hevc!Nal(j))
      BY <2>1 DEF HUnit
    <3>3. ASSUME NEW j \in (f + 1)..i PROVE ~Hevc!EndsUnit(Hevc!Nal(j))
      <4>1. j = i \/ j \in (f + 1)..(i - 1)
        OBVIOUS
      <4> QED BY <2>1, <3>2, <4>1
    <3>4. f \in from..i
      OBVIOUS
    <3> QED BY <2>1, <3>1, <3>2, <3>3, <3>4
  <2>2. CASE vcl = Hevc!None /\ HSlice(i)
    <3>1. vcl2 = Hevc!Nal(i).t /\ vcl2 # Hevc!None
      BY <2>2, HevcSlices DEF HSlice
    <3>2. \A j \in from..(i - 1) : ~HSlice(j)
      BY <2>2 DEF HUnit
    <3>3. \A j \in (i + 1)..i : ~Hevc!EndsUnit(Hevc!Nal(j))
      <4>1. (i + 1)..i = {}
        OBVIOUS
      <4> QED BY <4>1
    <3>4. i \in from..i
      OBVIOUS
    <3> QED BY <2>2, <3>1, <3>2, <3>3, <3>4
  <2>3. CASE vcl = Hevc!None /\ ~HSlice(i)
    <3>1. vcl2 = Hevc!None
      BY <2>3
    <3>2. ASSUME NEW j \in from..i PROVE ~HSlice(j)
      <4>1. j = i \/ j \in from..(i - 1)
        OBVIOUS
      <4> QED BY <2>3, <4>1 DEF HUnit
    <3> QED BY <3>1, <3>2
  <2> QED BY <2>1, <2>2, <2>3
<1> QED BY <1>1, <1>2 DEF HUnit

(* What the handling of a NAL keeps of it.                                  *)
HevcErrors == {"", "multiple descriptions", "buggy"}

LEMMA HevcHandles ==
    ASSUME NEW a, DOMAIN a = HevcFields, a.err = ""
    PROVE  LET c == Hevc!Take(a)
           IN  /\ DOMAIN c = HevcFields /\ c.err \in HevcErrors
               /\ \A f \in {"i", "auNum", "ticks", "info", "failed", "run", "deltas"} : c[f] = a[f]
               /\ c.vcl = (IF HSlice(a.i) /\ a.vcl = Hevc!None THEN Hevc!Nal(a.i).t ELSE a.vcl)
               /\ c.err = "" =>
                    c.kept = (IF Hevc!Keeps(Hevc!Nal(a.i)) THEN Append(a.kept, a.i) ELSE a.kept)
<1> DEFINE n == Hevc!Nal(a.i)
           v == IF n.t \in Hevc!Slices /\ a.vcl = Hevc!None THEN n.t ELSE a.vcl
           d == Hevc!Decoded(a.dec, n)
           b == [a EXCEPT !.dec = d, !.vcl = v]
           Left == {"i", "auNum", "ticks", "info", "failed", "run", "deltas"}
           Same(x, y) == \A f \in Left : x[f] = y[f]
           Before(x) == /\ DOMAIN x = HevcFields /\ x.err \in HevcErrors
                        /\ Same(x, a) /\ x.vcl = v /\ x.kept = a.kept
           After(x) == /\ DOMAIN x = HevcFields /\ x.err \in HevcErrors
                       /\ Same(x, a) /\ x.vcl = v
                       /\ x.err = "" =>
                            x.kept = (IF Hevc!Keeps(n) THEN Append(a.kept, a.i) ELSE a.kept)
<1>1. \/ Hevc!Take(a) = Hevc!Book(Hevc!StoreSet(b, n))
      \/ Hevc!Take(a) = Hevc!Book(Hevc!StoreEnhancement(b, n))
      \/ Hevc!Take(a) = Hevc!Book(b)
  BY Zenon DEF Hevc!Take
<1> HIDE DEF v, d
<1>2. Before(b)
  BY DEF HevcFields, HevcErrors
<1> HIDE DEF b
<1>n. n = Hevc!Nal(a.i)
  OBVIOUS
<1> HIDE DEF n
<1>3. Before(Hevc!StoreSet(b, n))
  <2> DEFINE c == Hevc!StoreSet(b, n)
  <2>1. \E s, w, e : /\ c = [b EXCEPT !.dsis = s, !.newSd = w, !.err = e]
                     /\ e \in {"multiple descriptions", b.err}
    BY DEF Hevc!StoreSet
  <2> HIDE DEF c
  <2>2. PICK s, w, e : /\ c = [b EXCEPT !.dsis = s, !.newSd = w, !.err = e]
                       /\ e \in {"multiple descriptions", b.err}
    BY <2>1
  <2>3. Before(c)
    BY <1>2, <2>2 DEF HevcFields, HevcErrors
  <2> QED BY <2>3 DEF c
<1>4. Before(Hevc!StoreEnhancement(b, n))
  <2> DEFINE c == Hevc!StoreEnhancement(b, n)
  <2>1. \/ c = b
        \/ \E s, e : /\ c = [b EXCEPT !.enh = s, !.err = e]
                     /\ e \in {"multiple descriptions", b.err}
    BY DEF Hevc!StoreEnhancement
  <2> HIDE DEF c
  <2>3. Before(c)
    BY <1>2, <2>1 DEF HevcFields, HevcErrors
  <2> QED BY <2>3 DEF c
<1>5. ASSUME NEW x, Before(x) PROVE After(Hevc!Book(x))
  <2>0. Hevc!Nal(x.i) = n /\ x.i = a.i
    BY <1>5, <1>n
  <2> DEFINE y == Hevc!Book(x)
  <2>1. CASE ~Hevc!Keeps(n) \/ x.err # ""
    <3>1. y = x
      BY <2>0, <2>1 DEF Hevc!Book
    <3> HIDE DEF y
    <3> QED BY <1>5, <2>1, <3>1 DEF y
  <2>2. CASE Hevc!Keeps(n) /\ x.err = ""
    <3> DEFINE e == IF Len(x.kept) + 1 >= MaxHevcNals THEN "buggy" ELSE ""
    <3>1. y = [x EXCEPT !.kept = Append(@, a.i), !.err = e]
      BY <2>0, <2>2 DEF Hevc!Book
    <3>2. e \in HevcErrors
      BY DEF HevcErrors
    <3> HIDE DEF e, y
    <3>3. After(y)
      BY <1>5, <2>2, <3>1, <3>2 DEF HevcFields
    <3> QED BY <3>3 DEF y
  <2> QED BY <2>1, <2>2
<1>6. After(Hevc!Take(a))
  <2> HIDE DEF Before, After
  <2>1. After(Hevc!Book(b)) /\ After(Hevc!Book(Hevc!StoreSet(b, n)))
    BY <1>2, <1>3, <1>5
  <2>2. After(Hevc!Book(Hevc!StoreEnhancement(b, n)))
    BY <1>4, <1>5
  <2> QED BY <1>1, <2>1, <2>2
<1> QED BY <1>6, <1>n DEF v, HSlice

LEMMA HevcEarliest ==
    ASSUME NEW S, S \subseteq Nat, NEW f \in S, \A j \in S : f <= j
    PROVE  Hevc!Earliest(S) = f
<1>1. \E i \in S : \A j \in S : i <= j
  OBVIOUS
<1>2. Hevc!Earliest(S) \in S /\ \A j \in S : Hevc!Earliest(S) <= j
  BY <1>1 DEF Hevc!Earliest
<1> DEFINE e == Hevc!Earliest(S)
<1> HIDE DEF e
<1>3. e \in S /\ e <= f /\ f <= e /\ e \in Nat /\ f \in Nat
  BY <1>2 DEF e
<1>4. e = f
  BY <1>3
<1> QED BY <1>4 DEF e

(* A complete unit is an access unit.                                       *)
HSlices(from, to) == {i \in from..to : HSlice(i)}

(* The first slice of a unit is the first slice of its only picture.        *)
LEMMA HevcUnitIsPicture ==
    ASSUME Hevc!WholePictures, Len(es.nals) \in Nat,
           NEW from \in 1..Len(es.nals), NEW to \in from..Len(es.nals),
           from = 1 \/ Hevc!EndsUnit(Hevc!Nal(from)),
           NEW kept, NEW vcl, HUnit(from, to, kept, vcl), HEnded(to, vcl)
    PROVE  LET S == HSlices(from, to)
               f == Hevc!Earliest(S)
           IN  /\ S # {} /\ f \in S
               /\ {i \in S : Hevc!Nal(i).first} = {f}
               /\ Hevc!Nal(f).t = vcl
               /\ to < Len(es.nals) =>
                    /\ Hevc!Nal(to).t \notin {"aud", "sei"}
                    /\ Hevc!SetsAfterDelimiter => Hevc!Nal(to).t \notin {"vps", "sps", "pps"}
<1> DEFINE S == HSlices(from, to)
           n == Len(es.nals)
<1>0. from \in Nat \ {0} /\ to \in Nat /\ n \in Nat /\ from <= to /\ to <= n
  OBVIOUS
<1>1. vcl # Hevc!None
  <2> SUFFICES ASSUME vcl = Hevc!None PROVE FALSE
    OBVIOUS
  <2>1. to = n /\ \A i \in from..n : ~HSlice(i)
    BY DEF HUnit, HEnded
  <2>2. CASE from = 1
    BY <2>1, <2>2 DEF Hevc!WholePictures, HSlice
  <2>3. CASE Hevc!EndsUnit(Hevc!Nal(from))
    <3>1. from \in from..n /\ from \in 1..n
      BY <1>0
    <3>2. Hevc!Nal(from).t \in {"aud", "sei"}
      BY <2>1, <2>3, <3>1 DEF Hevc!EndsUnit, HSlice
    <3>3. \E j \in from..n : Hevc!Nal(j).t \in Hevc!Slices
      BY <3>1, <3>2 DEF Hevc!WholePictures
    <3> QED BY <2>1, <3>3 DEF HSlice
  <2> QED BY <2>2, <2>3
<1>2. PICK f \in from..to :
        /\ HSlice(f) /\ Hevc!Nal(f).t = vcl /\ \A j \in from..(f - 1) : ~HSlice(j)
        /\ \A j \in (f + 1)..to : ~Hevc!EndsUnit(Hevc!Nal(j))
  BY <1>1 DEF HUnit
<1>3. f \in Nat /\ from <= f /\ f <= to /\ f \in 1..n
  BY <1>0
<1>4. f \in S /\ S \subseteq Nat /\ \A j \in S : f <= j
  <2>1. f \in S /\ S \subseteq Nat
    BY <1>0, <1>2 DEF HSlices
  <2>2. ASSUME NEW j \in S, ~(f <= j) PROVE FALSE
    <3>1. j \in from..to /\ HSlice(j)
      BY DEF HSlices
    <3>2. j \in from..(f - 1)
      BY <1>3, <2>2, <3>1
    <3> QED BY <1>2, <3>1, <3>2
  <2> QED BY <2>1, <2>2
<1> HIDE DEF S
<1>5. Hevc!Earliest(S) = f
  BY <1>4, HevcEarliest
<1>6. Hevc!Nal(f).first
  <2> SUFFICES ASSUME ~Hevc!Nal(f).first PROVE FALSE
    OBVIOUS
  <2>1. PICK j \in 1..(f - 1) :
          HSlice(j) /\ \A m \in j..f : Hevc!Nal(m).t \notin {"aud", "sei"}
    BY <1>2, <1>3 DEF Hevc!WholePictures, HSlice
  <2>2. j \in Nat /\ j < f /\ j >= 1
    BY <1>3
  <2>3. j < from
    <3> SUFFICES ASSUME ~(j < from) PROVE FALSE
      OBVIOUS
    <3>1. j \in from..(f - 1)
      BY <1>0, <1>3, <2>2
    <3> QED BY <1>2, <2>1, <3>1
  <2>4. from # 1 /\ from \in j..f
    BY <1>0, <1>3, <2>2, <2>3
  <2>5. HSlice(from) /\ Hevc!Nal(from).first
    BY <2>1, <2>4 DEF Hevc!EndsUnit, HSlice
  <2>6. CASE from = f
    BY <2>5, <2>6
  <2>7. CASE from # f
    <3>1. from \in from..(f - 1)
      BY <1>0, <1>3, <2>7
    <3> QED BY <1>2, <2>5, <3>1
  <2> QED BY <2>6, <2>7
<1>7. {i \in S : Hevc!Nal(i).first} = {f}
  <2>1. ASSUME NEW i \in S, Hevc!Nal(i).first PROVE i = f
    <3> SUFFICES ASSUME i # f PROVE FALSE
      OBVIOUS
    <3>1. i \in from..to /\ HSlice(i) /\ f <= i
      BY <1>4 DEF S, HSlices
    <3>2. i \in (f + 1)..to
      BY <1>3, <3>1
    <3>3. Hevc!EndsUnit(Hevc!Nal(i))
      BY <2>1, <3>1 DEF Hevc!EndsUnit, HSlice
    <3> QED BY <1>2, <3>2, <3>3
  <2> QED BY <1>4, <1>6, <2>1
<1>8. Hevc!Nal(to).t \notin {"aud", "sei"}
  <2> SUFFICES ASSUME Hevc!Nal(to).t \in {"aud", "sei"} PROVE FALSE
    OBVIOUS
  <2>1. to # f
    BY <1>2 DEF HSlice, Hevc!Slices, Hevc!Irap, Hevc!Bla, Hevc!Idr
  <2>2. to \in (f + 1)..to
    BY <1>0, <1>3, <2>1
  <2> QED BY <1>2, <2>2 DEF Hevc!EndsUnit
<1>9. Hevc!SetsAfterDelimiter => Hevc!Nal(to).t \notin {"vps", "sps", "pps"}
  <2> SUFFICES ASSUME Hevc!SetsAfterDelimiter, Hevc!Nal(to).t \in {"vps", "sps", "pps"} PROVE FALSE
    OBVIOUS
  <2>1. to # f
    BY <1>2 DEF HSlice, Hevc!Slices, Hevc!Irap, Hevc!Bla, Hevc!Idr
  <2>2. f < to /\ to \in 1..n
    BY <1>0, <1>3, <2>1
  <2>3. PICK m \in f..to : Hevc!Nal(m).t \in {"aud", "sei"}
    BY <1>2, <1>3, <2>2 DEF Hevc!SetsAfterDelimiter, HSlice
  <2>4. m # f
    BY <1>2, <2>3 DEF HSlice, Hevc!Slices, Hevc!Irap, Hevc!Bla, Hevc!Idr
  <2>5. m \in (f + 1)..to
    BY <1>0, <1>3, <2>4
  <2> QED BY <1>2, <2>3, <2>5 DEF Hevc!EndsUnit
<1> QED BY <1>2, <1>4, <1>5, <1>7, <1>8, <1>9 DEF S
-----------------------------------------------------------------------------
(* Where the unit of a sample begins, and the one that is open.             *)
UBegin(k) == (IF k = 1 THEN 0 ELSE out[k - 1].end) + 1
UFrom == (IF out = << >> THEN 0 ELSE out[Len(out)].end) + 1

HSample(k, v) ==
    /\ out[k].pos = k /\ out[k].size = Len(p.info[k]) /\ out[k].sync = (v \in Hevc!Irap)
    /\ UBegin(k) \in Nat /\ out[k].end \in UBegin(k)..Len(es.nals)
    /\ HUnit(UBegin(k), out[k].end, p.info[k], v) /\ HEnded(out[k].end, v)

(* What is collected is the unit behind the last sample, unless one was     *)
(* passed over.                                                             *)
HevcAu ==
    /\ p.i \in 1..(Len(es.nals) + 1) /\ p.run \in {"idle", "unit", "end"}
    /\ p.err \in HevcErrors /\ status \in {"open", "eoes", "multiple descriptions", "buggy"}
    /\ p.run # "end" => p.err = ""
    /\ p.run = "unit" => p.i <= Len(es.nals)
    /\ IsSeq(p.info) /\ Len(p.info) = p.auNum /\ IsSeq(p.deltas) /\ Len(p.deltas) = p.auNum
    /\ p.failed = 0 =>
         /\ \A k \in 1..Len(out) : \E v : HSample(k, v)
         /\ p.run = "idle" => p.i = UFrom
         /\ p.run = "unit" =>
              /\ UFrom <= p.i /\ HUnit(UFrom, p.i - 1, p.kept, p.vcl)
              /\ p.vcl # Hevc!None => ~Hevc!EndsUnit(Hevc!Nal(p.i))
         /\ p.run = "end" /\ p.err = "" =>
              /\ UFrom < p.i /\ HUnit(UFrom, p.i - 1, p.kept, p.vcl) /\ HEnded(p.i - 1, p.vcl)

(* The samples there are do not change.                                     *)
LEMMA HevcSamplesStay ==
    ASSUME es' = es, NEW l \in Nat,
           \A k \in 1..l : \E v : HSample(k, v),
           \A k \in 1..l : out'[k] = out[k] /\ p'.info[k] = p.info[k]
    PROVE  \A k \in 1..l : \E v : HSample(k, v)'
<1> SUFFICES ASSUME NEW k \in 1..l PROVE \E v : HSample(k, v)'
  OBVIOUS
<1>1. PICK v : HSample(k, v)
  OBVIOUS
<1>2. out'[k] = out[k] /\ p'.info[k] = p.info[k]
  OBVIOUS
<1>3. UBegin(k)' = UBegin(k)
  <2>1. k = 1 \/ k - 1 \in 1..l
    OBVIOUS
  <2> QED BY <2>1 DEF UBegin
<1>4. out'[k].end = out[k].end /\ UBegin(k)' = UBegin(k) /\ es'.nals = es.nals /\ es'.hev1 = es.hev1
  BY <1>2, <1>3
<1>5. HUnit(UBegin(k), out[k].end, p.info[k], v)'
  <2>1. HUnit(UBegin(k), out[k].end, p.info[k], v)
    BY <1>1 DEF HSample
  <2> QED BY <1>2, <1>4, <2>1 DEF HUnit, HSlice, Hevc!Nal, Hevc!Keeps, Hevc!EndsUnit
<1>6. HEnded(out[k].end, v)'
  BY <1>1, <1>2, <1>4 DEF HSample, HEnded, Hevc!Nal, Hevc!EndsUnit
<1>7. HSample(k, v)'
  BY <1>1, <1>2, <1>4, <1>5, <1>6 DEF HSample
<1> QED BY <1>7

(* HEVC: the units hold where the parser starts, and one step keeps them.   *)
LEMMA HevcAuStarts ==
    ASSUME Hevc!Init PROVE HevcAu
<1>1. PICK s \in HevcStreams : Hevc!Start(s)
  BY DEF Hevc!Init
<1>2. /\ out = << >> /\ status = "open" /\ p.i = 1 /\ p.run = "idle" /\ p.err = "" /\ p.auNum = 0
      /\ p.info = << >> /\ p.deltas = << >>
  BY <1>1 DEF Hevc!Start
<1>3. Len(es.nals) \in Nat
  BY <1>1, StreamsAssumption DEF Hevc!Start, Hevc!IsStream
<1>4. IsSeq(p.info) /\ Len(p.info) = p.auNum /\ IsSeq(p.deltas) /\ Len(p.deltas) = p.auNum
  <2>1. Len(<< >>) = 0
    OBVIOUS
  <2> QED BY <1>2, <2>1, EmptyIsSeq
<1>5. p.i \in 1..(Len(es.nals) + 1) /\ p.i = UFrom
  <2>1. p.i = 1
    BY <1>2
  <2>2. UFrom = 0 + 1
    BY <1>2 DEF UFrom
  <2> QED BY <1>3, <2>1, <2>2
<1>6. \A k \in 1..Len(out) : FALSE
  <2>1. Len(<< >>) = 0
    OBVIOUS
  <2>2. 1..0 = {}
    OBVIOUS
  <2> QED BY <1>2, <2>1, <2>2
<1>7. p.run \in {"idle", "unit", "end"} /\ p.err \in HevcErrors /\ p.run # "end" /\ p.run # "unit"
  BY <1>2 DEF HevcErrors
<1> QED BY <1>2, <1>4, <1>5, <1>6, <1>7 DEF HevcAu

LEMMA HevcAuCalls ==
    ASSUME HevcPace, HevcAu, Hevc!GetSample
    PROVE  HevcAu'
<1>1. /\ out' = out /\ status' = status /\ es' = es /\ p.run = "idle" /\ p.i <= Len(es.nals)
      /\ p' = [p EXCEPT !.kept = << >>, !.newSd = FALSE, !.vcl = Hevc!None, !.run = "unit"]
  BY DEF Hevc!GetSample
<1>2. /\ p'.run = "unit" /\ p'.kept = << >> /\ p'.vcl = Hevc!None
      /\ \A f \in HevcFields \ {"kept", "newSd", "vcl", "run"} : p'[f] = p[f]
  BY <1>1 DEF HevcPace, HevcFields
<1>3. /\ p'.i = p.i /\ p'.err = p.err /\ p'.info = p.info /\ p'.deltas = p.deltas
      /\ p'.auNum = p.auNum /\ p'.failed = p.failed
  BY <1>2 DEF HevcFields
<1>4. ASSUME p'.failed = 0
      PROVE  /\ \A k \in 1..Len(out') : \E v : HSample(k, v)'
             /\ UFrom' <= p'.i /\ HUnit(UFrom, p.i - 1, p.kept, p.vcl)'
  <2>1. \A k \in 1..Len(out) : \E v : HSample(k, v)
    BY <1>3, <1>4 DEF HevcAu
  <2>2. Len(out) \in Nat
    BY Appended DEF HevcPace
  <2>3. \A k \in 1..Len(out') : \E v : HSample(k, v)'
    BY <1>1, <1>3, <2>1, <2>2, HevcSamplesStay
  <2>4. UFrom' = UFrom /\ p.i = UFrom /\ p.i \in Nat
    <3>1. UFrom' = UFrom
      BY <1>1 DEF UFrom
    <3>2. p.i = UFrom
      BY <1>1, <1>3, <1>4 DEF HevcAu
    <3>3. Len(es.nals) \in Nat /\ p.i \in 1..(Len(es.nals) + 1)
      BY StreamsAssumption DEF HevcPace, HevcAu, Hevc!IsStream
    <3>4. p.i \in Nat
      BY <3>3
    <3> QED BY <3>1, <3>2, <3>4
  <2>5. UFrom..(p.i - 1) = {} /\ Len(<< >>) = 0 /\ 1..0 = {}
    BY <2>4
  <2>6. HUnit(UFrom, p.i - 1, p.kept, p.vcl)'
    BY <1>2, <1>3, <2>4, <2>5, EmptyIsSeq DEF HUnit
  <2> QED BY <1>3, <2>3, <2>4, <2>6
<1>5. p'.i \in 1..(Len(es'.nals) + 1) /\ p'.i <= Len(es'.nals)
  BY <1>1, <1>3 DEF HevcAu
<1>6. p'.err = ""
  BY <1>1, <1>3 DEF HevcAu
<1>7. status' \in {"open", "eoes", "multiple descriptions", "buggy"}
  BY <1>1 DEF HevcAu
<1>8. IsSeq(p'.info) /\ Len(p'.info) = p'.auNum /\ IsSeq(p'.deltas) /\ Len(p'.deltas) = p'.auNum
  BY <1>3 DEF HevcAu
<1> QED BY <1>2, <1>4, <1>5, <1>6, <1>7, <1>8 DEF HevcAu, HevcErrors

LEMMA HevcFrom ==
    ASSUME IsSeq(out), \A k \in 1..Len(out) : \E v : HSample(k, v)
    PROVE  UFrom \in Nat
<1>1. CASE out = << >>
  BY <1>1 DEF UFrom
<1>2. CASE out # << >>
  <2>1. Len(out) \in 1..Len(out)
    BY <1>2, Appended
  <2>2. PICK v : HSample(Len(out), v)
    BY <2>1
  <2> DEFINE h == UBegin(Len(out))
             e == out[Len(out)].end
             m == Len(es.nals)
  <2>3. h \in Nat /\ e \in h..m
    BY <2>2 DEF HSample
  <2>4. UFrom = e + 1
    BY <1>2 DEF UFrom
  <2> HIDE DEF h, e, m
  <2>5. e \in Nat
    BY <2>3
  <2> QED BY <2>4, <2>5
<1> QED BY <1>1, <1>2

LEMMA HevcAuTakes ==
    ASSUME HevcPace, HevcAu, Hevc!TakeNal
    PROVE  HevcAu'
<1> DEFINE b == Hevc!Take(p)
           n == Hevc!Nal(p.i)
           m == Len(es.nals)
<1>1. /\ out' = out /\ status' = status /\ es' = es /\ p.run = "unit" /\ p.err = ""
      /\ p.i \in 1..m /\ m \in Nat
  <2>1. p.run = "unit" /\ out' = out /\ status' = status /\ es' = es
    BY DEF Hevc!TakeNal
  <2>2. m \in Nat
    BY StreamsAssumption DEF HevcPace, Hevc!IsStream
  <2>3. p.i \in 1..(m + 1) /\ p.i <= m
    BY <2>1 DEF HevcAu
  <2>6. p.err = ""
    BY <2>1 DEF HevcAu
  <2> HIDE DEF m
  <2>4. p.i \in Int /\ 1 <= p.i
    BY <2>2, <2>3
  <2>5. p.i \in 1..m
    BY <2>2, <2>3, <2>4
  <2> QED BY <2>1, <2>2, <2>5, <2>6
<1>2. /\ DOMAIN b = HevcFields /\ b.err \in HevcErrors
      /\ \A f \in {"i", "auNum", "ticks", "info", "failed", "run", "deltas"} : b[f] = p[f]
      /\ b.vcl = (IF HSlice(p.i) /\ p.vcl = Hevc!None THEN n.t ELSE p.vcl)
      /\ b.err = "" => b.kept = (IF Hevc!Keeps(n) THEN Append(p.kept, p.i) ELSE p.kept)
  BY <1>1, HevcHandles DEF HevcPace
<1> DEFINE over == b.vcl # Hevc!None /\ Hevc!EndsUnit(Hevc!Nal(p.i + 1))
<1>3. \/ b.err # "" /\ p' = [b EXCEPT !.run = "end"]
      \/ b.err = "" /\ p.i = m /\ p' = [b EXCEPT !.i = @ + 1, !.run = "end"]
      \/ b.err = "" /\ p.i # m /\ p' = [b EXCEPT !.i = @ + 1, !.run = IF over THEN "end" ELSE @]
  <2>1. p' = CASE b.err # "" -> [b EXCEPT !.run = "end"]
               [] b.err = "" /\ p.i = m -> [b EXCEPT !.i = @ + 1, !.run = "end"]
               [] OTHER -> [b EXCEPT !.i = @ + 1, !.run = IF over THEN "end" ELSE @]
    BY DEF Hevc!TakeNal
  <2> HIDE DEF b, over, m
  <2>2. CASE b.err # ""
    BY <2>1, <2>2, Zenon
  <2>3. CASE b.err = "" /\ p.i = m
    BY <2>1, <2>3, Zenon
  <2>4. CASE b.err = "" /\ p.i # m
    BY <2>1, <2>4, Zenon
  <2> QED BY <2>2, <2>3, <2>4
<1> HIDE DEF b
<1> HIDE DEF over, m, n
<1>4. /\ p'.auNum = p.auNum /\ p'.info = p.info /\ p'.failed = p.failed /\ p'.deltas = p.deltas
      /\ p'.kept = b.kept /\ p'.vcl = b.vcl /\ p'.err = b.err
      /\ \/ b.err # "" /\ p'.i = p.i /\ p'.run = "end"
         \/ b.err = "" /\ p.i = m /\ p'.i = p.i + 1 /\ p'.run = "end"
         \/ b.err = "" /\ p.i # m /\ over /\ p'.i = p.i + 1 /\ p'.run = "end"
         \/ b.err = "" /\ p.i # m /\ ~over /\ p'.i = p.i + 1 /\ p'.run = "unit"
  <2>0. /\ b.i = p.i /\ b.run = "unit" /\ b.auNum = p.auNum /\ b.info = p.info
        /\ b.failed = p.failed /\ b.deltas = p.deltas /\ DOMAIN b = HevcFields
    BY <1>1, <1>2
  <2>1. CASE b.err # "" /\ p' = [b EXCEPT !.run = "end"]
    BY <2>0, <2>1 DEF HevcFields
  <2>2. CASE b.err = "" /\ p.i = m /\ p' = [b EXCEPT !.i = @ + 1, !.run = "end"]
    BY <2>0, <2>2 DEF HevcFields
  <2>3. CASE b.err = "" /\ p.i # m /\ p' = [b EXCEPT !.i = @ + 1, !.run = IF over THEN "end" ELSE @]
    <3>1. \E r : p' = [b EXCEPT !.i = @ + 1, !.run = r] /\ r = (IF over THEN "end" ELSE b.run)
      BY <2>3
    <3>2. p'.run = (IF over THEN "end" ELSE b.run) /\ p'.i = b.i + 1
          /\ \A f \in HevcFields \ {"i", "run"} : p'[f] = b[f]
      BY <2>0, <3>1 DEF HevcFields
    <3> QED BY <2>0, <2>3, <3>2 DEF HevcFields
  <2> QED BY <1>3, <2>1, <2>2, <2>3
<1>r. p.i \in 1..m /\ m \in Nat
  BY <1>1
<1>i. p.i \in Int /\ 1 <= p.i /\ p.i <= m
  BY <1>r
<1>5. ASSUME p'.failed = 0
      PROVE  \A k \in 1..Len(out') : \E v : HSample(k, v)'
  <2>1. \A k \in 1..Len(out) : \E v : HSample(k, v)
    BY <1>4, <1>5 DEF HevcAu
  <2>2. Len(out) \in Nat
    BY Appended DEF HevcPace
  <2> QED BY <1>1, <1>4, <2>1, <2>2, HevcSamplesStay
<1>6. ASSUME p'.failed = 0, b.err = ""
      PROVE  /\ UFrom' = UFrom /\ UFrom < p'.i /\ HUnit(UFrom, p.i, b.kept, b.vcl)
             /\ HUnit(UFrom, p.i - 1, p.kept, p.vcl)'
  <2>1. UFrom <= p.i /\ HUnit(UFrom, p.i - 1, p.kept, p.vcl)
        /\ (p.vcl # Hevc!None => ~Hevc!EndsUnit(n))
    BY <1>1, <1>4, <1>6 DEF HevcAu, n
  <2>2. UFrom \in Nat
    <3>1. \A k \in 1..Len(out) : \E v : HSample(k, v)
      BY <1>4, <1>6 DEF HevcAu
    <3> QED BY <3>1, HevcFrom DEF HevcPace
  <2>a. UFrom <= p.i
    BY <2>1
  <2>3. p.i \in Nat
    BY <1>i
  <2>4. HUnit(UFrom, p.i, b.kept, b.vcl)
    <3>1. b.kept = (IF Hevc!Keeps(n) THEN Append(p.kept, p.i) ELSE p.kept)
      BY <1>2, <1>6
    <3>2. b.vcl = (IF HSlice(p.i) /\ p.vcl = Hevc!None THEN n.t ELSE p.vcl)
      BY <1>2
    <3> QED BY <2>1, <2>2, <2>3, <3>1, <3>2, HevcUnitGrows DEF n
  <2>5. UFrom' = UFrom
    BY <1>1 DEF UFrom
  <2>6. p'.i = p.i + 1 /\ UFrom < p'.i /\ p'.i - 1 = p.i
    <3>1. p'.i = p.i + 1
      BY <1>4, <1>6
    <3> QED BY <2>2, <2>3, <2>a, <3>1
  <2>7. HUnit(UFrom, p.i - 1, p.kept, p.vcl)'
    <3>1. p'.kept = b.kept /\ p'.vcl = b.vcl /\ es' = es
      BY <1>1, <1>4
    <3>2. HUnit(UFrom, p.i - 1, p.kept, p.vcl)' = HUnit(UFrom, p.i, b.kept, b.vcl)
      BY <2>5, <2>6, <3>1 DEF HUnit, HSlice, Hevc!Nal, Hevc!Keeps, Hevc!EndsUnit
    <3> QED BY <2>4, <3>2
  <2> QED BY <2>4, <2>5, <2>6, <2>7
<1>7. p'.i \in 1..(Len(es'.nals) + 1) /\ (p'.run = "unit" => p'.i <= Len(es'.nals))
  <2>1. Len(es'.nals) = m
    BY <1>1 DEF m
  <2>2. ASSUME p'.i = p.i \/ p'.i = p.i + 1 PROVE p'.i \in 1..(Len(es'.nals) + 1)
    BY <1>r, <1>i, <2>1, <2>2
  <2>3. ASSUME p'.i = p.i + 1, p.i # m PROVE p'.i <= Len(es'.nals)
    BY <1>r, <1>i, <2>1, <2>3
  <2> QED BY <1>4, <2>2, <2>3
<1>8. p'.run \in {"idle", "unit", "end"} /\ p'.err \in HevcErrors /\ p'.run # "idle"
      /\ (p'.run # "end" => p'.err = "")
  BY <1>2, <1>4
<1>9. /\ status' \in {"open", "eoes", "multiple descriptions", "buggy"}
      /\ IsSeq(p'.info) /\ Len(p'.info) = p'.auNum /\ IsSeq(p'.deltas) /\ Len(p'.deltas) = p'.auNum
  BY <1>1, <1>4 DEF HevcAu
<1>10. ASSUME p'.failed = 0, p'.run = "unit"
       PROVE  /\ UFrom' <= p'.i /\ HUnit(UFrom, p.i - 1, p.kept, p.vcl)'
              /\ p'.vcl # Hevc!None => ~Hevc!EndsUnit(Hevc!Nal(p.i))'
  <2>1. b.err = "" /\ ~over /\ p'.i = p.i + 1
    BY <1>4, <1>10
  <2>2. Hevc!EndsUnit(Hevc!Nal(p.i))' = Hevc!EndsUnit(Hevc!Nal(p.i + 1))
    BY <1>1, <2>1 DEF Hevc!EndsUnit, Hevc!Nal
  <2>3. UFrom' = UFrom /\ UFrom < p'.i /\ HUnit(UFrom, p.i - 1, p.kept, p.vcl)'
    BY <1>6, <1>10, <2>1
  <2>4. UFrom \in Nat
    <3>1. \A k \in 1..Len(out) : \E v : HSample(k, v)
      BY <1>4, <1>10 DEF HevcAu
    <3> QED BY <3>1, HevcFrom DEF HevcPace
  <2>5. UFrom' <= p'.i
    <3>1. p'.i = p.i + 1 /\ UFrom < p'.i /\ UFrom' = UFrom
      BY <2>1, <2>3
    <3> QED BY <1>i, <2>4, <3>1
  <2> QED BY <1>4, <2>1, <2>2, <2>3, <2>5 DEF over
<1>11. ASSUME p'.failed = 0, p'.run = "end", p'.err = ""
       PROVE  /\ UFrom' < p'.i /\ HUnit(UFrom, p.i - 1, p.kept, p.vcl)' /\ HEnded(p.i - 1, p.vcl)'
  <2>1. b.err = "" /\ p'.i = p.i + 1 /\ p'.vcl = b.vcl /\ (p.i = m \/ over)
    BY <1>4, <1>11
  <2>2. UFrom' = UFrom /\ UFrom < p'.i /\ HUnit(UFrom, p.i - 1, p.kept, p.vcl)'
    BY <1>6, <1>11, <2>1
  <2>3. p'.i - 1 = p.i
    <3>1. p'.i = p.i + 1
      BY <2>1
    <3> QED BY <1>i, <3>1
  <2>4. HEnded(p.i - 1, p.vcl)'
    <3>1. HEnded(p.i, b.vcl)
      <4>1. CASE p.i = m
        BY <4>1 DEF HEnded, m
      <4>2. CASE p.i # m
        <5>1. p.i < m
          BY <1>i, <1>r, <4>2
        <5> QED BY <2>1, <4>2, <5>1 DEF HEnded, over, m
      <4> QED BY <4>1, <4>2
    <3>2. HEnded(p.i - 1, p.vcl)' = HEnded(p.i, b.vcl)
      BY <1>1, <2>1, <2>3 DEF HEnded, Hevc!Nal, Hevc!EndsUnit
    <3> QED BY <3>1, <3>2
  <2> QED BY <2>2, <2>4
<1> QED BY <1>5, <1>7, <1>8, <1>9, <1>10, <1>11 DEF HevcAu

LEMMA HevcAuDelivers ==
    ASSUME HevcPace, HevcAu, Hevc!DeliverSample
    PROVE  HevcAu'
<1> DEFINE x == Hevc!Sample
           c == Hevc!Configured(p.dec)
<1>n. PICK n : n = Len(out)
  OBVIOUS
<1>y. PICK y : y = p.vcl
  OBVIOUS
<1>1. p.run = "end" /\ Hevc!Outcome = "ok" /\ es' = es /\ status' = status
      /\ out' = IF c THEN Append(out, x) ELSE out
  BY DEF Hevc!DeliverSample
<1>2. p.err = ""
  <2>1. p.err # "" => Hevc!Outcome = p.err
    BY Zenon DEF Hevc!Outcome
  <2> QED BY <1>1, <2>1 DEF HevcAu, HevcErrors
<1>3. /\ p'.run = "idle" /\ p'.auNum = p.auNum + 1 /\ p'.info = Append(p.info, p.kept)
      /\ p'.deltas = Append(p.deltas, x.cts - x.dts) /\ p'.err = p.err /\ p'.i = p.i
      /\ p'.failed = IF c THEN p.failed ELSE p.failed + 1
  <2>1. \E d, t, s, f, l, r :
          /\ p' = [p EXCEPT !.run = "idle", !.auNum = @ + 1, !.ticks = t, !.dec = d,
                            !.deltas = l, !.info = r, !.failed = f, !.dsis = s]
          /\ f = IF c THEN p.failed ELSE p.failed + 1
          /\ l = Append(p.deltas, x.cts - x.dts)
          /\ r = Append(p.info, p.kept)
    BY DEF Hevc!DeliverSample
  <2> HIDE DEF x, c
  <2> QED BY <2>1 DEF HevcPace, HevcFields
<1>4. /\ IsSeq(out) /\ n \in Nat /\ p.auNum \in Nat /\ p.failed \in Nat /\ p.auNum = n + p.failed
      /\ IsSeq(p.info) /\ Len(p.info) = p.auNum /\ IsSeq(p.deltas) /\ Len(p.deltas) = p.auNum
  BY <1>n, Appended DEF HevcPace, HevcAu, Regularly
<1>5. /\ x.sync = (p.vcl \in Hevc!Irap) /\ x.size = Len(p.kept) /\ x.pos = Len(p.info) + 1
      /\ x.end = p.i - 1
  BY DEF Hevc!Sample
<1>6. /\ IsSeq(p'.info) /\ Len(p'.info) = p'.auNum /\ IsSeq(p'.deltas) /\ Len(p'.deltas) = p'.auNum
      /\ p'.info[Len(p.info) + 1] = p.kept /\ \A k \in 1..Len(p.info) : p'.info[k] = p.info[k]
  <2>1. \A s, e : IsSeq(s) =>
          /\ IsSeq(Append(s, e)) /\ Len(Append(s, e)) = Len(s) + 1
          /\ Append(s, e)[Len(s) + 1] = e /\ \A i \in 1..Len(s) : Append(s, e)[i] = s[i]
    BY Appended
  <2>2. p'.info = Append(p.info, p.kept) /\ p'.auNum = p.auNum + 1
    BY <1>3
  <2>3. IsSeq(p'.info) /\ Len(p'.info) = p'.auNum
    BY <1>4, <2>1, <2>2
  <2>4. p'.info[Len(p.info) + 1] = p.kept /\ \A k \in 1..Len(p.info) : p'.info[k] = p.info[k]
    BY <1>4, <2>1, <2>2
  <2>5. IsSeq(p'.deltas) /\ Len(p'.deltas) = p'.auNum
    <3>1. \E z : p'.deltas = Append(p.deltas, z)
      BY <1>3
    <3> QED BY <1>4, <2>1, <2>2, <3>1
  <2> QED BY <2>3, <2>4, <2>5
<1>7. p'.err = "" /\ p'.run = "idle" /\ p'.i \in 1..(Len(es'.nals) + 1)
      /\ status' \in {"open", "eoes", "multiple descriptions", "buggy"}
  BY <1>1, <1>2, <1>3 DEF HevcAu
<1> HIDE DEF x, c
<1>8. ASSUME p'.failed = 0
      PROVE  /\ \A k \in 1..Len(out') : \E v : HSample(k, v)'
             /\ p'.i = UFrom'
  <2>1. c /\ p.failed = 0
    BY <1>3, <1>4, <1>8
  <2>2. /\ out' = Append(out, x) /\ Len(out') = n + 1 /\ out'[n + 1] = x /\ out' # << >>
        /\ \A k \in 1..n : out'[k] = out[k]
    BY <1>1, <1>4, <1>n, <2>1, Appended
  <2>3. n = Len(p.info)
    BY <1>4, <2>1
  <2>4. /\ \A k \in 1..n : \E v : HSample(k, v)
        /\ UFrom < p.i /\ HUnit(UFrom, p.i - 1, p.kept, p.vcl) /\ HEnded(p.i - 1, p.vcl)
    BY <1>1, <1>2, <1>n, <2>1 DEF HevcAu
  <2>5. UFrom \in Nat
    BY <1>4, <1>n, <2>4, HevcFrom
  <2>6. \A k \in 1..n : \E v : HSample(k, v)'
    BY <1>1, <1>4, <1>6, <2>2, <2>3, <2>4, HevcSamplesStay
  <2>7. UBegin(n + 1)' = UFrom
    <3>1. CASE n = 0
      <4>1. out = << >> /\ n + 1 = 1
        <5>1. out = << >>
          BY <1>4, <1>n, <3>1, Appended
        <5>2. n + 1 = 1
          BY <3>1
        <5> QED BY <5>1, <5>2
      <4> QED BY <4>1 DEF UBegin, UFrom
    <3>2. CASE n # 0
      <4>1. (n + 1) - 1 = n /\ n + 1 # 1 /\ n \in 1..n
        BY <1>4, <3>2
      <4>2. out # << >> /\ Len(out) = n
        BY <1>4, <1>n, <3>2, Appended
      <4>3. UBegin(n + 1)' = out'[n].end + 1
        BY <4>1 DEF UBegin
      <4>4. UFrom = out[n].end + 1
        BY <4>2 DEF UFrom
      <4> QED BY <2>2, <4>1, <4>3, <4>4
    <3> QED BY <3>1, <3>2
  <2>8. HSample(n + 1, y)'
    <3> DEFINE m == Len(es.nals)
               h == UFrom
               to == p.i - 1
    <3>1. m \in Nat /\ p.i \in 1..(m + 1)
      BY StreamsAssumption DEF HevcPace, HevcAu, Hevc!IsStream
    <3>2. to \in h..m
      <4> HIDE DEF m
      <4>1. h \in Nat /\ h < p.i
        BY <2>4, <2>5
      <4> HIDE DEF h
      <4> QED BY <3>1, <4>1
    <3> HIDE DEF to, h
    <3>3. out'[n + 1].end = to /\ p'.info[n + 1] = p.kept /\ out'[n + 1].size = Len(p.kept)
          /\ out'[n + 1].sync = (p.vcl \in Hevc!Irap)
      BY <1>5, <1>6, <2>2, <2>3 DEF to
    <3>4. out'[n + 1].pos = n + 1
      BY <1>5, <2>2, <2>3
    <3>5. HUnit(h, to, p.kept, p.vcl) /\ HEnded(to, p.vcl)
      BY <2>4 DEF h, to
    <3>7. HSample(n + 1, y)'
      <4>1. /\ UBegin(n + 1)' = h /\ h \in Nat /\ Len(es'.nals) = m
        BY <1>1, <2>5, <2>7 DEF h
      <4>2. HUnit(UBegin(n + 1), out[n + 1].end, p.info[n + 1], y)' = HUnit(h, to, p.kept, y)
        <5>1. es' = es /\ UBegin(n + 1)' = h /\ out'[n + 1].end = to /\ p'.info[n + 1] = p.kept
          BY <1>1, <3>3, <4>1
        <5>2. PICK q : q = n + 1
          OBVIOUS
        <5>3. UBegin(q)' = h /\ out'[q].end = to /\ p'.info[q] = p.kept
          BY <5>1, <5>2
        <5>4. HUnit(UBegin(q), out[q].end, p.info[q], y)' = HUnit(h, to, p.kept, y)
          <6> HIDE DEF m
          <6> QED BY <5>1, <5>3 DEF HUnit, HSlice, Hevc!Nal, Hevc!Keeps, Hevc!EndsUnit
        <5> QED BY <5>2, <5>4
      <4>3. HEnded(out[n + 1].end, y)' = HEnded(to, y)
        BY <1>1, <3>3 DEF HEnded, Hevc!Nal, Hevc!EndsUnit
      <4>4. /\ out'[n + 1].pos = n + 1 /\ out'[n + 1].size = Len(p'.info[n + 1])
            /\ out'[n + 1].sync = (y \in Hevc!Irap) /\ UBegin(n + 1)' \in Nat
            /\ out'[n + 1].end \in UBegin(n + 1)'..Len(es'.nals)
        <5> HIDE DEF m
        <5> QED BY <3>2, <3>3, <3>4, <1>y, <4>1
      <4>5. HUnit(h, to, p.kept, y) /\ HEnded(to, y)
        BY <1>y, <3>5
      <4> HIDE DEF m
      <4> QED BY <4>2, <4>3, <4>4, <4>5 DEF HSample
    <3> QED BY <3>7
  <2>9. \A k \in 1..Len(out') : \E v : HSample(k, v)'
    <3> SUFFICES ASSUME NEW k \in 1..Len(out') PROVE \E v : HSample(k, v)'
      OBVIOUS
    <3>1. k = n + 1 \/ k \in 1..n
      BY <1>4, <2>2
    <3>2. CASE k \in 1..n
      BY <2>6, <3>2
    <3>3. CASE k = n + 1
      BY <2>8, <3>3
    <3> QED BY <3>1, <3>2, <3>3
  <2>10. p'.i = UFrom'
    <3>1. UFrom' = out'[n + 1].end + 1
      BY <2>2 DEF UFrom
    <3>2. out'[n + 1].end = p.i - 1
      BY <1>5, <2>2
    <3>3. Len(es.nals) \in Nat /\ p.i \in 1..(Len(es.nals) + 1)
      BY StreamsAssumption DEF HevcPace, HevcAu, Hevc!IsStream
    <3>4. p.i \in Int
      BY <3>3
    <3> QED BY <1>3, <3>1, <3>2, <3>4
  <2> QED BY <2>9, <2>10
<1> QED BY <1>6, <1>7, <1>8 DEF HevcAu, HevcErrors

LEMMA HevcAuRests ==
    ASSUME HevcAu, es' = es, p' = p, out' = out,
           status' \in {"open", "eoes", "multiple descriptions", "buggy"}
    PROVE  HevcAu'
<1>1. UFrom' = UFrom
  BY DEF UFrom
<1>2. HUnit(UFrom, p.i - 1, p.kept, p.vcl)' = HUnit(UFrom, p.i - 1, p.kept, p.vcl)
  BY <1>1 DEF HUnit, HSlice, Hevc!Nal, Hevc!Keeps, Hevc!EndsUnit
<1>3. HEnded(p.i - 1, p.vcl)' = HEnded(p.i - 1, p.vcl)
  BY DEF HEnded, Hevc!Nal, Hevc!EndsUnit
<1>4. Hevc!EndsUnit(Hevc!Nal(p.i))' = Hevc!EndsUnit(Hevc!Nal(p.i))
  BY DEF Hevc!EndsUnit, Hevc!Nal
<1>5. ASSUME NEW k, NEW v, HSample(k, v) PROVE HSample(k, v)'
  <2>1. UBegin(k)' = UBegin(k)
    BY DEF UBegin
  <2>2. HUnit(UBegin(k), out[k].end, p.info[k], v)' = HUnit(UBegin(k), out[k].end, p.info[k], v)
    BY <2>1 DEF HUnit, HSlice, Hevc!Nal, Hevc!Keeps, Hevc!EndsUnit
  <2>3. HEnded(out[k].end, v)' = HEnded(out[k].end, v)
    BY DEF HEnded, Hevc!Nal, Hevc!EndsUnit
  <2> QED BY <1>5, <2>1, <2>2, <2>3 DEF HSample
<1>6. (\A k \in 1..Len(out) : \E v : HSample(k, v))
        => (\A k \in 1..Len(out') : \E v : HSample(k, v)')
  BY <1>5
<1> QED BY <1>1, <1>2, <1>3, <1>4, <1>6 DEF HevcAu

LEMMA HevcAuStops ==
    ASSUME HevcPace, HevcAu, Hevc!EndOfStream \/ Hevc!Fail
    PROVE  HevcAu'
<1>1. es' = es /\ p' = p /\ out' = out
  BY DEF Hevc!EndOfStream, Hevc!Fail
<1>2. status' \in {"open", "eoes", "multiple descriptions", "buggy"}
  <2>1. CASE Hevc!EndOfStream
    BY <2>1 DEF Hevc!EndOfStream
  <2>2. CASE Hevc!Fail
    <3>1. Hevc!Outcome \in {p.err, "eoes", "ok"} /\ (p.err = "" => Hevc!Outcome \in {"eoes", "ok"})
      BY Zenon DEF Hevc!Outcome
    <3> QED BY <2>2, <3>1 DEF Hevc!Fail, HevcAu, HevcErrors
  <2> QED BY <2>1, <2>2
<1> QED BY <1>1, <1>2, HevcAuRests

LEMMA HevcAuSteps ==
    ASSUME HevcPace, HevcAu, Hevc!Next
    PROVE  HevcAu'
BY HevcAuCalls, HevcAuTakes, HevcAuDelivers, HevcAuStops DEF Hevc!Next

(* From the units to what is said of HEVC samples.                          *)
LEMMA HevcAuIsRight ==
    ASSUME HevcPace, HevcAu
    PROVE  Hevc!TypeOK /\ (Hevc!WholePictures => Hevc!AccessUnits)
<1>1. Hevc!TypeOK
  BY DEF HevcPace, HevcAu, Regularly, Hevc!TypeOK
<1>2. ASSUME Hevc!WholePictures, p.failed = 0, NEW k \in 1..Len(out)
      PROVE  /\ Hevc!SlicesOf(k) # {}
             /\ {i \in Hevc!SlicesOf(k) : Hevc!Nal(i).first} = {Hevc!FirstSliceOf(k)}
             /\ out[k].sync = (Hevc!Nal(Hevc!FirstSliceOf(k)).t \in Hevc!Irap)
             /\ Len(Hevc!NalsOf(out[k])) = out[k].size
             /\ \A i \in 1..out[k].size : Hevc!NalsOf(out[k])[i] \in Hevc!Extent(k)
             /\ {i \in Hevc!Extent(k) : Hevc!Nal(i).t # "filler"
                    /\ (es.hev1 \/ Hevc!Nal(i).t \notin {"vps", "sps", "pps"})}
                  = {Hevc!NalsOf(out[k])[i] : i \in 1..out[k].size}
             /\ out[k].end < Len(es.nals) =>
                  /\ Hevc!Nal(out[k].end).t \notin {"aud", "sei"}
                  /\ Hevc!SetsAfterDelimiter => Hevc!Nal(out[k].end).t \notin {"vps", "sps", "pps"}
  <2> DEFINE from == UBegin(k)
             to == out[k].end
             m == Len(es.nals)
             kept == p.info[k]
             l == Len(out)
  <2>1. \A j \in 1..Len(out) : \E v : HSample(j, v)
    BY <1>2 DEF HevcAu
  <2>2. PICK v : HSample(k, v)
    BY <2>1
  <2>3. l \in Nat /\ m \in Nat /\ k \in 1..l
    BY Appended, StreamsAssumption DEF HevcPace, Hevc!IsStream
  <2>4. from \in Nat /\ to \in from..m /\ HUnit(from, to, kept, v) /\ HEnded(to, v)
        /\ out[k].pos = k /\ out[k].size = Len(kept) /\ out[k].sync = (v \in Hevc!Irap)
    BY <2>2 DEF HSample
  <2>5. from >= 1 /\ (from = 1 \/ Hevc!EndsUnit(Hevc!Nal(from)))
    <3>1. CASE k = 1
      BY <3>1 DEF UBegin
    <3>2. CASE k # 1
      <4> DEFINE e == out[k - 1].end
      <4> HIDE DEF l
      <4>1. k - 1 \in 1..l
        BY <2>3, <3>2
      <4>2. PICK w : HSample(k - 1, w)
        BY <2>1, <4>1 DEF l
      <4>3. from = e + 1
        BY <3>2 DEF UBegin
      <4>4. UBegin(k - 1) \in Nat /\ e \in UBegin(k - 1)..m /\ HEnded(e, w)
        BY <4>2 DEF HSample
      <4> HIDE DEF from, e, m
      <4>5. e \in Nat
        BY <4>4
      <4>6. from <= m
        <5> HIDE DEF to
        <5> QED BY <2>3, <2>4
      <4>7. e # m /\ from >= 1
        BY <2>3, <4>3, <4>5, <4>6
      <4>8. Hevc!EndsUnit(Hevc!Nal(from))
        BY <4>3, <4>4, <4>7 DEF HEnded, m
      <4> QED BY <4>7, <4>8
    <3> QED BY <3>1, <3>2
  <2>6. from..to = Hevc!Extent(k) /\ Hevc!NalsOf(out[k]) = kept
    BY <2>4 DEF UBegin, Hevc!Extent, Hevc!NalsOf
  <2>7. HSlices(from, to) = Hevc!SlicesOf(k)
    BY <2>6 DEF HSlices, HSlice, Hevc!SlicesOf
  <2>8. from \in 1..m /\ to \in from..m
    <3> HIDE DEF from, to, m
    <3> QED BY <2>3, <2>4, <2>5
  <2>9. LET S == HSlices(from, to)
            f == Hevc!Earliest(S)
        IN  /\ S # {} /\ f \in S
            /\ {i \in S : Hevc!Nal(i).first} = {f}
            /\ Hevc!Nal(f).t = v
            /\ to < Len(es.nals) =>
                 /\ Hevc!Nal(to).t \notin {"aud", "sei"}
                 /\ Hevc!SetsAfterDelimiter => Hevc!Nal(to).t \notin {"vps", "sps", "pps"}
    <3> HIDE DEF from, to, kept
    <3> QED BY <1>2, <2>3, <2>4, <2>5, <2>8, HevcUnitIsPicture DEF m
  <2>10. Hevc!Earliest(HSlices(from, to)) = Hevc!FirstSliceOf(k)
    BY <2>7 DEF Hevc!FirstSliceOf
  <2>11. /\ Len(Hevc!NalsOf(out[k])) = out[k].size
         /\ \A i \in 1..out[k].size : Hevc!NalsOf(out[k])[i] \in Hevc!Extent(k)
    BY <2>4, <2>6 DEF HUnit
  <2>12. {i \in Hevc!Extent(k) : Hevc!Nal(i).t # "filler"
             /\ (es.hev1 \/ Hevc!Nal(i).t \notin {"vps", "sps", "pps"})}
           = {Hevc!NalsOf(out[k])[i] : i \in 1..out[k].size}
    <3>1. \A i : Hevc!Keeps(Hevc!Nal(i)) <=>
            Hevc!Nal(i).t # "filler" /\ (es.hev1 \/ Hevc!Nal(i).t \notin {"vps", "sps", "pps"})
      <4> SUFFICES ASSUME NEW i
                   PROVE  Hevc!Keeps(Hevc!Nal(i)) <=>
                            Hevc!Nal(i).t # "filler" /\ (es.hev1 \/ Hevc!Nal(i).t \notin {"vps", "sps", "pps"})
        OBVIOUS
      <4>1. CASE Hevc!Nal(i).t \in {"vps", "sps", "pps"}
        <5>1. Hevc!Keeps(Hevc!Nal(i)) <=> es.hev1
          BY <4>1, Zenon DEF Hevc!Keeps
        <5> QED BY <4>1, <5>1
      <4>2. CASE Hevc!Nal(i).t \notin {"vps", "sps", "pps"}
        <5>1. Hevc!Keeps(Hevc!Nal(i)) <=> Hevc!Nal(i).t # "filler"
          BY <4>2, Zenon DEF Hevc!Keeps
        <5> QED BY <4>2, <5>1
      <4> QED BY <4>1, <4>2
    <3>2. {i \in from..to : Hevc!Keeps(Hevc!Nal(i))} = {kept[i] : i \in 1..Len(kept)}
      <4> HIDE DEF from, to, kept
      <4> QED BY <2>4 DEF HUnit
    <3> QED BY <2>4, <2>6, <3>1, <3>2
  <2> QED BY <2>4, <2>7, <2>9, <2>10, <2>11, <2>12
<1> QED BY <1>1, <1>2 DEF Hevc!AccessUnits
-----------------------------------------------------------------------------
(* AVC: kinds of NALs.                                                      *)
ASlice(i) == Avc!IsSlice(i)
ANotVcl(i) == Avc!Class(Avc!Nal(i).t) = "not vcl"
AHides(i) == Avc!Hides(Avc!Nal(i).t)

(* The picture set taken for the one a slice refers to.                     *)
InPlaceOf(d, id) == IF d.pps[id] = Avc!NoId /\ d.pps[0] # Avc!NoId THEN 0 ELSE id

(* The decoder when the NALs before i are taken, and when i is looked at.   *)
DecAt(d, i) ==
    /\ d.pd = IF i = 1 \/ AHides(i - 1) THEN "no" ELSE Avc!Class(Avc!Nal(i - 1).t)
    /\ d.md \in {"view", "not view"} => i > 1 /\ AHides(i - 1)
    /\ i > 1 /\ ~ANotVcl(i - 1) =>
         \E l \in 1..(i - 1) :
            /\ ASlice(l) /\ \A j \in (l + 1)..(i - 1) : ~ASlice(j)
            /\ \A j \in l..(i - 1) : ~ANotVcl(j)
    /\ \A j \in 1..(i - 1) : Avc!Nal(j).t = "pps" => d.pps[Avc!Nal(j).id] # Avc!NoId
    /\ \A l \in 1..(i - 1) : ASlice(l) /\ (\A j \in (l + 1)..(i - 1) : ~ASlice(j)) =>
         /\ d.cur.pic = Avc!Nal(l).pic /\ d.cur.idr = (Avc!Nal(l).t = "idr")
         /\ (\A j \in l..(i - 1) : ~ANotVcl(j)) => d.cur.pps = InPlaceOf(d, Avc!Nal(l).pps)

Looked(d, i) ==
    ASlice(i) =>
        /\ d.next.pic = Avc!Nal(i).pic /\ d.next.red = Avc!Nal(i).red
        /\ d.next.idr = (Avc!Nal(i).t = "idr") /\ d.next.pps = InPlaceOf(d, Avc!Nal(i).pps)
        /\ d.next.first = (d.pd = "not vcl" \/ Avc!IsFirst(d, d.next))

(* A unit: what of it is kept; before its picture, and with it; that the    *)
(* NAL behind it belongs to it, or not.                                     *)
AUnit(from, to, kept) ==
    /\ IsSeq(kept)
    /\ \A j \in 1..Len(kept) : kept[j] \in from..to
    /\ \A i \in from..to : ASlice(i) \/ Avc!Nal(i).t = "aud" => \E j \in 1..Len(kept) : kept[j] = i

AWaits(from, to) == \A j \in from..to : ANotVcl(j)

APicture(from, to) ==
    \E f \in from..to : \E l \in f..to :
        /\ ASlice(f) /\ ASlice(l)
        /\ \A j \in from..(f - 1) : ANotVcl(j)
        /\ \A j \in f..to : ~ANotVcl(j) /\ (ASlice(j) => Avc!Nal(j).pic = Avc!Nal(f).pic)
        /\ \A j \in (l + 1)..to : ~ASlice(j)

AJoins(from, i) ==
    ~ANotVcl(i) /\ (ASlice(i) => \A j \in from..(i - 1) : ASlice(j) => Avc!Nal(i).pic = Avc!Nal(j).pic)

APart(to) ==
    /\ to < Len(es.nals) => ~AHides(to + 1)
    /\ \A l \in 1..to : \A f \in (to + 1)..Len(es.nals) :
         ASlice(l) /\ ASlice(f) /\ (\A j \in (l + 1)..(f - 1) : ~ASlice(j)) =>
             Avc!Nal(f).pic # Avc!Nal(l).pic

ASample(k) ==
    /\ out[k].pos = k /\ out[k].size = Len(p.info[k])
    /\ UBegin(k) \in Nat /\ out[k].end \in UBegin(k)..Len(es.nals)
    /\ AUnit(UBegin(k), out[k].end, p.info[k])
    /\ APicture(UBegin(k), out[k].end) /\ APart(out[k].end)

(* As for HEVC; a unit that is open has no picture yet, or the NAL ahead    *)
(* belongs to its picture.                                                  *)
AvcAu ==
    /\ p.i \in 1..(Len(es.nals) + 1) /\ p.run \in {"idle", "unit", "end"}
    /\ status \in {"open", "eoes", "bad stream", "multiple descriptions", "buggy"}
    /\ p.run # "end" => p.err = ""
    /\ IsSeq(p.info) /\ Len(p.info) = p.auNum
    /\ Avc!WellDelimited /\ Avc!WholePictures /\ p.failed = 0 =>
         /\ \A k \in 1..Len(out) : ASample(k)
         /\ p.run = "idle" =>
              /\ p.i = UFrom /\ DecAt(p.dec, p.i)
              /\ p.i <= Len(es.nals) => Looked(p.dec, p.i) /\ ~AHides(p.i)
         /\ p.run = "unit" =>
              /\ UFrom <= p.i /\ DecAt(p.dec, p.i) /\ Looked(p.dec, p.i)
              /\ AUnit(UFrom, p.i - 1, p.kept)
              /\ \/ AWaits(UFrom, p.i - 1) /\ ~AHides(p.i)
                 \/ APicture(UFrom, p.i - 1) /\ AJoins(UFrom, p.i)
         /\ p.run = "end" /\ p.err = "" =>
              /\ UFrom < p.i /\ DecAt(p.dec, p.i)
              /\ p.i <= Len(es.nals) => Looked(p.dec, p.i)
              /\ AUnit(UFrom, p.i - 1, p.kept)
              /\ APicture(UFrom, p.i - 1) /\ APart(p.i - 1)

AStream == es \in AvcStreams /\ Avc!WellDelimited /\ Avc!WholePictures

(* The NALs of such a stream.                                               *)
LEMMA AvcClasses ==
    ASSUME AStream, NEW i \in 1..Len(es.nals)
    PROVE  /\ ASlice(i) => /\ Avc!Class(Avc!Nal(i).t) = "vcl" /\ ~ANotVcl(i) /\ ~AHides(i)
                           /\ Avc!Nal(i).pps \in Ids
           /\ ANotVcl(i) => ~AHides(i) /\ Avc!Nal(i).t \in {"sei", "sps", "pps", "aud"}
           /\ ASlice(i) \/ ANotVcl(i) \/ AHides(i)
           /\ AHides(i) => /\ Avc!Nal(i).t \notin {"pps", "sei", "sps", "aud"}
                           /\ Avc!Class(Avc!Nal(i).t) \in {"no", "view", "not view"}
           /\ Avc!Nal(i).t \notin {"eos", "prefix"}
<1> DEFINE t == Avc!Nal(i).t
<1>1. Avc!IsNal(Avc!Nal(i)) /\ t \notin {"eos", "prefix"}
  BY AvcNals DEF AStream, Avc!WellDelimited
<1>2. t \in Avc!NalTypes /\ (t \in {"slice", "idr"} => Avc!Nal(i).pps \in Ids)
  BY <1>1 DEF Avc!IsNal
<1>3. \A u \in {"slice", "idr"} : Avc!Class(u) = "vcl"
  BY DEF Avc!Class
<1>4. \A u \in {"sei", "sps", "pps", "aud"} : Avc!Class(u) = "not vcl"
  BY DEF Avc!Class
<1>5. \A u \in {"subset", "vdrd", "dolby3d"} : Avc!Class(u) = "not view"
  BY DEF Avc!Class
<1>6. Avc!Class("viewslice") = "view"
  BY DEF Avc!Class
<1>7. \A u \in {"spsext", "filler", "rpu"} : Avc!Class(u) = "no"
  BY DEF Avc!Class
<1> HIDE DEF t
<1>8. \/ t \in {"slice", "idr"} /\ Avc!Class(t) = "vcl"
      \/ t \in {"sei", "sps", "pps", "aud"} /\ Avc!Class(t) = "not vcl"
      \/ t \in {"subset", "vdrd", "dolby3d"} /\ Avc!Class(t) = "not view"
      \/ t = "viewslice" /\ Avc!Class(t) = "view"
      \/ t \in {"spsext", "filler", "rpu"} /\ Avc!Class(t) = "no"
  BY <1>1, <1>2, <1>3, <1>4, <1>5, <1>6, <1>7 DEF Avc!NalTypes
<1>9. /\ ASlice(i) <=> t \in {"slice", "idr"}
      /\ ANotVcl(i) <=> Avc!Class(t) = "not vcl"
      /\ AHides(i) <=> Avc!Hides(t)
  BY DEF ASlice, Avc!IsSlice, ANotVcl, AHides, t
<1>10. Avc!Hides(t) <=> \/ Avc!Class(t) = "no"
                        \/ t \in {"prefix", "subset", "vdrd", "viewslice", "dolby3d"}
  BY DEF Avc!Hides
<1>11. t = Avc!Nal(i).t
  BY DEF t
<1> HIDE DEF ASlice, ANotVcl, AHides
<1> QED BY <1>1, <1>2, <1>8, <1>9, <1>10, <1>11

(* Which NAL may follow which.                                              *)
LEMMA AvcNeighbours ==
    ASSUME AStream, NEW i \in 1..Len(es.nals)
    PROVE  /\ AHides(i) => i > 1 /\ (ASlice(i - 1) \/ AHides(i - 1))
           /\ i > 1 /\ AHides(i - 1) => Avc!Nal(i).t \in {"aud", "slice", "idr"} \/ AHides(i)
           /\ i = 1 => ANotVcl(i)
<1> DEFINE m == Len(es.nals)
<1>0. m \in Nat /\ i \in 1..m
  BY AvcNals DEF AStream
<1>1. AHides(i) => i > 1 /\ (ASlice(i - 1) \/ AHides(i - 1))
  BY DEF AStream, Avc!WholePictures, AHides, ASlice
<1>2. i > 1 /\ AHides(i - 1) => Avc!Nal(i).t \in {"aud", "slice", "idr"} \/ AHides(i)
  <2> SUFFICES ASSUME i > 1, AHides(i - 1) PROVE Avc!Nal(i).t \in {"aud", "slice", "idr"} \/ AHides(i)
    OBVIOUS
  <2> DEFINE j == i - 1
  <2>1. j \in 1..(m - 1) /\ j + 1 = i
    <3> HIDE DEF m
    <3> QED BY <1>0
  <2> HIDE DEF j
  <2>2. Avc!Hides(Avc!Nal(j).t)
    BY DEF AHides, j
  <2>3. Avc!Nal(j + 1).t \in {"aud", "slice", "idr"} \/ Avc!Hides(Avc!Nal(j + 1).t)
    BY <2>1, <2>2 DEF AStream, Avc!WellDelimited
  <2> QED BY <2>1, <2>3 DEF AHides
<1>3. i = 1 => ANotVcl(i)
  <2> SUFFICES ASSUME i = 1 PROVE ANotVcl(i)
    OBVIOUS
  <2>1. ~AHides(i)
    BY <1>1
  <2>2. ~ASlice(i)
    <3> SUFFICES ASSUME ASlice(i) PROVE FALSE
      OBVIOUS
    <3>1. \E j \in 1..(i - 1) : Avc!Nal(j).t = "pps"
      BY DEF AStream, Avc!WholePictures, ASlice
    <3>2. 1..(i - 1) = {}
      OBVIOUS
    <3> QED BY <3>1, <3>2
  <2> QED BY <2>1, <2>2, AvcClasses
<1> QED BY <1>1, <1>2, <1>3

(* Two slices of a picture that follow one another.                         *)
LEMMA AvcSamePicture ==
    ASSUME AStream, NEW i \in 1..Len(es.nals), NEW l \in 1..(i - 1), ASlice(i), ASlice(l),
           \A j \in (l + 1)..(i - 1) : ~ASlice(j)
    PROVE  /\ Avc!Nal(i).red => Avc!Nal(i).pic = Avc!Nal(l).pic
           /\ Avc!Nal(i).pic = Avc!Nal(l).pic =>
                /\ Avc!Nal(i).pps = Avc!Nal(l).pps /\ Avc!Nal(i).t = Avc!Nal(l).t
                /\ \A j \in l..i : ~ANotVcl(j)
<1> DEFINE m == Len(es.nals)
<1>1. l \in 1..m /\ l < i
  <2>1. m \in Nat
    BY AvcNals DEF AStream
  <2>2. i \in 1..m
    OBVIOUS
  <2> HIDE DEF m
  <2> QED BY <2>1, <2>2
<1> QED BY <1>1 DEF AStream, Avc!WholePictures, ASlice, ANotVcl

(* What is said of a decoder is said of its delimiter, sets and picture.    *)
LEMMA DecAtOf ==
    ASSUME NEW d, NEW d2, NEW i, DecAt(d, i),
           d2.pd = d.pd, d2.md = d.md, d2.pps = d.pps, d2.cur = d.cur
    PROVE  DecAt(d2, i)
BY DEF DecAt, InPlaceOf

(* parse_slice with the set, or PPS 0, that is ahead of the slice.          *)
LEMMA AvcSlice ==
    ASSUME AStream, NEW i \in 1..Len(es.nals), ASlice(i), NEW d, DecOK(d), DecAt(d, i)
    PROVE  LET s == Avc!ParseSlice(d, Avc!Nal(i))
           IN  /\ DOMAIN s = {"pic", "pps", "idr", "red", "first"}
               /\ s.pic = Avc!Nal(i).pic /\ s.red = Avc!Nal(i).red
               /\ s.idr = (Avc!Nal(i).t = "idr") /\ s.pps = InPlaceOf(d, Avc!Nal(i).pps)
<1> DEFINE n == Avc!Nal(i)
           q == InPlaceOf(d, n.pps)
           g == n.t = "idr"
           u == [d.next EXCEPT !.idr = g, !.pps = q]
           s == Avc!ParseSlice(d, n)
<1>1. s = IF d.pps[q] = Avc!NoId THEN u ELSE [u EXCEPT !.pic = n.pic, !.red = n.red]
  BY DEF Avc!ParseSlice, InPlaceOf
<1>2. d.pps[q] # Avc!NoId
  <2>1. PICK j \in 1..(i - 1) : Avc!Nal(j).t = "pps" /\ Avc!Nal(j).id \in {n.pps, 0}
    BY DEF AStream, Avc!WholePictures, ASlice
  <2>2. d.pps[Avc!Nal(j).id] # Avc!NoId
    BY <2>1 DEF DecAt
  <2> HIDE DEF n
  <2> QED BY <2>1, <2>2 DEF InPlaceOf
<1>3. DOMAIN d.next = {"pic", "pps", "idr", "red", "first"}
  BY DEF DecOK, SliceOK
<1> HIDE DEF n, q, g, s
<1>4. DOMAIN u = {"pic", "pps", "idr", "red", "first"} /\ u.idr = g /\ u.pps = q
  BY <1>3
<1> HIDE DEF u
<1>5. DOMAIN s = {"pic", "pps", "idr", "red", "first"}
      /\ s.pic = n.pic /\ s.red = n.red /\ s.idr = g /\ s.pps = q
  BY <1>1, <1>2, <1>4
<1> QED BY <1>5 DEF s, n, q, g

(* The look ahead at a NAL.                                                 *)
LEMMA AvcLooksAt ==
    ASSUME AStream, NEW i \in 1..Len(es.nals), NEW d, DecOK(d), DecAt(d, i)
    PROVE  LET d2 == Avc!LookAhead(d, Avc!Nal(i))
           IN  DecOK(d2) /\ DecAt(d2, i) /\ Looked(d2, i)
<1> DEFINE n == Avc!Nal(i)
           d2 == Avc!LookAhead(d, n)
<1>1. DecOK(d2)
  BY AvcNals, AvcLooks DEF AStream
<1>2. CASE ~ASlice(i)
  <2>1. d2 = d
    BY <1>2 DEF Avc!LookAhead, ASlice, Avc!IsSlice
  <2> QED BY <1>1, <1>2, <2>1 DEF Looked
<1>3. CASE ASlice(i)
  <2> DEFINE s == Avc!ParseSlice(d, n)
             f == d.pd = "not vcl" \/ Avc!IsFirst(d, s)
             s2 == [s EXCEPT !.first = f]
  <2>1. d2 = [d EXCEPT !.next = s2]
    BY <1>3 DEF Avc!LookAhead, ASlice, Avc!IsSlice
  <2>2. /\ DOMAIN s = {"pic", "pps", "idr", "red", "first"}
        /\ s.pic = n.pic /\ s.red = n.red /\ s.idr = (n.t = "idr") /\ s.pps = InPlaceOf(d, n.pps)
    BY <1>3, AvcSlice
  <2>f. f = (d.pd = "not vcl" \/ Avc!IsFirst(d, s))
    OBVIOUS
  <2> HIDE DEF s, f
  <2>3. s2.pic = s.pic /\ s2.red = s.red /\ s2.idr = s.idr /\ s2.pps = s.pps /\ s2.first = f
    BY <2>2
  <2> HIDE DEF s2, d2
  <2>4. /\ d2.next = s2 /\ d2.pd = d.pd /\ d2.md = d.md /\ d2.pps = d.pps /\ d2.cur = d.cur
    BY <2>1 DEF DecOK, DecFields
  <2>5. DecAt(d2, i)
    BY <2>4, DecAtOf
  <2>6. Avc!IsFirst(d2, s2) = Avc!IsFirst(d, s)
    BY <2>3, <2>4 DEF Avc!IsFirst
  <2>7. InPlaceOf(d2, n.pps) = InPlaceOf(d, n.pps)
    BY <2>4 DEF InPlaceOf
  <2> HIDE DEF n
  <2>8. /\ d2.next.pic = n.pic /\ d2.next.red = n.red
        /\ d2.next.idr = (n.t = "idr") /\ d2.next.pps = InPlaceOf(d2, n.pps)
    BY <2>2, <2>3, <2>4, <2>7
  <2>9. d2.next.first = (d2.pd = "not vcl" \/ Avc!IsFirst(d2, d2.next))
    BY <2>f, <2>3, <2>4, <2>6
  <2>10. Looked(d2, i)
    BY <2>8, <2>9 DEF Looked, n
  <2> QED BY <1>1, <2>5, <2>10 DEF d2, n
<1> QED BY <1>2, <1>3

(* Phase 2 of a NAL that is not refused.                                    *)
LEMMA AvcParsesAt ==
    ASSUME NEW d, DecOK(d), NEW n, Avc!IsNal(n), n.t # "prefix"
    PROVE  LET q == Avc!Parsed(d, n)
           IN  /\ DOMAIN q = DecFields
               /\ q.pd = d.pd /\ q.md = d.md /\ q.layer = d.layer
               /\ n.t = "pps" /\ d.md # "not view" => q.pps = [d.pps EXCEPT ![n.id] = n.sps]
               /\ n.t # "pps" => q.pps = d.pps
               /\ n.t \notin {"slice", "idr"} => q.cur = d.cur
               /\ n.t \in {"slice", "idr"} /\ d.next.first => q.cur = d.next
               /\ n.t \in {"slice", "idr"} /\ ~d.next.first =>
                    \A f \in {"pic", "pps", "idr"} : q.cur[f] = d.cur[f]
<1> DEFINE q == Avc!Parsed(d, n)
<1>0. DOMAIN d = DecFields /\ DOMAIN d.cur = {"pic", "pps", "idr", "red", "first"}
  BY DEF DecOK, SliceOK
<1>1. n.t \in Avc!NalTypes
  BY DEF Avc!IsNal
<1>2. CASE n.t \in {"slice", "idr"}
  <2>1. Avc!Class(n.t) = "vcl"
    BY <1>2 DEF Avc!Class
  <2>2. q = Avc!Activate(d, n)
    <3>1. n.t \notin {"sps", "subset", "pps"}
      BY <1>2
    <3> QED BY <2>1, <3>1, Zenon DEF Avc!Parsed
  <2>3. CASE d.next.first
    <3> DEFINE a == IF d.pps[d.next.pps] = Avc!NoId THEN 0 ELSE d.pps[d.next.pps]
    <3>1. q = [d EXCEPT !.cur = d.next, !.next = d.cur, !.idr = n.t = "idr",
                        !.activePps = d.next.pps, !.activeSps = a]
      BY <2>2, <2>3 DEF Avc!Activate
    <3> HIDE DEF q, a
    <3>2. /\ DOMAIN q = DecFields /\ q.pd = d.pd /\ q.md = d.md /\ q.layer = d.layer
          /\ q.pps = d.pps /\ q.cur = d.next
      BY <1>0, <3>1 DEF DecFields
    <3> QED BY <1>2, <2>3, <3>2 DEF q
  <2>4. CASE ~d.next.first
    <3> DEFINE c == [d.cur EXCEPT !.first = FALSE]
    <3>1. q = [d EXCEPT !.cur = c]
      BY <2>2, <2>4 DEF Avc!Activate
    <3>2. \A f \in {"pic", "pps", "idr"} : c[f] = d.cur[f]
      BY <1>0
    <3> HIDE DEF q, c
    <3>3. /\ DOMAIN q = DecFields /\ q.pd = d.pd /\ q.md = d.md /\ q.layer = d.layer
          /\ q.pps = d.pps /\ q.cur = c
      BY <1>0, <3>1 DEF DecFields
    <3> QED BY <1>2, <2>4, <3>2, <3>3 DEF q
  <2> QED BY <2>3, <2>4
<1>3. CASE n.t \notin {"slice", "idr"}
  <2>1. Avc!Class(n.t) # "vcl"
    <3>1. \A u \in {"sps", "spsext", "pps", "sei", "aud", "eos", "filler", "rpu", "subset", "vdrd",
                    "viewslice", "dolby3d"} : Avc!Class(u) # "vcl"
      BY DEF Avc!Class
    <3> QED BY <1>1, <1>3, <3>1 DEF Avc!NalTypes
  <2>2. \/ n.t \in {"sps", "subset"} /\ \E x, y : q = [d EXCEPT !.sps = x, !.activeSps = y]
        \/ /\ n.t = "pps" /\ d.md # "not view"
           /\ q = [d EXCEPT !.pps[n.id] = n.sps, !.activeSps = n.sps, !.lastPps = n.id]
        \/ ~(n.t = "pps" /\ d.md # "not view") /\ q = d
    <3>1. CASE n.t \in {"sps", "subset"}
      <4>1. q = [d EXCEPT !.sps[n.id] = n.c, !.activeSps = n.id]
        BY <2>1, <3>1, Zenon DEF Avc!Parsed
      <4> QED BY <3>1, <4>1
    <3>2. CASE n.t = "pps" /\ d.md # "not view"
      <4>1. n.t \notin {"sps", "subset"}
        BY <3>2
      <4>2. q = [d EXCEPT !.pps[n.id] = n.sps, !.activeSps = n.sps, !.lastPps = n.id]
        BY <2>1, <3>2, <4>1, Zenon DEF Avc!Parsed
      <4> QED BY <3>2, <4>2
    <3>3. CASE n.t \notin {"sps", "subset"} /\ ~(n.t = "pps" /\ d.md # "not view")
      <4>1. q = d
        BY <2>1, <3>3, Zenon DEF Avc!Parsed
      <4> QED BY <3>3, <4>1
    <3> QED BY <3>1, <3>2, <3>3
  <2> HIDE DEF q
  <2>3. /\ DOMAIN q = DecFields /\ q.pd = d.pd /\ q.md = d.md /\ q.layer = d.layer /\ q.cur = d.cur
        /\ n.t = "pps" /\ d.md # "not view" => q.pps = [d.pps EXCEPT ![n.id] = n.sps]
        /\ n.t # "pps" => q.pps = d.pps
    <3>1. CASE n.t \in {"sps", "subset"} /\ \E x, y : q = [d EXCEPT !.sps = x, !.activeSps = y]
      BY <1>0, <3>1 DEF DecFields
    <3>2. CASE /\ n.t = "pps" /\ d.md # "not view"
               /\ q = [d EXCEPT !.pps[n.id] = n.sps, !.activeSps = n.sps, !.lastPps = n.id]
      BY <1>0, <3>2 DEF DecFields
    <3>3. CASE ~(n.t = "pps" /\ d.md # "not view") /\ q = d
      BY <1>0, <3>3
    <3> QED BY <2>2, <3>1, <3>2, <3>3
  <2> QED BY <1>3, <2>3 DEF q
<1> QED BY <1>2, <1>3

(* Where the delimiter is moved to by a NAL that is in order.               *)
LEMMA AvcDelimitsAt ==
    ASSUME NEW d, DOMAIN d = DecFields, d.md \in {"view", "not view"} => d.pd = "no",
           NEW t, Avc!Delimit(d, t).ok
    PROVE  LET r == Avc!Delimit(d, t)
           IN  /\ r.pps = d.pps /\ r.cur = d.cur
               /\ /\ t \in {"slice", "idr", "aud", "sps", "pps", "sei"}
                  /\ t \in {"pps", "sei"} => d.md # "not view"
                  => r.pd = Avc!Class(t) /\ r.md = Avc!Class(t)
               /\ Avc!Class(t) \in {"no", "view", "not view"} => r.pd = "no"
<1> DEFINE r == Avc!Delimit(d, t)
           c == Avc!Class(t)
           In == c \in {"view", "not view"}
           Move == [d EXCEPT !.md = c, !.pd = c]
<1>0. t \in {"slice", "idr", "aud", "sps", "pps", "sei"} => c \in {"vcl", "not vcl"}
  BY DEF Avc!Class
<1>1. CASE d.md = "not view" /\ t = "viewslice"
  <2>1. r = [d EXCEPT !.md = "view", !.ok = d.layer = 1]
    BY <1>1, Zenon DEF Avc!Delimit
  <2> HIDE DEF r
  <2>2. r.pps = d.pps /\ r.cur = d.cur /\ r.pd = d.pd
    BY <2>1 DEF DecFields
  <2> QED BY <1>1, <2>2 DEF r
<1>2. CASE d.md = "not view" /\ t # "viewslice"
  <2> DEFINE o == d.layer = 1 /\ t \in {"pps", "sei", "subset", "dolby3d"}
  <2>1. r = [d EXCEPT !.ok = o]
    BY <1>2, Zenon DEF Avc!Delimit
  <2>2. o => t \in {"pps", "sei", "subset", "dolby3d"}
    OBVIOUS
  <2> HIDE DEF o, r
  <2>3. r.pps = d.pps /\ r.cur = d.cur /\ r.pd = d.pd /\ r.ok = o
    BY <2>1 DEF DecFields
  <2> QED BY <1>2, <2>2, <2>3 DEF r
<1>3. CASE d.md = "view" /\ t \in {"viewslice", "filler", "eos"}
  <2>1. r = d
    BY <1>3, Zenon DEF Avc!Delimit
  <2> HIDE DEF r
  <2> QED BY <1>3, <2>1 DEF r
<1>4. CASE d.md = "view" /\ t \notin {"viewslice", "filler", "eos"}
  <2>1. r = IF In THEN [d EXCEPT !.md = c, !.ok = FALSE] ELSE [Move EXCEPT !.layer = 0]
    BY <1>4, Zenon DEF Avc!Delimit
  <2>2. r.ok
    OBVIOUS
  <2>3. In <=> c \in {"view", "not view"}
    OBVIOUS
  <2> HIDE DEF c, r, In
  <2>4. ~In
    <3> SUFFICES ASSUME In PROVE FALSE
      OBVIOUS
    <3>1. r = [d EXCEPT !.md = c, !.ok = FALSE]
      BY <2>1
    <3>2. r.ok = FALSE
      BY <3>1 DEF DecFields
    <3> QED BY <2>2, <3>2
  <2>5. r = [Move EXCEPT !.layer = 0]
    BY <2>1, <2>4
  <2>6. r.pps = d.pps /\ r.cur = d.cur /\ r.pd = c /\ r.md = c
    BY <2>5 DEF DecFields
  <2> QED BY <2>3, <2>4, <2>6 DEF r, c
<1>5. CASE d.md # "not view" /\ d.md # "view"
  <2> DEFINE o1 == d.layer = 0
             o2 == t = "vdrd" /\ d.layer = 0
  <2>1. r = IF ~In THEN [Move EXCEPT !.ok = o1]
            ELSE [d EXCEPT !.md = c, !.pd = "no", !.ok = o2, !.layer = 1]
    BY <1>5, Zenon DEF Avc!Delimit
  <2>3. In <=> c \in {"view", "not view"}
    OBVIOUS
  <2> HIDE DEF c, o1, o2, r, In
  <2>4. r.pps = d.pps /\ r.cur = d.cur /\ (~In => r.pd = c /\ r.md = c) /\ (In => r.pd = "no")
    BY <2>1 DEF DecFields
  <2> QED BY <1>0, <2>3, <2>4 DEF r, c
<1> QED BY <1>1, <1>2, <1>3, <1>4, <1>5

(* The NALs before i + 1 are taken when i is.                               *)
LEMMA AvcMoves ==
    ASSUME AStream, NEW i \in 1..Len(es.nals), NEW d, DecOK(d), DecAt(d, i), Looked(d, i),
           Avc!PhaseTwo(d, Avc!Nal(i)).ok
    PROVE  DecAt(Avc!PhaseTwo(d, Avc!Nal(i)), i + 1)
<1> DEFINE n == Avc!Nal(i)
           m == Len(es.nals)
           q == Avc!Parsed(d, n)
           r == Avc!PhaseTwo(d, n)
<1>0. m \in Nat /\ i \in Nat /\ i >= 1 /\ i <= m
  <2>1. m \in Nat /\ i \in 1..m
    BY AvcNals DEF AStream
  <2> HIDE DEF m
  <2> QED BY <2>1
<1>n. Avc!IsNal(n) /\ n.t # "prefix"
  BY AvcNals, AvcClasses DEF AStream
<1>1. /\ DOMAIN q = DecFields /\ q.pd = d.pd /\ q.md = d.md
      /\ n.t = "pps" /\ d.md # "not view" => q.pps = [d.pps EXCEPT ![n.id] = n.sps]
      /\ n.t # "pps" => q.pps = d.pps
      /\ n.t \notin {"slice", "idr"} => q.cur = d.cur
      /\ n.t \in {"slice", "idr"} /\ d.next.first => q.cur = d.next
      /\ n.t \in {"slice", "idr"} /\ ~d.next.first =>
           \A f \in {"pic", "pps", "idr"} : q.cur[f] = d.cur[f]
  <2> HIDE DEF n
  <2> QED BY <1>n, AvcParsesAt
<1>2. d.md \in {"view", "not view"} => d.pd = "no"
  BY DEF DecAt
<1>3. /\ r.pps = q.pps /\ r.cur = q.cur
      /\ /\ n.t \in {"slice", "idr", "aud", "sps", "pps", "sei"}
         /\ n.t \in {"pps", "sei"} => d.md # "not view"
         => r.pd = Avc!Class(n.t) /\ r.md = Avc!Class(n.t)
      /\ Avc!Class(n.t) \in {"no", "view", "not view"} => r.pd = "no"
  <2>1. r = Avc!Delimit(q, n.t)
    BY DEF Avc!PhaseTwo
  <2>2. Avc!Delimit(q, n.t).ok
    BY <2>1
  <2> HIDE DEF q, r, n
  <2>3. DOMAIN q = DecFields /\ (q.md \in {"view", "not view"} => q.pd = "no") /\ q.md = d.md
    BY <1>1, <1>2
  <2>4. LET x == Avc!Delimit(q, n.t)
        IN  /\ x.pps = q.pps /\ x.cur = q.cur
            /\ /\ n.t \in {"slice", "idr", "aud", "sps", "pps", "sei"}
               /\ n.t \in {"pps", "sei"} => q.md # "not view"
               => x.pd = Avc!Class(n.t) /\ x.md = Avc!Class(n.t)
            /\ Avc!Class(n.t) \in {"no", "view", "not view"} => x.pd = "no"
    BY <2>2, <2>3, AvcDelimitsAt
  <2> QED BY <2>1, <2>3, <2>4
<1> HIDE DEF q, r
<1>4. /\ ASlice(i) <=> n.t \in {"slice", "idr"}
      /\ ASlice(i) => Avc!Class(n.t) = "vcl" /\ ~ANotVcl(i) /\ ~AHides(i) /\ n.pps \in Ids
      /\ ANotVcl(i) => ~AHides(i) /\ n.t \in {"sei", "sps", "pps", "aud"} /\ Avc!Class(n.t) = "not vcl"
      /\ ASlice(i) \/ ANotVcl(i) \/ AHides(i)
      /\ AHides(i) => /\ n.t \notin {"pps", "sei", "sps", "aud"}
                      /\ Avc!Class(n.t) \in {"no", "view", "not view"}
  BY AvcClasses DEF ASlice, Avc!IsSlice, ANotVcl
<1>5. /\ AHides(i) => i > 1 /\ (ASlice(i - 1) \/ AHides(i - 1))
      /\ i > 1 /\ AHides(i - 1) => n.t \in {"aud", "slice", "idr"} \/ AHides(i)
      /\ i = 1 => ANotVcl(i)
  BY AvcNeighbours
<1>6. n.t \in {"pps", "sei"} => d.md # "not view"
  <2>1. d.md = "not view" => i > 1 /\ AHides(i - 1)
    BY DEF DecAt
  <2> QED BY <1>4, <1>5, <2>1
<1>7. /\ r.pd = (IF AHides(i) THEN "no" ELSE Avc!Class(n.t))
      /\ ~AHides(i) => r.md \notin {"view", "not view"}
  <2>1. CASE ASlice(i)
    BY <1>3, <1>4, <2>1
  <2>2. CASE ANotVcl(i)
    BY <1>3, <1>4, <1>6, <2>2
  <2>3. CASE AHides(i)
    BY <1>3, <1>4, <2>3
  <2> QED BY <1>4, <2>1, <2>2, <2>3
<1>p. i > 1 => i - 1 \in 1..m
  <2> HIDE DEF m
  <2> QED BY <1>0
<1>8. ASSUME ~ANotVcl(i)
      PROVE  \E l \in 1..i : /\ ASlice(l) /\ \A j \in (l + 1)..i : ~ASlice(j)
                             /\ \A j \in l..i : ~ANotVcl(j)
  <2>1. CASE ASlice(i)
    <3>1. i \in 1..i /\ (i + 1)..i = {} /\ i..i = {i}
      BY <1>0
    <3> QED BY <1>8, <2>1, <3>1
  <2>2. CASE ~ASlice(i)
    <3>1. i > 1 /\ ~ANotVcl(i - 1)
      BY <1>4, <1>5, <1>8, <1>p, <2>2, AvcClasses
    <3>2. PICK l \in 1..(i - 1) :
            /\ ASlice(l) /\ \A j \in (l + 1)..(i - 1) : ~ASlice(j)
            /\ \A j \in l..(i - 1) : ~ANotVcl(j)
      BY <3>1 DEF DecAt
    <3>3. l \in 1..i /\ l \in Nat
      BY <1>0
    <3>4. (\A j \in (l + 1)..i : ~ASlice(j)) /\ (\A j \in l..i : ~ANotVcl(j))
      <4>1. \A j \in (l + 1)..i : j = i \/ j \in (l + 1)..(i - 1)
        BY <1>0, <3>3
      <4>2. \A j \in l..i : j = i \/ j \in l..(i - 1)
        BY <1>0, <3>3
      <4> QED BY <1>8, <2>2, <3>2, <4>1, <4>2
    <3> QED BY <3>2, <3>3, <3>4
  <2> QED BY <2>1, <2>2
<1>9. /\ n.t = "pps" => r.pps = [d.pps EXCEPT ![n.id] = n.sps]
      /\ n.t # "pps" => r.pps = d.pps
  BY <1>1, <1>3, <1>6
<1>10. ASSUME NEW j \in 1..i, Avc!Nal(j).t = "pps"
       PROVE  r.pps[Avc!Nal(j).id] # Avc!NoId
  <2>0. DOMAIN d.pps = Ids /\ (n.t = "pps" => n.id \in Ids /\ n.sps \in Ids)
    BY <1>n DEF DecOK, Avc!IsNal
  <2>1. CASE j = i
    <3>1. r.pps = [d.pps EXCEPT ![n.id] = n.sps] /\ n.id \in Ids /\ n.sps \in Ids
      BY <1>9, <1>10, <2>0, <2>1
    <3>2. r.pps[n.id] = n.sps
      BY <2>0, <3>1
    <3> QED BY <2>1, <3>1, <3>2, NoIdIsNone
  <2>2. CASE j # i
    <3>1. j \in 1..(i - 1)
      BY <1>0, <2>2
    <3>2. d.pps[Avc!Nal(j).id] # Avc!NoId
      BY <1>10, <3>1 DEF DecAt
    <3>3. CASE n.t = "pps"
      <4>1. Avc!Nal(j).id \in Ids
        <5>1. j \in 1..m
          <6> HIDE DEF m
          <6> QED BY <1>0
        <5> QED BY <1>10, <5>1, AvcNals DEF AStream, Avc!IsNal
      <4>2. r.pps = [d.pps EXCEPT ![n.id] = n.sps] /\ n.sps \in Ids
        BY <1>9, <2>0, <3>3
      <4> HIDE DEF n
      <4> QED BY <2>0, <3>2, <4>1, <4>2, NoIdIsNone
    <3>4. CASE n.t # "pps"
      BY <1>9, <3>2, <3>4
    <3> QED BY <3>3, <3>4
  <2> QED BY <2>1, <2>2
<1>11. n.t # "pps" => \A id : InPlaceOf(r, id) = InPlaceOf(d, id)
  BY <1>9 DEF InPlaceOf
<1>12. ASSUME NEW l \in 1..i, ASlice(l), \A j \in (l + 1)..i : ~ASlice(j)
       PROVE  /\ r.cur.pic = Avc!Nal(l).pic /\ r.cur.idr = (Avc!Nal(l).t = "idr")
              /\ (\A j \in l..i : ~ANotVcl(j)) => r.cur.pps = InPlaceOf(r, Avc!Nal(l).pps)
  <2>1. CASE l = i
    <3>1. ASlice(i) /\ n.t \in {"slice", "idr"} /\ n.t # "pps"
      BY <1>4, <1>12, <2>1
    <3>2. /\ d.next.pic = n.pic /\ d.next.red = n.red
          /\ d.next.idr = (n.t = "idr") /\ d.next.pps = InPlaceOf(d, n.pps)
          /\ d.next.first = (d.pd = "not vcl" \/ Avc!IsFirst(d, d.next))
      BY <3>1 DEF Looked
    <3>3. CASE d.next.first
      BY <1>1, <1>3, <1>11, <2>1, <3>1, <3>2, <3>3
    <3>4. CASE ~d.next.first
      <4>1. /\ r.cur.pic = d.cur.pic /\ r.cur.pps = d.cur.pps /\ r.cur.idr = d.cur.idr
        BY <1>1, <1>3, <3>1, <3>4
      <4>2. d.pd # "not vcl" /\ ~Avc!IsFirst(d, d.next)
        BY <3>2, <3>4
      <4>3. CASE n.red
        <5>1. i > 1
          <6>1. i # 1
            BY <1>4, <1>5, <3>1
          <6> QED BY <1>0, <6>1
        <5>2. ~ANotVcl(i - 1)
          <6>1. ANotVcl(i - 1) => ~AHides(i - 1)
            BY <1>p, <5>1, AvcClasses
          <6>2. i # 1
            BY <1>4, <1>5, <3>1
          <6>3. ~AHides(i - 1) => d.pd = Avc!Class(Avc!Nal(i - 1).t)
            BY <6>2 DEF DecAt
          <6> QED BY <4>2, <6>1, <6>3 DEF ANotVcl
        <5>3. PICK k \in 1..(i - 1) :
                /\ ASlice(k) /\ \A j \in (k + 1)..(i - 1) : ~ASlice(j)
                /\ \A j \in k..(i - 1) : ~ANotVcl(j)
          BY <5>1, <5>2 DEF DecAt
        <5>4. n.pic = Avc!Nal(k).pic /\ n.pps = Avc!Nal(k).pps /\ n.t = Avc!Nal(k).t
          BY <3>1, <4>3, <5>3, AvcSamePicture
        <5>5. /\ d.cur.pic = Avc!Nal(k).pic /\ d.cur.idr = (Avc!Nal(k).t = "idr")
              /\ d.cur.pps = InPlaceOf(d, Avc!Nal(k).pps)
          BY <5>3 DEF DecAt
        <5> QED BY <1>11, <2>1, <3>1, <4>1, <5>4, <5>5
      <4>4. CASE ~n.red
        <5>1. d.next.pic = d.cur.pic /\ d.next.pps = d.cur.pps /\ d.next.idr = d.cur.idr
          BY <3>2, <4>2, <4>4 DEF Avc!IsFirst
        <5> QED BY <1>11, <2>1, <3>1, <3>2, <4>1, <5>1
      <4> QED BY <4>3, <4>4
    <3> QED BY <3>3, <3>4
  <2>2. CASE l # i
    <3>1. l \in 1..(i - 1) /\ i \in (l + 1)..i /\ i \in l..i
      BY <1>0, <2>2
    <3>2. ~ASlice(i) /\ n.t \notin {"slice", "idr"} /\ r.cur = d.cur
      BY <1>1, <1>3, <1>4, <1>12, <3>1
    <3>3. (\A j \in (l + 1)..(i - 1) : j \in (l + 1)..i) /\ (\A j \in l..(i - 1) : j \in l..i)
      BY <1>0
    <3>4. /\ d.cur.pic = Avc!Nal(l).pic /\ d.cur.idr = (Avc!Nal(l).t = "idr")
          /\ (\A j \in l..(i - 1) : ~ANotVcl(j)) => d.cur.pps = InPlaceOf(d, Avc!Nal(l).pps)
      BY <1>12, <3>1, <3>3 DEF DecAt
    <3>5. ASSUME \A j \in l..i : ~ANotVcl(j)
          PROVE  r.cur.pps = InPlaceOf(r, Avc!Nal(l).pps)
      <4>1. ~ANotVcl(i)
        BY <3>1, <3>5
      <4>2. n.t # "pps"
        BY <1>4, <3>2, <4>1
      <4> QED BY <1>11, <3>2, <3>3, <3>4, <3>5, <4>2
    <3> QED BY <3>2, <3>4, <3>5
  <2> QED BY <2>1, <2>2
<1>13. (i + 1) - 1 = i /\ i + 1 # 1 /\ i + 1 > 1
  BY <1>0
<1>14. DecAt(r, i + 1)
  <2> DEFINE k == i + 1
  <2>1. k - 1 = i /\ k # 1 /\ k > 1
    BY <1>13
  <2> HIDE DEF k
  <2>2. DecAt(r, k)
    <3>1. r.pd = IF k = 1 \/ AHides(k - 1) THEN "no" ELSE Avc!Class(Avc!Nal(k - 1).t)
      BY <1>7, <2>1
    <3>2. r.md \in {"view", "not view"} => k > 1 /\ AHides(k - 1)
      BY <1>7, <2>1
    <3> QED BY <1>8, <1>10, <1>12, <2>1, <3>1, <3>2 DEF DecAt
  <2> QED BY <2>2 DEF k
<1> QED BY <1>14 DEF r

(* A unit begins with the first NAL that is not of the picture before it.   *)
LEMMA AvcGoesOn ==
    ASSUME AStream, NEW j \in 1..Len(es.nals), j > 1, NEW d, DecOK(d), DecAt(d, j), ANotVcl(j - 1)
    PROVE  ~Avc!Starts(d, Avc!Nal(j))
<1> DEFINE n == Avc!Nal(j)
           m == Len(es.nals)
<1>1. j - 1 \in 1..m /\ j # 1
  <2>1. m \in Nat /\ j \in 1..m
    BY AvcNals DEF AStream
  <2> HIDE DEF m
  <2> QED BY <2>1
<1>2. ~AHides(j - 1)
  BY <1>1, AvcClasses
<1>3. d.pd = "not vcl"
  BY <1>1, <1>2 DEF DecAt, ANotVcl
<1>4. n.t # "eos"
  BY AvcClasses
<1> HIDE DEF n
<1>5. ~Avc!Starts(d, n)
  <2>1. CASE n.t = "aud"
    <3>1. n.t # "eos"
      BY <1>4
    <3>2. Avc!Starts(d, n) <=> d.pd # "not vcl"
      BY <2>1, <3>1, Zenon DEF Avc!Starts
    <3> QED BY <1>3, <3>2
  <2>2. CASE n.t \in {"pps", "sei"} /\ d.md = "not view"
    <3>1. n.t # "aud" /\ n.t # "eos"
      BY <1>4, <2>2
    <3> QED BY <2>2, <3>1, Zenon DEF Avc!Starts
  <2>3. CASE n.t \in {"slice", "idr"}
    <3>1. n.t # "aud" /\ n.t # "eos" /\ n.t \notin {"pps", "sei"}
      BY <1>4, <2>3
    <3>2. Avc!Starts(d, n) => d.pd # "not vcl"
      BY <2>3, <3>1, Zenon DEF Avc!Starts
    <3> QED BY <1>3, <3>2
  <2>4. CASE n.t \notin {"aud", "slice", "idr"} /\ ~(n.t \in {"pps", "sei"} /\ d.md = "not view")
    <3>1. n.t # "aud" /\ n.t # "eos" /\ n.t \notin {"slice", "idr"}
      BY <1>4, <2>4
    <3>2. Avc!Starts(d, n) <=> Avc!Class(n.t) = "not vcl" /\ d.pd = "vcl"
      BY <2>4, <3>1, Zenon DEF Avc!Starts
    <3> QED BY <1>3, <3>2
  <2> QED BY <2>1, <2>2, <2>3, <2>4
<1> QED BY <1>5 DEF n

(* Behind a picture a unit starts with a NAL that is no VCL or with a slice *)
(* of another picture.                                                      *)
LEMMA AvcBegins ==
    ASSUME AStream, NEW j \in 1..Len(es.nals), j > 1, NEW d, DecOK(d), DecAt(d, j),
           ~ANotVcl(j - 1),
           NEW l \in 1..(j - 1), ASlice(l), \A k \in (l + 1)..(j - 1) : ~ASlice(k)
    PROVE  Avc!Starts(d, Avc!Nal(j)) <=> ANotVcl(j) \/ (ASlice(j) /\ Avc!Nal(j).pic # Avc!Nal(l).pic)
<1> DEFINE n == Avc!Nal(j)
           m == Len(es.nals)
           s == Avc!ParseSlice(d, n)
<1>1. j - 1 \in 1..m /\ j # 1
  <2>1. m \in Nat /\ j \in 1..m
    BY AvcNals DEF AStream
  <2> HIDE DEF m
  <2> QED BY <2>1
<1>2. ASlice(j - 1) \/ AHides(j - 1)
  BY <1>1, AvcClasses
<1>3. /\ ASlice(j - 1) => d.pd = "vcl" /\ d.md # "not view"
      /\ AHides(j - 1) => d.pd = "no"
      /\ d.pd # "not vcl"
  <2>1. ASlice(j - 1) => Avc!Class(Avc!Nal(j - 1).t) = "vcl" /\ ~AHides(j - 1)
    BY <1>1, AvcClasses
  <2>2. d.pd = IF AHides(j - 1) THEN "no" ELSE Avc!Class(Avc!Nal(j - 1).t)
    BY <1>1 DEF DecAt
  <2>3. d.md \in {"view", "not view"} => AHides(j - 1)
    BY DEF DecAt
  <2> QED BY <1>2, <2>1, <2>2, <2>3
<1>4. /\ n.t # "eos"
      /\ ASlice(j) <=> n.t \in {"slice", "idr"}
      /\ ASlice(j) => ~ANotVcl(j)
      /\ ANotVcl(j) <=> Avc!Class(n.t) = "not vcl"
      /\ ANotVcl(j) => n.t \in {"sei", "sps", "pps", "aud"} /\ ~AHides(j)
      /\ ASlice(j) \/ ANotVcl(j) \/ AHides(j)
      /\ AHides(j) => n.t \notin {"pps", "sei", "sps", "aud"}
  BY AvcClasses DEF ASlice, Avc!IsSlice, ANotVcl
<1>5. ASlice(j) => (Avc!IsFirst(d, s) <=> n.pic # Avc!Nal(l).pic)
  <2> SUFFICES ASSUME ASlice(j) PROVE Avc!IsFirst(d, s) <=> n.pic # Avc!Nal(l).pic
    OBVIOUS
  <2>1. s.pic = n.pic /\ s.red = n.red /\ s.idr = (n.t = "idr") /\ s.pps = InPlaceOf(d, n.pps)
    BY AvcSlice
  <2>2. /\ n.red => n.pic = Avc!Nal(l).pic
        /\ n.pic = Avc!Nal(l).pic =>
             /\ n.pps = Avc!Nal(l).pps /\ n.t = Avc!Nal(l).t
             /\ \A k \in l..j : ~ANotVcl(k)
    BY AvcSamePicture
  <2>3. /\ d.cur.pic = Avc!Nal(l).pic /\ d.cur.idr = (Avc!Nal(l).t = "idr")
        /\ (\A k \in l..(j - 1) : ~ANotVcl(k)) => d.cur.pps = InPlaceOf(d, Avc!Nal(l).pps)
    BY DEF DecAt
  <2>4. \A k \in l..(j - 1) : k \in l..j
    <3>1. m \in Nat /\ j \in 1..m
      BY AvcNals DEF AStream
    <3> HIDE DEF m
    <3> QED BY <3>1
  <2> HIDE DEF s, n
  <2>5. CASE n.pic = Avc!Nal(l).pic
    BY <2>1, <2>2, <2>3, <2>4, <2>5 DEF Avc!IsFirst
  <2>6. CASE n.pic # Avc!Nal(l).pic
    BY <2>1, <2>2, <2>3, <2>6 DEF Avc!IsFirst
  <2> QED BY <2>5, <2>6
<1>6. AHides(j - 1) => n.t \in {"aud", "slice", "idr"} \/ AHides(j)
  BY AvcNeighbours
<1> HIDE DEF n, s
<1>7. CASE n.t = "aud"
  <2>1. Avc!Starts(d, n)
    BY <1>3, <1>4, <1>7, Zenon DEF Avc!Starts
  <2>2. ANotVcl(j)
    BY <1>4, <1>7 DEF Avc!Class
  <2> QED BY <2>1, <2>2 DEF n
<1>8. CASE n.t \in {"slice", "idr"}
  <2>1. n.t # "aud" /\ n.t # "eos" /\ n.t \notin {"pps", "sei"}
    BY <1>4, <1>8
  <2>2. Avc!Starts(d, n) <=> Avc!IsFirst(d, s)
    BY <1>3, <1>8, <2>1, Zenon DEF Avc!Starts, s
  <2> QED BY <1>4, <1>5, <1>8, <2>2 DEF n
<1>9. CASE n.t \notin {"aud", "slice", "idr"}
  <2>1. ANotVcl(j) => ASlice(j - 1)
    BY <1>2, <1>4, <1>6, <1>9
  <2>2. n.t \in {"pps", "sei"} => ASlice(j - 1)
    <3>1. n.t \in {"pps", "sei"} => ANotVcl(j)
      BY <1>4 DEF Avc!Class
    <3> QED BY <2>1, <3>1
  <2>3. n.t # "aud" /\ n.t # "eos" /\ n.t \notin {"slice", "idr"}
        /\ ~(n.t \in {"pps", "sei"} /\ d.md = "not view")
    BY <1>3, <1>4, <1>9, <2>2
  <2>4. Avc!Starts(d, n) <=> Avc!Class(n.t) = "not vcl" /\ d.pd = "vcl"
    BY <2>3, Zenon DEF Avc!Starts
  <2> QED BY <1>3, <1>4, <1>9, <2>1, <2>4 DEF n
<1> QED BY <1>7, <1>8, <1>9

(* A unit with the NAL behind it.                                           *)
LEMMA AvcUnitGrows ==
    ASSUME AStream, NEW from \in Nat, from >= 1, NEW i \in from..Len(es.nals),
           \/ AWaits(from, i - 1) /\ ~AHides(i)
           \/ APicture(from, i - 1) /\ AJoins(from, i)
    PROVE  (AWaits(from, i) /\ ANotVcl(i)) \/ APicture(from, i)
<1> DEFINE m == Len(es.nals)
<1>0. i \in 1..m /\ i \in Nat /\ from \in Nat /\ from <= i
  <2>1. m \in Nat /\ i \in from..m
    BY AvcNals DEF AStream
  <2> HIDE DEF m
  <2> QED BY <2>1
<1> HIDE DEF m
<1>1. ASlice(i) \/ ANotVcl(i) \/ AHides(i)
  BY <1>0, AvcClasses DEF m
<1>2. ASlice(i) => ~ANotVcl(i)
  BY <1>0, AvcClasses DEF m
<1>3. CASE AWaits(from, i - 1) /\ ~AHides(i)
  <2>1. CASE ANotVcl(i)
    <3>1. \A j \in from..i : j = i \/ j \in from..(i - 1)
      BY <1>0
    <3> QED BY <1>3, <2>1, <3>1 DEF AWaits
  <2>2. CASE ASlice(i)
    <3>1. i \in from..i /\ i \in i..i /\ (i + 1)..i = {} /\ \A j \in i..i : j = i
      BY <1>0
    <3> QED BY <1>2, <1>3, <2>2, <3>1 DEF AWaits, APicture
  <2> QED BY <1>1, <1>3, <2>1, <2>2
<1>4. CASE APicture(from, i - 1) /\ AJoins(from, i)
  <2>f. PICK f \in from..(i - 1) : \E l \in f..(i - 1) :
          /\ ASlice(f) /\ ASlice(l)
          /\ \A j \in from..(f - 1) : ANotVcl(j)
          /\ \A j \in f..(i - 1) : ~ANotVcl(j) /\ (ASlice(j) => Avc!Nal(j).pic = Avc!Nal(f).pic)
          /\ \A j \in (l + 1)..(i - 1) : ~ASlice(j)
    BY <1>4 DEF APicture
  <2>1. PICK l \in f..(i - 1) :
          /\ ASlice(f) /\ ASlice(l)
          /\ \A j \in from..(f - 1) : ANotVcl(j)
          /\ \A j \in f..(i - 1) : ~ANotVcl(j) /\ (ASlice(j) => Avc!Nal(j).pic = Avc!Nal(f).pic)
          /\ \A j \in (l + 1)..(i - 1) : ~ASlice(j)
    BY <2>f
  <2>2. f \in from..i /\ l \in f..i /\ i \in f..i /\ f \in Nat /\ l \in Nat
    BY <1>0
  <2>3. \A j \in f..i : ~ANotVcl(j) /\ (ASlice(j) => Avc!Nal(j).pic = Avc!Nal(f).pic)
    <3>1. \A j \in f..i : j = i \/ j \in f..(i - 1)
      BY <1>0, <2>2
    <3>2. ~ANotVcl(i) /\ (ASlice(i) => Avc!Nal(i).pic = Avc!Nal(f).pic)
      BY <1>4, <2>1 DEF AJoins
    <3> QED BY <2>1, <3>1, <3>2
  <2>4. CASE ASlice(i)
    <3>1. (i + 1)..i = {}
      BY <1>0
    <3> QED BY <2>1, <2>2, <2>3, <2>4, <3>1 DEF APicture
  <2>5. CASE ~ASlice(i)
    <3>1. \A j \in (l + 1)..i : j = i \/ j \in (l + 1)..(i - 1)
      BY <1>0, <2>2
    <3>2. \A j \in (l + 1)..i : ~ASlice(j)
      BY <2>1, <2>5, <3>1
    <3> QED BY <2>1, <2>2, <2>3, <3>2 DEF APicture
  <2> QED BY <2>4, <2>5
<1> QED BY <1>3, <1>4

(* Whether the unit ends ahead of the next NAL.                             *)
LEMMA AvcUnitEnds ==
    ASSUME AStream, NEW from \in Nat, from >= 1, NEW i \in from..Len(es.nals), i < Len(es.nals),
           NEW d, DecOK(d), DecAt(d, i + 1)
    PROVE  /\ AWaits(from, i) /\ ANotVcl(i) =>
                ~Avc!Starts(d, Avc!Nal(i + 1)) /\ ~AHides(i + 1)
           /\ APicture(from, i) /\ Avc!Starts(d, Avc!Nal(i + 1)) => APart(i)
           /\ APicture(from, i) /\ ~Avc!Starts(d, Avc!Nal(i + 1)) => AJoins(from, i + 1)
<1> DEFINE m == Len(es.nals)
           k == i + 1
<1>0. /\ m \in Nat /\ i \in 1..m /\ i \in Nat /\ i < m /\ k \in 1..m /\ k > 1 /\ k - 1 = i
      /\ k = i + 1 /\ from <= i /\ k \in Nat
  <2>1. m \in Nat /\ i \in from..m /\ i < m
    BY AvcNals DEF AStream
  <2> HIDE DEF m
  <2> QED BY <2>1
<1> HIDE DEF m, k
<1>1. DecAt(d, k)
  BY <1>0
<1>2. /\ ASlice(k) => ~ANotVcl(k) /\ ~AHides(k)
      /\ ANotVcl(k) => ~AHides(k)
  BY <1>0, AvcClasses DEF m
<1>3. ASSUME ANotVcl(i) PROVE ~Avc!Starts(d, Avc!Nal(k)) /\ ~AHides(k)
  <2>1. ~Avc!Starts(d, Avc!Nal(k))
    BY <1>0, <1>1, <1>3, AvcGoesOn DEF m
  <2>2. ~AHides(i) /\ ~ASlice(i)
    BY <1>0, <1>3, AvcClasses DEF m
  <2>3. AHides(k) => ASlice(k - 1) \/ AHides(k - 1)
    BY <1>0, AvcNeighbours DEF m
  <2> QED BY <1>0, <2>1, <2>2, <2>3
<1>4. ASSUME APicture(from, i)
      PROVE  /\ Avc!Starts(d, Avc!Nal(k)) => APart(i)
             /\ ~Avc!Starts(d, Avc!Nal(k)) => AJoins(from, k)
  <2>f. PICK f \in from..i : \E l \in f..i :
          /\ ASlice(f) /\ ASlice(l)
          /\ \A j \in from..(f - 1) : ANotVcl(j)
          /\ \A j \in f..i : ~ANotVcl(j) /\ (ASlice(j) => Avc!Nal(j).pic = Avc!Nal(f).pic)
          /\ \A j \in (l + 1)..i : ~ASlice(j)
    BY <1>4 DEF APicture
  <2>1. PICK l \in f..i :
          /\ ASlice(f) /\ ASlice(l)
          /\ \A j \in from..(f - 1) : ANotVcl(j)
          /\ \A j \in f..i : ~ANotVcl(j) /\ (ASlice(j) => Avc!Nal(j).pic = Avc!Nal(f).pic)
          /\ \A j \in (l + 1)..i : ~ASlice(j)
    BY <2>f
  <2>2. /\ f \in Nat /\ l \in Nat /\ l \in 1..i /\ i \in f..i
        /\ \A j \in from..i : j \in from..(f - 1) \/ j \in f..i
        /\ \A j \in from..(f - 1) : j \in 1..m
    BY <1>0
  <2>3. ~ANotVcl(i)
    BY <2>1, <2>2
  <2>4. ASSUME NEW x \in 1..i, ASlice(x), \A j \in (x + 1)..i : ~ASlice(j)
        PROVE  Avc!Starts(d, Avc!Nal(k)) <=>
                 ANotVcl(k) \/ (ASlice(k) /\ Avc!Nal(k).pic # Avc!Nal(x).pic)
    <3>1. x \in 1..(k - 1) /\ (\A j \in (x + 1)..(k - 1) : ~ASlice(j)) /\ ~ANotVcl(k - 1)
      BY <1>0, <2>3, <2>4
    <3> QED BY <1>0, <1>1, <2>4, <3>1, AvcBegins DEF m
  <2>5. ASSUME ~Avc!Starts(d, Avc!Nal(k)) PROVE AJoins(from, k)
    <3>1. ~ANotVcl(k) /\ (ASlice(k) => Avc!Nal(k).pic = Avc!Nal(l).pic)
      BY <2>1, <2>2, <2>4, <2>5
    <3>2. ASSUME NEW j \in from..i, ASlice(j) PROVE Avc!Nal(j).pic = Avc!Nal(l).pic
      <4>1. CASE j \in from..(f - 1)
        <5>1. ANotVcl(j) /\ j \in 1..m
          BY <2>1, <2>2, <4>1
        <5> QED BY <3>2, <5>1, AvcClasses DEF m
      <4>2. CASE j \in f..i
        BY <2>1, <3>2, <4>2
      <4> QED BY <2>2, <4>1, <4>2
    <3> QED BY <1>0, <3>1, <3>2 DEF AJoins
  <2>6. ASSUME Avc!Starts(d, Avc!Nal(k)) PROVE APart(i)
    <3>1. ANotVcl(k) \/ ASlice(k)
      BY <2>1, <2>2, <2>4, <2>6
    <3>2. ASSUME NEW x \in 1..i, NEW y \in k..m, ASlice(x), ASlice(y),
                 \A j \in (x + 1)..(y - 1) : ~ASlice(j)
          PROVE  Avc!Nal(y).pic # Avc!Nal(x).pic
      <4> SUFFICES ASSUME Avc!Nal(y).pic = Avc!Nal(x).pic PROVE FALSE
        OBVIOUS
      <4>1. /\ x \in Nat /\ y \in Nat /\ x \in 1..(y - 1) /\ y \in 1..m /\ k \in x..y
            /\ \A j \in (x + 1)..i : j \in (x + 1)..(y - 1)
            /\ k # y => k \in (x + 1)..(y - 1)
        BY <1>0
      <4>2. \A j \in x..y : ~ANotVcl(j)
        BY <3>2, <4>1, AvcSamePicture DEF m
      <4>3. ~ANotVcl(k) /\ ASlice(k)
        BY <3>1, <4>1, <4>2
      <4>4. k = y
        BY <3>2, <4>1, <4>3
      <4>5. Avc!Nal(k).pic # Avc!Nal(x).pic
        BY <2>4, <2>6, <3>2, <4>1, <4>3
      <4> QED BY <4>4, <4>5
    <3>3. ~AHides(k)
      BY <1>2, <3>1
    <3> QED BY <1>0, <3>2, <3>3 DEF APart, m
  <2> QED BY <2>5, <2>6
<1>5. i + 1 = k
  BY <1>0
<1> QED BY <1>3, <1>4, <1>5

(* The last unit has a picture, too.                                        *)
LEMMA AvcLastUnit ==
    ASSUME AStream, NEW from \in Nat, from >= 1, from <= Len(es.nals)
    PROVE  /\ ~AWaits(from, Len(es.nals)) /\ APart(Len(es.nals))
<1> DEFINE m == Len(es.nals)
<1>0. m \in Nat /\ from \in 1..m /\ from \in from..m /\ (m + 1)..m = {}
  <2>1. m \in Nat /\ from <= m
    BY AvcNals DEF AStream
  <2> HIDE DEF m
  <2> QED BY <2>1
<1>1. ~AWaits(from, m)
  <2> SUFFICES ASSUME AWaits(from, m) PROVE FALSE
    OBVIOUS
  <2>1. ANotVcl(from)
    BY <1>0 DEF AWaits
  <2>2. PICK j \in from..m : ASlice(j)
    BY <1>0, <2>1 DEF AStream, Avc!WholePictures, ANotVcl, ASlice
  <2>3. ANotVcl(j)
    BY <2>2 DEF AWaits
  <2>4. j \in 1..m
    <3> HIDE DEF m
    <3> QED BY <1>0
  <2> QED BY <2>2, <2>3, <2>4, AvcClasses
<1>2. APart(m)
  <2>1. ~(m < m)
    <3> HIDE DEF m
    <3> QED BY <1>0
  <2> QED BY <1>0, <2>1 DEF APart
<1> QED BY <1>1, <1>2

(* What the handling of a NAL keeps of it, and where it leaves the decoder. *)
LEMMA AvcBooksNal ==
    ASSUME NEW x, DOMAIN x = AvcFields, Avc!Book(x).err = ""
    PROVE  /\ x.err = "" /\ Avc!Book(x).dec = x.dec
           /\ Avc!Book(x).kept = IF Avc!Keeps(Avc!Nal(x.i)) THEN Append(x.kept, x.i) ELSE x.kept
<1> DEFINE y == Avc!Book(x)
           kp == Avc!Keeps(Avc!Nal(x.i))
<1>1. CASE ~kp \/ x.err # ""
  <2>1. y = x
    BY <1>1 DEF Avc!Book
  <2> HIDE DEF kp, y
  <2>2. x.err = ""
    BY <2>1 DEF y
  <2> QED BY <1>1, <2>1, <2>2 DEF y, kp
<1>2. CASE kp /\ x.err = ""
  <2> DEFINE e == IF Len(x.kept) + 1 >= MaxAvcNals THEN "buggy" ELSE ""
  <2>1. y = [x EXCEPT !.kept = Append(@, x.i), !.err = e]
    BY <1>2 DEF Avc!Book
  <2> HIDE DEF e, y, kp
  <2>2. y.dec = x.dec /\ y.kept = Append(x.kept, x.i)
    BY <2>1 DEF AvcFields
  <2> QED BY <1>2, <2>2 DEF y, kp
<1> QED BY <1>1, <1>2

(* What Take leaves when nothing is refused.                                *)
LEMMA AvcHandles ==
    ASSUME NEW a, DOMAIN a = AvcFields, DecOK(a.dec), Avc!IsNal(Avc!Nal(a.i)),
           Avc!Take(a).err = ""
    PROVE  LET n == Avc!Nal(a.i)
               c == Avc!Take(a)
               d == Avc!PhaseTwo(a.dec, n)
           IN  /\ d.ok
               /\ c.kept = IF Avc!Keeps(n) THEN Append(a.kept, a.i) ELSE a.kept
               /\ c.dec.pd = d.pd /\ c.dec.md = d.md /\ c.dec.pps = d.pps /\ c.dec.cur = d.cur
<1> DEFINE n == Avc!Nal(a.i)
           d == Avc!PhaseTwo(a.dec, n)
           dec == IF n.t = "sei" THEN [d EXCEPT !.activeSps = Avc!SeiSps(d, n)] ELSE d
           e == IF d.ok /\ ~Avc!Refused(n) THEN "" ELSE "bad stream"
           b == [a EXCEPT !.dec = dec, !.err = e]
           n2 == [n EXCEPT !.id = d.lastPps]
           c == Avc!Take(a)
           Left(x) == DOMAIN x = AvcFields /\ x.i = a.i /\ x.kept = a.kept /\ x.dec = dec
<1>1. DecOK(d)
  <2> DEFINE q == Avc!Parsed(a.dec, n)
  <2>1. DecOK(q)
    BY AvcParses
  <2> HIDE DEF q, n
  <2>2. DecOK(Avc!Delimit(q, n.t))
    BY <2>1, AvcDelimits
  <2>3. d = Avc!Delimit(q, n.t)
    BY DEF Avc!PhaseTwo, q
  <2> QED BY <2>2, <2>3
<1>2. \/ b.err # "" /\ c = b
      \/ b.err = "" /\ c = Avc!Book(Avc!StoreSet(b, n))
      \/ b.err = "" /\ c = Avc!Book(Avc!StoreSet(b, n2))
      \/ b.err = "" /\ c = Avc!Book(b)
  BY Zenon DEF Avc!Take
<1>n. n = Avc!Nal(a.i) /\ (e = "" => d.ok) /\ c.err = ""
  OBVIOUS
<1> HIDE DEF n2, c, e
<1>3. dec.pd = d.pd /\ dec.md = d.md /\ dec.pps = d.pps /\ dec.cur = d.cur
  <2> DEFINE s == Avc!SeiSps(d, n)
  <2>1. dec = IF n.t = "sei" THEN [d EXCEPT !.activeSps = s] ELSE d
    OBVIOUS
  <2> HIDE DEF s, d, n, dec
  <2>2. DOMAIN d = DecFields
    BY <1>1 DEF DecOK
  <2> QED BY <2>1, <2>2 DEF DecFields
<1> HIDE DEF dec, d, n
<1>4. Left(b) /\ b.err = e
  BY DEF AvcFields
<1> HIDE DEF b
<1>5. b.err = ""
  BY <1>2, <1>n
<1>6. ASSUME NEW x PROVE Left(Avc!StoreSet(b, x))
  <2> DEFINE s == Avc!StoreSet(b, x)
  <2>1. \E ds, w, er : s = [b EXCEPT !.dsis = ds, !.newSd = w, !.err = er]
    BY DEF Avc!StoreSet
  <2> HIDE DEF s
  <2>2. Left(s)
    BY <1>4, <2>1 DEF AvcFields
  <2> QED BY <2>2 DEF s
<1>7. PICK x : Left(x) /\ c = Avc!Book(x)
  BY <1>2, <1>4, <1>5, <1>6
<1>8. c.dec = dec /\ c.kept = IF Avc!Keeps(n) THEN Append(a.kept, a.i) ELSE a.kept
  <2>1. Avc!Nal(x.i) = n /\ x.i = a.i /\ x.kept = a.kept /\ x.dec = dec
    BY <1>7, <1>n
  <2>2. Avc!Book(x).err = ""
    BY <1>7, <1>n
  <2> QED BY <1>7, <2>1, <2>2, AvcBooksNal
<1> QED BY <1>3, <1>4, <1>5, <1>8, <1>n DEF c, d, n

(* The slices and delimiters of a unit are kept.                            *)
LEMMA AvcKeeps ==
    ASSUME NEW i, ASlice(i) \/ Avc!Nal(i).t = "aud"
    PROVE  Avc!Keeps(Avc!Nal(i))
<1> DEFINE n == Avc!Nal(i)
<1>1. n.t \in {"slice", "idr", "aud"}
  BY DEF ASlice, Avc!IsSlice
<1> HIDE DEF n
<1>2. n.t \notin {"sps", "pps", "spsext", "sei", "filler"}
  BY <1>1
<1>3. Avc!Keeps(n)
  BY <1>2, Zenon DEF Avc!Keeps
<1> QED BY <1>3 DEF n

(* What is kept of a unit with a NAL more.                                  *)
LEMMA AvcKeptGrows ==
    ASSUME NEW from \in Nat, NEW i \in Nat, from <= i, NEW kept, AUnit(from, i - 1, kept),
           NEW kept2, kept2 = (IF Avc!Keeps(Avc!Nal(i)) THEN Append(kept, i) ELSE kept)
    PROVE  AUnit(from, i, kept2)
<1>0. IsSeq(kept) /\ Len(kept) \in Nat /\ i \in from..i
      /\ \A j \in from..i : j = i \/ j \in from..(i - 1)
  BY Appended DEF AUnit
<1>1. \A j \in 1..Len(kept) : kept[j] \in from..i
  <2> SUFFICES ASSUME NEW j \in 1..Len(kept) PROVE kept[j] \in from..i
    OBVIOUS
  <2>1. kept[j] \in from..(i - 1)
    BY DEF AUnit
  <2> QED BY <2>1
<1>2. CASE Avc!Keeps(Avc!Nal(i))
  <2>1. kept2 = Append(kept, i)
    BY <1>2
  <2>2. /\ IsSeq(kept2) /\ Len(kept2) = Len(kept) + 1 /\ kept2[Len(kept) + 1] = i
        /\ \A j \in 1..Len(kept) : kept2[j] = kept[j]
    BY <1>0, <2>1, Appended
  <2>3. /\ \A j \in 1..Len(kept2) : j = Len(kept) + 1 \/ j \in 1..Len(kept)
        /\ Len(kept) + 1 \in 1..Len(kept2) /\ \A j \in 1..Len(kept) : j \in 1..Len(kept2)
    BY <1>0, <2>2
  <2>4. \A j \in 1..Len(kept2) : kept2[j] \in from..i
    BY <1>0, <1>1, <2>2, <2>3
  <2>5. ASSUME NEW j \in from..i, ASlice(j) \/ Avc!Nal(j).t = "aud"
        PROVE  \E l \in 1..Len(kept2) : kept2[l] = j
    <3>1. CASE j = i
      BY <2>2, <2>3, <3>1
    <3>2. CASE j # i
      <4>1. PICK l \in 1..Len(kept) : kept[l] = j
        BY <1>0, <2>5, <3>2 DEF AUnit
      <4> QED BY <2>2, <2>3, <4>1
    <3> QED BY <3>1, <3>2
  <2> QED BY <2>2, <2>4, <2>5 DEF AUnit
<1>3. CASE ~Avc!Keeps(Avc!Nal(i))
  <2>1. kept2 = kept
    BY <1>3
  <2>2. ASSUME NEW j \in from..i, ASlice(j) \/ Avc!Nal(j).t = "aud"
        PROVE  \E l \in 1..Len(kept2) : kept2[l] = j
    <3>1. j # i
      BY <1>3, <2>2, AvcKeeps
    <3> QED BY <1>0, <2>1, <2>2, <3>1 DEF AUnit
  <2> QED BY <1>0, <1>1, <2>1, <2>2 DEF AUnit
<1> QED BY <1>2, <1>3

LEMMA AvcKeptSomething ==
    ASSUME NEW from, NEW to, NEW kept, AUnit(from, to, kept), APicture(from, to)
    PROVE  kept # << >>
<1>1. PICK f \in from..to : ASlice(f)
  BY DEF APicture
<1>2. PICK j \in 1..Len(kept) : kept[j] = f
  BY <1>1 DEF AUnit
<1>3. Len(kept) # 0
  <2>1. Len(kept) \in Nat
    BY Appended DEF AUnit
  <2> QED BY <2>1
<1> QED BY <1>3, Appended DEF AUnit
-----------------------------------------------------------------------------
LEMMA AvcAuStarts ==
    ASSUME Avc!Init PROVE AvcAu
<1>1. PICK s \in AvcStreams : Avc!Start(s)
  BY DEF Avc!Init
<1>2. /\ out = << >> /\ status = "open" /\ p.i = 1 /\ p.run = "idle" /\ p.err = "" /\ p.auNum = 0
      /\ p.info = << >> /\ p.dec = Avc!NoDec
  BY <1>1 DEF Avc!Start
<1>3. es \in AvcStreams /\ Len(es.nals) \in Nat
  BY <1>1, AvcNals DEF Avc!Start
<1>4. IsSeq(p.info) /\ Len(p.info) = p.auNum
  <2>1. Len(<< >>) = 0
    OBVIOUS
  <2> QED BY <1>2, <2>1, EmptyIsSeq
<1>5. p.i \in 1..(Len(es.nals) + 1) /\ p.i = UFrom
  <2>1. p.i = 1
    BY <1>2
  <2>2. UFrom = 0 + 1
    BY <1>2 DEF UFrom
  <2> QED BY <1>3, <2>1, <2>2
<1>6. \A k \in 1..Len(out) : FALSE
  <2>1. Len(<< >>) = 0
    OBVIOUS
  <2>2. 1..0 = {}
    OBVIOUS
  <2> QED BY <1>2, <2>1, <2>2
<1>7. DecAt(p.dec, p.i)
  <2>1. Avc!NoDec.pd = "no" /\ Avc!NoDec.md = "no"
    BY DEF Avc!NoDec
  <2>2. DecAt(Avc!NoDec, 1)
    <3>1. 1..(1 - 1) = {} /\ ~(1 > 1)
      OBVIOUS
    <3> QED BY <2>1, <3>1 DEF DecAt
  <2> QED BY <1>2, <2>2
<1>8. ASSUME Avc!WellDelimited, Avc!WholePictures, p.i <= Len(es.nals)
      PROVE  Looked(p.dec, p.i) /\ ~AHides(p.i)
  <2>1. AStream
    BY <1>3, <1>8 DEF AStream
  <2>2. 1 \in 1..Len(es.nals) /\ p.i = 1
    <3>1. p.i = 1
      BY <1>2
    <3> QED BY <1>3, <1>8, <3>1
  <2>3. ANotVcl(1)
    BY <2>1, <2>2, AvcNeighbours
  <2>4. ~ASlice(1) /\ ~AHides(1)
    BY <2>1, <2>2, <2>3, AvcClasses
  <2> QED BY <2>2, <2>4 DEF Looked
<1> QED BY <1>2, <1>4, <1>5, <1>6, <1>7, <1>8 DEF AvcAu

(* What is said of a unit depends on the stream alone.                      *)
LEMMA AvcSees ==
    ASSUME es' = es, NEW a, NEW b, NEW c
    PROVE  /\ AUnit(a, b, c)' <=> AUnit(a, b, c)
           /\ AWaits(a, b)' <=> AWaits(a, b)
           /\ APicture(a, b)' <=> APicture(a, b)
           /\ AJoins(a, b)' <=> AJoins(a, b)
           /\ APart(b)' <=> APart(b)
           /\ AHides(b)' <=> AHides(b)
           /\ DecAt(a, b)' <=> DecAt(a, b)
           /\ Looked(a, b)' <=> Looked(a, b)
<1>1. AUnit(a, b, c)' <=> AUnit(a, b, c)
  BY DEF AUnit, ASlice, Avc!IsSlice, Avc!Nal
<1>2. AWaits(a, b)' <=> AWaits(a, b)
  BY DEF AWaits, ANotVcl, Avc!Nal, Avc!Class
<1>3. APicture(a, b)' <=> APicture(a, b)
  BY DEF APicture, ANotVcl, ASlice, Avc!IsSlice, Avc!Nal, Avc!Class
<1>4. AJoins(a, b)' <=> AJoins(a, b)
  BY DEF AJoins, ANotVcl, ASlice, Avc!IsSlice, Avc!Nal, Avc!Class
<1>5. APart(b)' <=> APart(b)
  BY DEF APart, AHides, ASlice, Avc!Hides, Avc!IsSlice, Avc!Nal, Avc!Class
<1>6. AHides(b)' <=> AHides(b)
  BY DEF AHides, Avc!Hides, Avc!Nal, Avc!Class
<1>7. DecAt(a, b)' <=> DecAt(a, b)
  BY DEF DecAt, InPlaceOf, ANotVcl, AHides, ASlice, Avc!Hides, Avc!IsSlice, Avc!Nal, Avc!Class
<1>8. Looked(a, b)' <=> Looked(a, b)
  BY DEF Looked, InPlaceOf, ASlice, Avc!IsSlice, Avc!Nal, Avc!IsFirst
<1> QED BY <1>1, <1>2, <1>3, <1>4, <1>5, <1>6, <1>7, <1>8

(* The samples there are do not change.                                     *)
LEMMA AvcSampleStays ==
    ASSUME es' = es, NEW k, ASample(k),
           out'[k] = out[k], p'.info[k] = p.info[k], UBegin(k)' = UBegin(k)
    PROVE  ASample(k)'
<1>1. PICK h, to, kept : h = UBegin(k) /\ to = out[k].end /\ kept = p.info[k]
  OBVIOUS
<1>2. UBegin(k)' = h /\ out'[k].end = to /\ p'.info[k] = kept
  BY <1>1
<1>3. AUnit(h, to, kept)' /\ APicture(h, to)' /\ APart(to)'
  BY <1>1, AvcSees DEF ASample
<1>4. AUnit(UBegin(k), out[k].end, p.info[k])' /\ APicture(UBegin(k), out[k].end)' /\ APart(out[k].end)'
  BY <1>2, <1>3
<1> QED BY <1>1, <1>2, <1>4 DEF ASample

LEMMA AvcSamplesStay ==
    ASSUME es' = es, NEW l \in Nat, \A k \in 1..l : ASample(k),
           \A k \in 1..l : out'[k] = out[k] /\ p'.info[k] = p.info[k]
    PROVE  \A k \in 1..l : ASample(k)'
<1> SUFFICES ASSUME NEW k \in 1..l PROVE ASample(k)'
  OBVIOUS
<1>1. out'[k] = out[k] /\ p'.info[k] = p.info[k] /\ ASample(k)
  OBVIOUS
<1>2. UBegin(k)' = UBegin(k)
  <2>1. k = 1 \/ k - 1 \in 1..l
    OBVIOUS
  <2> QED BY <2>1 DEF UBegin
<1> QED BY <1>1, <1>2, AvcSampleStays

LEMMA AvcFrom ==
    ASSUME IsSeq(out), \A k \in 1..Len(out) : ASample(k)
    PROVE  UFrom \in Nat /\ UFrom >= 1
<1>1. CASE out = << >>
  BY <1>1 DEF UFrom
<1>2. CASE out # << >>
  <2>1. Len(out) \in 1..Len(out)
    BY <1>2, Appended
  <2>2. ASample(Len(out))
    BY <2>1
  <2> DEFINE h == UBegin(Len(out))
             e == out[Len(out)].end
             m == Len(es.nals)
  <2>3. h \in Nat /\ e \in h..m
    BY <2>2 DEF ASample
  <2>4. UFrom = e + 1
    BY <1>2 DEF UFrom
  <2> HIDE DEF h, e, m
  <2>5. e \in Nat
    BY <2>3
  <2> QED BY <2>4, <2>5
<1> QED BY <1>1, <1>2

(* And so does what is said of the stream.                                  *)
LEMMA AvcStreamSeen ==
    ASSUME es' = es
    PROVE  /\ Avc!WellDelimited' <=> Avc!WellDelimited
           /\ Avc!WholePictures' <=> Avc!WholePictures
<1>1. \A i : Avc!Nal(i)' = Avc!Nal(i)
  BY DEF Avc!Nal
<1>2. \A i : Avc!IsSlice(i)' <=> Avc!IsSlice(i)
  BY <1>1 DEF Avc!IsSlice
<1>3. \A t : Avc!Hides(t)' <=> Avc!Hides(t)
  BY DEF Avc!Hides, Avc!Class
<1>4. \A t : Avc!Class(t)' = Avc!Class(t)
  BY DEF Avc!Class
<1>5. Avc!WellDelimited' <=> Avc!WellDelimited
  BY <1>1, <1>3 DEF Avc!WellDelimited
<1>6. Avc!WholePictures' <=> Avc!WholePictures
  <2> DEFINE Placed(i) ==
               /\ Avc!IsSlice(i) => \E j \in 1..(i - 1) :
                    Avc!Nal(j).t = "pps" /\ Avc!Nal(j).id \in {Avc!Nal(i).pps, 0}
               /\ Avc!Hides(Avc!Nal(i).t) =>
                    i > 1 /\ (Avc!IsSlice(i - 1) \/ Avc!Hides(Avc!Nal(i - 1).t))
               /\ Avc!Class(Avc!Nal(i).t) = "not vcl" =>
                    \E j \in i..Len(es.nals) : Avc!IsSlice(j)
             Behind(i, j) == \A m \in (i + 1)..(j - 1) : ~Avc!IsSlice(m)
             Alike(i, j) ==
               /\ Avc!Nal(j).red => Avc!Nal(j).pic = Avc!Nal(i).pic
               /\ Avc!Nal(j).pic = Avc!Nal(i).pic =>
                    /\ Avc!Nal(j).pps = Avc!Nal(i).pps /\ Avc!Nal(j).t = Avc!Nal(i).t
                    /\ \A m \in i..j : Avc!Class(Avc!Nal(m).t) # "not vcl"
  <2>1. \A i : Placed(i)' <=> Placed(i)
    BY <1>1, <1>2, <1>3, <1>4
  <2>2. \A i, j : Behind(i, j)' <=> Behind(i, j)
    BY <1>2
  <2>3. \A i, j : Alike(i, j)' <=> Alike(i, j)
    BY <1>1, <1>4
  <2>4. Avc!WholePictures <=>
          /\ \A i \in 1..Len(es.nals) : Placed(i)
          /\ \A i, j \in 1..Len(es.nals) :
               Avc!IsSlice(i) /\ Avc!IsSlice(j) /\ i < j /\ Behind(i, j) => Alike(i, j)
    BY DEF Avc!WholePictures
  <2>5. Avc!WholePictures' <=>
          /\ \A i \in 1..Len(es'.nals) : Placed(i)'
          /\ \A i, j \in 1..Len(es'.nals) :
               Avc!IsSlice(i)' /\ Avc!IsSlice(j)' /\ i < j /\ Behind(i, j)' => Alike(i, j)'
    BY DEF Avc!WholePictures
  <2> HIDE DEF Placed, Behind, Alike
  <2> QED BY <1>2, <2>1, <2>2, <2>3, <2>4, <2>5
<1> QED BY <1>5, <1>6

LEMMA AvcStreamStays ==
    ASSUME es' = es, es \in AvcStreams, Avc!WellDelimited', Avc!WholePictures'
    PROVE  AStream
BY AvcStreamSeen DEF AStream

(* AVC: one lemma for each action of the parser.                            *)
LEMMA AvcAuCalls ==
    ASSUME AvcPace, AvcAu, Avc!GetSample
    PROVE  AvcAu'
<1> DEFINE d == IF p.auNum = 0 THEN Avc!LookAhead(p.dec, Avc!Nal(p.i)) ELSE p.dec
<1>1. /\ out' = out /\ status' = status /\ es' = es /\ p.run = "idle" /\ p.i <= Len(es.nals)
      /\ p' = [p EXCEPT !.dec = d, !.kept = << >>, !.newSd = FALSE, !.run = "unit"]
  BY DEF Avc!GetSample
<1> HIDE DEF d
<1>2. /\ p'.run = "unit" /\ p'.kept = << >> /\ p'.dec = d
      /\ \A f \in AvcFields \ {"dec", "kept", "newSd", "run"} : p'[f] = p[f]
  BY <1>1 DEF AvcPace, AvcFields
<1>3. /\ p'.i = p.i /\ p'.err = p.err /\ p'.info = p.info /\ p'.auNum = p.auNum
      /\ p'.failed = p.failed
  BY <1>2 DEF AvcFields
<1>4. ASSUME Avc!WellDelimited', Avc!WholePictures', p'.failed = 0
      PROVE  /\ \A k \in 1..Len(out') : ASample(k)'
             /\ UFrom' <= p'.i /\ DecAt(p.dec, p.i)' /\ Looked(p.dec, p.i)'
             /\ AUnit(UFrom, p.i - 1, p.kept)'
             /\ AWaits(UFrom, p.i - 1)' /\ ~AHides(p.i)'
  <2>0. AStream /\ p.failed = 0
    BY <1>1, <1>3, <1>4, AvcStreamStays DEF AvcPace
  <2>1. /\ \A k \in 1..Len(out) : ASample(k)
        /\ p.i = UFrom /\ DecAt(p.dec, p.i) /\ Looked(p.dec, p.i) /\ ~AHides(p.i)
    BY <1>1, <2>0 DEF AvcAu, AStream
  <2>2. Len(out) \in Nat
    BY Appended DEF AvcPace
  <2>3. \A k \in 1..Len(out') : ASample(k)'
    BY <1>1, <1>3, <2>1, <2>2, AvcSamplesStay
  <2>4. PICK i, e : i = p.i /\ e = d
    OBVIOUS
  <2>5. i \in Nat /\ i \in 1..Len(es.nals)
    <3>1. Len(es.nals) \in Nat
      BY AvcNals DEF AvcPace
    <3>2. i \in Nat \ {0} /\ i <= Len(es.nals)
      BY <1>1, <2>4 DEF AvcPace
    <3> QED BY <3>1, <3>2
  <2>6. UFrom' = i /\ p'.i = i /\ p'.dec = e /\ p'.kept = << >>
    <3>1. UFrom' = UFrom
      BY <1>1 DEF UFrom
    <3> QED BY <1>2, <1>3, <2>1, <2>4, <3>1
  <2>7. DecAt(e, i) /\ Looked(e, i) /\ ~AHides(i)
    <3>1. CASE p.auNum = 0
      <4>1. e = Avc!LookAhead(p.dec, Avc!Nal(i))
        BY <2>4, <3>1 DEF d
      <4>2. DecOK(p.dec) /\ DecAt(p.dec, i)
        BY <2>1, <2>4 DEF AvcPace
      <4> QED BY <2>0, <2>1, <2>4, <2>5, <4>1, <4>2, AvcLooksAt
    <3>2. CASE p.auNum # 0
      <4>1. e = p.dec
        BY <2>4, <3>2 DEF d
      <4> QED BY <2>1, <2>4, <4>1
    <3> QED BY <3>1, <3>2
  <2>8. AUnit(i, i - 1, << >>) /\ AWaits(i, i - 1)
    <3>1. i..(i - 1) = {} /\ Len(<< >>) = 0 /\ 1..0 = {}
      BY <2>5
    <3> QED BY <3>1, EmptyIsSeq DEF AUnit, AWaits
  <2>9. /\ DecAt(e, i)' /\ Looked(e, i)' /\ ~AHides(i)'
        /\ AUnit(i, i - 1, << >>)' /\ AWaits(i, i - 1)'
    BY <1>1, <2>7, <2>8, AvcSees
  <2>10. UFrom' <= p'.i
    BY <2>5, <2>6
  <2>11. DecAt(p.dec, p.i)' /\ Looked(p.dec, p.i)' /\ ~AHides(p.i)'
    BY <2>6, <2>9
  <2>12. AUnit(UFrom, p.i - 1, p.kept)' /\ AWaits(UFrom, p.i - 1)'
    BY <2>6, <2>9
  <2> QED BY <2>3, <2>10, <2>11, <2>12
<1>5. p'.i \in 1..(Len(es'.nals) + 1)
  BY <1>1, <1>3 DEF AvcAu
<1>6. p'.err = ""
  BY <1>1, <1>3 DEF AvcAu
<1>7. status' \in {"open", "eoes", "bad stream", "multiple descriptions", "buggy"}
  BY <1>1 DEF AvcAu
<1>8. IsSeq(p'.info) /\ Len(p'.info) = p'.auNum
  BY <1>3 DEF AvcAu
<1> QED BY <1>2, <1>4, <1>5, <1>6, <1>7, <1>8 DEF AvcAu

LEMMA AvcAuTakes ==
    ASSUME AvcPace, AvcAu, Avc!TakeNal
    PROVE  AvcAu'
<1> DEFINE b == Avc!Take(p)
           m == Len(es.nals)
           n == Avc!Nal(p.i + 1)
           over == b.kept # << >> /\ Avc!Starts(b.dec, n)
           ahead == Avc!LookAhead(b.dec, n)
<1>1. /\ out' = out /\ status' = status /\ es' = es /\ p.run = "unit" /\ p.err = ""
      /\ p.i \in 1..m /\ m \in Nat
  <2>1. p.run = "unit" /\ out' = out /\ status' = status /\ es' = es
    BY DEF Avc!TakeNal
  <2>2. m \in Nat
    BY AvcNals DEF AvcPace
  <2>3. p.i \in Nat \ {0} /\ p.i <= m
    BY <2>1 DEF AvcPace
  <2>6. p.err = ""
    BY <2>1 DEF AvcAu
  <2> HIDE DEF m
  <2>5. p.i \in 1..m
    BY <2>2, <2>3
  <2> QED BY <2>1, <2>2, <2>5, <2>6
<1>2. Avc!IsNal(Avc!Nal(p.i))
  BY <1>1, AvcNals DEF AvcPace
<1>3. /\ DOMAIN b = AvcFields /\ DecOK(b.dec)
      /\ \A f \in {"i", "auNum", "ticks", "info", "failed", "run"} : b[f] = p[f]
  BY <1>2, AvcTakes DEF AvcPace, Unmoved
<1>4. b.err = "" =>
        /\ Avc!PhaseTwo(p.dec, Avc!Nal(p.i)).ok
        /\ b.kept = IF Avc!Keeps(Avc!Nal(p.i)) THEN Append(p.kept, p.i) ELSE p.kept
        /\ LET e == Avc!PhaseTwo(p.dec, Avc!Nal(p.i))
           IN  b.dec.pd = e.pd /\ b.dec.md = e.md /\ b.dec.pps = e.pps /\ b.dec.cur = e.cur
  BY <1>2, AvcHandles DEF AvcPace
<1>5. \/ b.err # "" /\ p' = [b EXCEPT !.run = "end"]
      \/ b.err = "" /\ p.i = m /\ p' = [b EXCEPT !.i = @ + 1, !.run = "end"]
      \/ b.err = "" /\ p.i # m /\ p' = [b EXCEPT !.i = @ + 1, !.dec = ahead,
                                                 !.run = IF over THEN "end" ELSE @]
  <2>1. p' = CASE b.err # "" -> [b EXCEPT !.run = "end"]
               [] b.err = "" /\ p.i = m -> [b EXCEPT !.i = @ + 1, !.run = "end"]
               [] OTHER -> [b EXCEPT !.i = @ + 1, !.dec = ahead, !.run = IF over THEN "end" ELSE @]
    BY DEF Avc!TakeNal
  <2> HIDE DEF b, over, m, ahead
  <2>2. CASE b.err # ""
    BY <2>1, <2>2, Zenon
  <2>3. CASE b.err = "" /\ p.i = m
    BY <2>1, <2>3, Zenon
  <2>4. CASE b.err = "" /\ p.i # m
    BY <2>1, <2>4, Zenon
  <2> QED BY <2>2, <2>3, <2>4
<1> HIDE DEF b, over, ahead, n, m
<1>6. /\ p'.auNum = p.auNum /\ p'.info = p.info /\ p'.failed = p.failed /\ p'.err = b.err
      /\ p'.kept = b.kept
      /\ \/ b.err # "" /\ p'.i = p.i /\ p'.run = "end"
         \/ b.err = "" /\ p.i = m /\ p'.i = p.i + 1 /\ p'.run = "end" /\ p'.dec = b.dec
         \/ b.err = "" /\ p.i # m /\ over /\ p'.i = p.i + 1 /\ p'.run = "end" /\ p'.dec = ahead
         \/ b.err = "" /\ p.i # m /\ ~over /\ p'.i = p.i + 1 /\ p'.run = "unit" /\ p'.dec = ahead
  <2>0. /\ b.i = p.i /\ b.run = "unit" /\ b.auNum = p.auNum /\ b.info = p.info
        /\ b.failed = p.failed /\ DOMAIN b = AvcFields
    BY <1>1, <1>3
  <2>1. CASE b.err # "" /\ p' = [b EXCEPT !.run = "end"]
    BY <2>0, <2>1 DEF AvcFields
  <2>2. CASE b.err = "" /\ p.i = m /\ p' = [b EXCEPT !.i = @ + 1, !.run = "end"]
    BY <2>0, <2>2 DEF AvcFields
  <2>3. CASE b.err = "" /\ p.i # m /\ p' = [b EXCEPT !.i = @ + 1, !.dec = ahead,
                                                     !.run = IF over THEN "end" ELSE @]
    <3>1. \E r : p' = [b EXCEPT !.i = @ + 1, !.dec = ahead, !.run = r]
                 /\ r = (IF over THEN "end" ELSE b.run)
      BY <2>3
    <3>2. p'.run = (IF over THEN "end" ELSE b.run) /\ p'.i = b.i + 1 /\ p'.dec = ahead
          /\ \A f \in AvcFields \ {"i", "dec", "run"} : p'[f] = b[f]
      BY <2>0, <3>1 DEF AvcFields
    <3> QED BY <2>0, <2>3, <3>2 DEF AvcFields
  <2> QED BY <1>5, <2>1, <2>2, <2>3
<1>r. p.i \in 1..m /\ m \in Nat
  BY <1>1
<1>i. p.i \in Nat /\ 1 <= p.i /\ p.i <= m
  BY <1>r
<1>p. PICK i, h, e, k : i = p.i /\ h = UFrom /\ e = b.dec /\ k = b.kept
  OBVIOUS
<1>7. i \in 1..m /\ i \in Nat /\ 1 <= i /\ i <= m
  BY <1>r, <1>i, <1>p
<1>8. ASSUME Avc!WellDelimited', Avc!WholePictures', p'.failed = 0
      PROVE  /\ AStream
             /\ \A j \in 1..Len(out) : ASample(j)
             /\ \A j \in 1..Len(out') : ASample(j)'
             /\ h \in Nat /\ h >= 1 /\ h <= i /\ i \in h..m /\ UFrom' = h
             /\ DecAt(p.dec, i) /\ Looked(p.dec, i) /\ AUnit(h, i - 1, p.kept)
             /\ \/ AWaits(h, i - 1) /\ ~AHides(i)
                \/ APicture(h, i - 1) /\ AJoins(h, i)
  <2>1. AStream /\ p.failed = 0
    BY <1>1, <1>6, <1>8, AvcStreamStays DEF AvcPace
  <2>2. /\ \A j \in 1..Len(out) : ASample(j)
        /\ UFrom <= p.i /\ DecAt(p.dec, p.i) /\ Looked(p.dec, p.i)
        /\ AUnit(UFrom, p.i - 1, p.kept)
        /\ \/ AWaits(UFrom, p.i - 1) /\ ~AHides(p.i)
           \/ APicture(UFrom, p.i - 1) /\ AJoins(UFrom, p.i)
    BY <1>1, <2>1 DEF AvcAu, AStream
  <2>3. Len(out) \in Nat
    BY Appended DEF AvcPace
  <2>4. \A j \in 1..Len(out') : ASample(j)'
    BY <1>1, <1>6, <2>2, <2>3, AvcSamplesStay
  <2>5. h \in Nat /\ h >= 1
    BY <1>p, <2>2, AvcFrom DEF AvcPace
  <2>6. UFrom' = h
    <3>1. UFrom' = UFrom
      BY <1>1 DEF UFrom
    <3> QED BY <1>p, <3>1
  <2>7. h <= i
    BY <1>p, <2>2
  <2>8. i \in h..m
    BY <1>7, <1>r, <2>5, <2>7
  <2>9. /\ DecAt(p.dec, i) /\ Looked(p.dec, i) /\ AUnit(h, i - 1, p.kept)
        /\ \/ AWaits(h, i - 1) /\ ~AHides(i)
           \/ APicture(h, i - 1) /\ AJoins(h, i)
    BY <1>p, <2>2
  <2> QED BY <2>1, <2>2, <2>4, <2>5, <2>6, <2>7, <2>8, <2>9
<1>9. ASSUME Avc!WellDelimited', Avc!WholePictures', p'.failed = 0, b.err = ""
      PROVE  /\ DecOK(e) /\ DecAt(e, i + 1) /\ AUnit(h, i, k)
             /\ (AWaits(h, i) /\ ANotVcl(i)) \/ APicture(h, i)
  <2>1. DecOK(e)
    BY <1>3, <1>p
  <2>2. DecAt(e, i + 1)
    <3>1. DecAt(Avc!PhaseTwo(p.dec, Avc!Nal(i)), i + 1)
      <4>1. DecOK(p.dec) /\ Avc!PhaseTwo(p.dec, Avc!Nal(i)).ok
        BY <1>4, <1>9, <1>p DEF AvcPace
      <4>2. i \in 1..Len(es.nals)
        BY <1>7 DEF m
      <4> QED BY <1>8, <1>9, <4>1, <4>2, AvcMoves
    <3>2. LET q == Avc!PhaseTwo(p.dec, Avc!Nal(i))
          IN  e.pd = q.pd /\ e.md = q.md /\ e.pps = q.pps /\ e.cur = q.cur
      BY <1>4, <1>9, <1>p
    <3> QED BY <3>1, <3>2, DecAtOf
  <2>3. AUnit(h, i, k)
    <3>1. k = IF Avc!Keeps(Avc!Nal(i)) THEN Append(p.kept, i) ELSE p.kept
      BY <1>4, <1>9, <1>p
    <3>2. h \in Nat /\ i \in Nat /\ h <= i /\ AUnit(h, i - 1, p.kept)
      BY <1>7, <1>8, <1>9
    <3> QED BY <3>1, <3>2, AvcKeptGrows
  <2>4. (AWaits(h, i) /\ ANotVcl(i)) \/ APicture(h, i)
    <3>1. i \in h..Len(es.nals) /\ AStream /\ h \in Nat /\ h >= 1
      BY <1>8, <1>9 DEF m
    <3> QED BY <1>8, <1>9, <3>1, AvcUnitGrows
  <2> QED BY <2>1, <2>2, <2>3, <2>4
<1>10. ASSUME Avc!WellDelimited', Avc!WholePictures', p'.failed = 0, b.err = "", p.i # m
       PROVE  /\ DecAt(ahead, i + 1) /\ Looked(ahead, i + 1)
              /\ over => APicture(h, i) /\ APart(i)
              /\ ~over => \/ AWaits(h, i) /\ ~AHides(i + 1)
                          \/ APicture(h, i) /\ AJoins(h, i + 1)
  <2>1. i < m /\ i + 1 \in 1..m
    <3>1. i # m
      BY <1>10, <1>p
    <3> QED BY <1>7, <1>r, <3>1
  <2>2. ahead = Avc!LookAhead(e, Avc!Nal(i + 1))
    BY <1>p DEF ahead, n
  <2>3. over <=> k # << >> /\ Avc!Starts(e, Avc!Nal(i + 1))
    BY <1>p DEF over, n
  <2>4. DecAt(ahead, i + 1) /\ Looked(ahead, i + 1)
    <3>1. i + 1 \in 1..Len(es.nals)
      BY <2>1 DEF m
    <3> QED BY <1>8, <1>9, <1>10, <2>2, <3>1, AvcLooksAt
  <2>5. /\ AWaits(h, i) /\ ANotVcl(i) => ~Avc!Starts(e, Avc!Nal(i + 1)) /\ ~AHides(i + 1)
        /\ APicture(h, i) /\ Avc!Starts(e, Avc!Nal(i + 1)) => APart(i)
        /\ APicture(h, i) /\ ~Avc!Starts(e, Avc!Nal(i + 1)) => AJoins(h, i + 1)
    <3>1. i \in h..Len(es.nals) /\ AStream /\ h \in Nat /\ h >= 1 /\ i < Len(es.nals)
      BY <1>8, <1>10, <2>1 DEF m
    <3>2. DecOK(e) /\ DecAt(e, i + 1)
      BY <1>9, <1>10
    <3> QED BY <3>1, <3>2, AvcUnitEnds
  <2>6. APicture(h, i) => k # << >>
    BY <1>9, <1>10, AvcKeptSomething
  <2>7. (AWaits(h, i) /\ ANotVcl(i)) \/ APicture(h, i)
    BY <1>9, <1>10
  <2> QED BY <2>3, <2>4, <2>5, <2>6, <2>7
<1>11. ASSUME Avc!WellDelimited', Avc!WholePictures', p'.failed = 0, b.err = "", p.i = m
       PROVE  APicture(h, i) /\ APart(i)
  <2>1. i = Len(es.nals) /\ h <= Len(es.nals)
    <3>1. h <= i /\ i = m
      BY <1>8, <1>11, <1>p
    <3> QED BY <3>1 DEF m
  <2>2. ~AWaits(h, i) /\ APart(i)
    <3>1. AStream /\ h \in Nat /\ h >= 1
      BY <1>8, <1>11
    <3> QED BY <2>1, <3>1, AvcLastUnit
  <2> QED BY <1>9, <1>11, <2>2
<1>12. p'.i \in 1..(Len(es'.nals) + 1)
  <2>1. p'.i = p.i \/ p'.i = p.i + 1
    BY <1>6
  <2>2. p'.i \in 1..(m + 1)
    BY <1>r, <1>i, <2>1
  <2> QED BY <1>1, <2>2 DEF m
<1>13. p'.run \in {"unit", "end"} /\ (p'.run # "end" => p'.err = "")
  BY <1>6
<1>14. /\ status' \in {"open", "eoes", "bad stream", "multiple descriptions", "buggy"}
       /\ IsSeq(p'.info) /\ Len(p'.info) = p'.auNum
  BY <1>1, <1>6 DEF AvcAu
<1>15. ASSUME Avc!WellDelimited', Avc!WholePictures', p'.failed = 0, p'.run = "unit"
       PROVE  /\ UFrom' <= p'.i /\ DecAt(p.dec, p.i)' /\ Looked(p.dec, p.i)'
              /\ AUnit(UFrom, p.i - 1, p.kept)'
              /\ \/ AWaits(UFrom, p.i - 1)' /\ ~AHides(p.i)'
                 \/ APicture(UFrom, p.i - 1)' /\ AJoins(UFrom, p.i)'
  <2>1. b.err = "" /\ p.i # m /\ ~over /\ p'.i = p.i + 1 /\ p'.dec = ahead /\ p'.kept = b.kept
    BY <1>6, <1>15
  <2>2. PICK q, j : q = ahead /\ j = i + 1
    OBVIOUS
  <2>3. /\ DecAt(q, j) /\ Looked(q, j) /\ AUnit(h, i, k)
        /\ \/ AWaits(h, i) /\ ~AHides(j)
           \/ APicture(h, i) /\ AJoins(h, j)
    BY <1>9, <1>10, <1>15, <2>1, <2>2
  <2>4. /\ DecAt(q, j)' /\ Looked(q, j)' /\ AUnit(h, i, k)'
        /\ \/ AWaits(h, i)' /\ ~AHides(j)'
           \/ APicture(h, i)' /\ AJoins(h, j)'
    BY <1>1, <2>3, AvcSees
  <2>5. UFrom' = h /\ p'.i = j /\ p'.dec = q /\ p'.kept = k
    BY <1>8, <1>15, <1>p, <2>1, <2>2
  <2>6. p'.i - 1 = i
    BY <1>7, <2>2, <2>5
  <2>7. UFrom' <= p'.i
    BY <1>7, <1>8, <1>15, <2>2, <2>5
  <2>8. DecAt(p.dec, p.i)' /\ Looked(p.dec, p.i)'
    BY <2>4, <2>5
  <2>9. AUnit(UFrom, p.i - 1, p.kept)'
    BY <2>4, <2>5, <2>6
  <2>10. \/ AWaits(UFrom, p.i - 1)' /\ ~AHides(p.i)'
         \/ APicture(UFrom, p.i - 1)' /\ AJoins(UFrom, p.i)'
    BY <2>4, <2>5, <2>6
  <2> QED BY <2>7, <2>8, <2>9, <2>10
<1>16. ASSUME Avc!WellDelimited', Avc!WholePictures', p'.failed = 0, p'.run = "end", p'.err = ""
       PROVE  /\ UFrom' < p'.i /\ DecAt(p.dec, p.i)'
              /\ p'.i <= Len(es'.nals) => Looked(p.dec, p.i)'
              /\ AUnit(UFrom, p.i - 1, p.kept)'
              /\ APicture(UFrom, p.i - 1)' /\ APart(p.i - 1)'
  <2>1. /\ b.err = "" /\ p'.i = p.i + 1 /\ p'.kept = b.kept
        /\ \/ p.i = m /\ p'.dec = b.dec
           \/ p.i # m /\ over /\ p'.dec = ahead
    BY <1>6, <1>16
  <2>2. PICK q, j : q = p'.dec /\ j = i + 1
    OBVIOUS
  <2>3. DecAt(q, j) /\ AUnit(h, i, k) /\ APicture(h, i) /\ APart(i) /\ (p.i # m => Looked(q, j))
    BY <1>9, <1>10, <1>11, <1>16, <1>p, <2>1, <2>2
  <2>4. /\ DecAt(q, j)' /\ AUnit(h, i, k)' /\ APicture(h, i)' /\ APart(i)'
        /\ p.i # m => Looked(q, j)'
    BY <1>1, <2>3, AvcSees
  <2>5. UFrom' = h /\ p'.i = j /\ p'.dec = q /\ p'.kept = k
    BY <1>8, <1>16, <1>p, <2>1, <2>2
  <2>6. p'.i - 1 = i
    BY <1>7, <2>2, <2>5
  <2>7. UFrom' < p'.i
    <3>1. h \in Nat /\ h <= i
      BY <1>8, <1>16
    <3> QED BY <1>7, <2>2, <2>5, <3>1
  <2>8. p'.i <= Len(es'.nals) => p.i # m
    <3>1. Len(es'.nals) = m
      BY <1>1 DEF m
    <3>2. p'.i = p.i + 1
      BY <2>1
    <3> QED BY <1>r, <1>i, <3>1, <3>2
  <2>9. DecAt(p.dec, p.i)' /\ (p.i # m => Looked(p.dec, p.i)')
    BY <2>4, <2>5
  <2>10. AUnit(UFrom, p.i - 1, p.kept)' /\ APicture(UFrom, p.i - 1)' /\ APart(p.i - 1)'
    BY <2>4, <2>5, <2>6
  <2> QED BY <2>7, <2>8, <2>9, <2>10
<1>17. ASSUME Avc!WellDelimited', Avc!WholePictures', p'.failed = 0
       PROVE  \A j \in 1..Len(out') : ASample(j)'
  BY <1>8, <1>17
<1> QED BY <1>12, <1>13, <1>14, <1>15, <1>16, <1>17 DEF AvcAu

LEMMA AvcAuDelivers ==
    ASSUME AvcPace, AvcAu, Avc!DeliverSample
    PROVE  AvcAu'
<1> DEFINE x == Avc!Sample
           c == Avc!Configured(p.dec)
<1>n. PICK n : n = Len(out)
  OBVIOUS
<1>1. p.run = "end" /\ Avc!Outcome = "ok" /\ es' = es /\ status' = status
      /\ out' = IF c THEN Append(out, x) ELSE out
  BY DEF Avc!DeliverSample
<1>2. p.err = ""
  <2>1. p.err # "" => Avc!Outcome = p.err
    BY Zenon DEF Avc!Outcome
  <2>2. p.err # "ok"
    BY DEF AvcPace, Errors
  <2> QED BY <1>1, <2>1, <2>2
<1>3. /\ p'.run = "idle" /\ p'.auNum = p.auNum + 1 /\ p'.info = Append(p.info, p.kept)
      /\ p'.err = p.err /\ p'.i = p.i /\ p'.dec = p.dec
      /\ p'.failed = IF c THEN p.failed ELSE p.failed + 1
  <2>1. \E t, f, r, s :
          /\ p' = [p EXCEPT !.run = "idle", !.auNum = @ + 1, !.ticks = t, !.info = r,
                            !.failed = f, !.dsis = s]
          /\ f = IF c THEN p.failed ELSE p.failed + 1
          /\ r = Append(p.info, p.kept)
    BY DEF Avc!DeliverSample
  <2> HIDE DEF x, c
  <2> QED BY <2>1 DEF AvcPace, AvcFields
<1>4. /\ IsSeq(out) /\ n \in Nat /\ p.auNum \in Nat /\ p.failed \in Nat /\ p.auNum = n + p.failed
      /\ IsSeq(p.info) /\ Len(p.info) = p.auNum
  BY <1>n, Appended DEF AvcPace, AvcAu, Regularly
<1>5. x.size = Len(p.kept) /\ x.pos = Len(p.info) + 1 /\ x.end = p.i - 1
  BY DEF Avc!Sample
<1>6. /\ IsSeq(p'.info) /\ Len(p'.info) = p'.auNum
      /\ p'.info[Len(p.info) + 1] = p.kept /\ \A k \in 1..Len(p.info) : p'.info[k] = p.info[k]
  <2>1. \A s, e : IsSeq(s) =>
          /\ IsSeq(Append(s, e)) /\ Len(Append(s, e)) = Len(s) + 1
          /\ Append(s, e)[Len(s) + 1] = e /\ \A i \in 1..Len(s) : Append(s, e)[i] = s[i]
    BY Appended
  <2>2. p'.info = Append(p.info, p.kept) /\ p'.auNum = p.auNum + 1
    BY <1>3
  <2>3. IsSeq(p'.info) /\ Len(p'.info) = p'.auNum
    BY <1>4, <2>1, <2>2
  <2>4. p'.info[Len(p.info) + 1] = p.kept /\ \A k \in 1..Len(p.info) : p'.info[k] = p.info[k]
    BY <1>4, <2>1, <2>2
  <2> QED BY <2>3, <2>4
<1>7. p'.err = "" /\ p'.run = "idle" /\ p'.i \in 1..(Len(es'.nals) + 1)
      /\ status' \in {"open", "eoes", "bad stream", "multiple descriptions", "buggy"}
  BY <1>1, <1>2, <1>3 DEF AvcAu
<1> HIDE DEF x, c
<1>8. ASSUME Avc!WellDelimited', Avc!WholePictures', p'.failed = 0
      PROVE  /\ \A k \in 1..Len(out') : ASample(k)'
             /\ p'.i = UFrom' /\ DecAt(p.dec, p.i)'
             /\ p'.i <= Len(es'.nals) => Looked(p.dec, p.i)' /\ ~AHides(p.i)'
  <2>1. c /\ p.failed = 0
    BY <1>3, <1>4, <1>8
  <2>2. /\ out' = Append(out, x) /\ Len(out') = n + 1 /\ out'[n + 1] = x /\ out' # << >>
        /\ \A k \in 1..n : out'[k] = out[k]
    BY <1>1, <1>4, <1>n, <2>1, Appended
  <2>3. n = Len(p.info)
    BY <1>4, <2>1
  <2>p. PICK h, i, to, d, kept : h = UFrom /\ i = p.i /\ to = p.i - 1 /\ d = p.dec /\ kept = p.kept
    OBVIOUS
  <2>4. /\ \A k \in 1..n : ASample(k)
        /\ h < i /\ DecAt(d, i) /\ (i <= Len(es.nals) => Looked(d, i))
        /\ AUnit(h, to, kept) /\ APicture(h, to) /\ APart(to)
    <3>1. AStream
      BY <1>1, <1>8, AvcStreamStays DEF AvcPace
    <3>2. /\ \A k \in 1..n : ASample(k)
          /\ UFrom < p.i /\ DecAt(p.dec, p.i) /\ (p.i <= Len(es.nals) => Looked(p.dec, p.i))
          /\ AUnit(UFrom, p.i - 1, p.kept) /\ APicture(UFrom, p.i - 1) /\ APart(p.i - 1)
      BY <1>1, <1>2, <1>n, <2>1, <3>1 DEF AvcAu, AStream
    <3> QED BY <2>p, <3>2
  <2>5. h \in Nat /\ i \in Nat /\ to \in Nat /\ i = to + 1 /\ Len(es.nals) \in Nat
        /\ to \in h..Len(es.nals)
    <3> DEFINE m == Len(es.nals)
    <3>1. h \in Nat
      BY <1>4, <1>n, <2>4, <2>p, AvcFrom
    <3>2. m \in Nat /\ i \in 1..(m + 1) /\ to = i - 1
      BY <2>p, AvcNals DEF AvcPace, AvcAu
    <3>3. h < i
      BY <2>4
    <3> HIDE DEF m
    <3>4. h \in Nat /\ i \in Nat /\ to \in Nat /\ i = to + 1 /\ m \in Nat /\ to \in h..m
      BY <3>1, <3>2, <3>3
    <3> QED BY <3>4 DEF m
  <2>6. \A k \in 1..n : ASample(k)'
    BY <1>1, <1>4, <1>6, <2>2, <2>3, <2>4, AvcSamplesStay
  <2>7. UBegin(n + 1)' = h
    <3>1. CASE n = 0
      <4>1. out = << >> /\ n + 1 = 1
        <5>1. out = << >>
          BY <1>4, <1>n, <3>1, Appended
        <5>2. n + 1 = 1
          BY <3>1
        <5> QED BY <5>1, <5>2
      <4> QED BY <2>p, <4>1 DEF UBegin, UFrom
    <3>2. CASE n # 0
      <4>1. (n + 1) - 1 = n /\ n + 1 # 1 /\ n \in 1..n
        BY <1>4, <3>2
      <4>2. out # << >> /\ Len(out) = n
        BY <1>4, <1>n, <3>2, Appended
      <4>3. UBegin(n + 1)' = out'[n].end + 1
        BY <4>1 DEF UBegin
      <4>4. UFrom = out[n].end + 1
        BY <4>2 DEF UFrom
      <4> QED BY <2>2, <2>p, <4>1, <4>3, <4>4
    <3> QED BY <3>1, <3>2
  <2>8. /\ AUnit(h, to, kept)' /\ APicture(h, to)' /\ APart(to)' /\ DecAt(d, i)'
        /\ i <= Len(es.nals) => Looked(d, i)'
    BY <1>1, <2>4, AvcSees
  <2>9. ASample(n + 1)'
    <3>1. PICK q : q = n + 1
      OBVIOUS
    <3>2. UBegin(q)' = h /\ out'[q].end = to /\ p'.info[q] = kept
      BY <1>5, <1>6, <2>2, <2>3, <2>7, <2>p, <3>1
    <3>3. out'[q].pos = q /\ out'[q].size = Len(p'.info[q])
      BY <1>5, <2>2, <2>3, <2>p, <3>1, <3>2
    <3>4. UBegin(q)' \in Nat /\ out'[q].end \in UBegin(q)'..Len(es'.nals)
      BY <1>1, <2>5, <3>2
    <3>5. AUnit(UBegin(q), out[q].end, p.info[q])' /\ APicture(UBegin(q), out[q].end)'
          /\ APart(out[q].end)'
      BY <2>8, <3>2
    <3>6. ASample(q)'
      BY <3>3, <3>4, <3>5 DEF ASample
    <3> QED BY <3>1, <3>6
  <2>10. \A k \in 1..Len(out') : ASample(k)'
    <3> SUFFICES ASSUME NEW k \in 1..Len(out') PROVE ASample(k)'
      OBVIOUS
    <3>1. k = n + 1 \/ k \in 1..n
      BY <1>4, <2>2
    <3>2. CASE k \in 1..n
      BY <2>6, <3>2
    <3>3. CASE k = n + 1
      BY <2>9, <3>3
    <3> QED BY <3>1, <3>2, <3>3
  <2>11. p'.i = UFrom' /\ p'.i = i /\ p'.dec = d
    <3>1. UFrom' = out'[n + 1].end + 1
      BY <2>2 DEF UFrom
    <3>2. out'[n + 1].end = to
      BY <1>5, <2>2, <2>p
    <3> QED BY <1>3, <2>5, <2>p, <3>1, <3>2
  <2>12. ASSUME p'.i <= Len(es'.nals) PROVE Looked(p.dec, p.i)' /\ ~AHides(p.i)'
    <3>1. to < Len(es.nals) /\ i <= Len(es.nals)
      BY <1>1, <2>5, <2>11, <2>12
    <3>2. ~AHides(to + 1)
      BY <2>4, <3>1 DEF APart
    <3>3. ~AHides(i)'
      <4>1. ~AHides(i)
        BY <2>5, <3>2
      <4> QED BY <1>1, <4>1, AvcSees
    <3>4. Looked(d, i)'
      BY <2>8, <3>1
    <3> QED BY <2>11, <3>3, <3>4
  <2>13. DecAt(p.dec, p.i)'
    BY <2>8, <2>11
  <2> QED BY <2>10, <2>11, <2>12, <2>13
<1> QED BY <1>6, <1>7, <1>8 DEF AvcAu

LEMMA AvcAuRests ==
    ASSUME AvcAu, es' = es, p' = p, out' = out,
           status' \in {"open", "eoes", "bad stream", "multiple descriptions", "buggy"}
    PROVE  AvcAu'
<1>p. PICK h, i, to, d, kept : h = UFrom /\ i = p.i /\ to = p.i - 1 /\ d = p.dec /\ kept = p.kept
  OBVIOUS
<1>1. UFrom' = h /\ p'.i = i /\ p'.i - 1 = to /\ p'.dec = d /\ p'.kept = kept
  <2>1. UFrom' = UFrom
    BY DEF UFrom
  <2> QED BY <1>p, <2>1
<1>2. /\ AUnit(h, to, kept)' <=> AUnit(h, to, kept)
      /\ AWaits(h, to)' <=> AWaits(h, to)
      /\ APicture(h, to)' <=> APicture(h, to)
      /\ AJoins(h, i)' <=> AJoins(h, i)
      /\ APart(to)' <=> APart(to)
      /\ AHides(i)' <=> AHides(i)
      /\ DecAt(d, i)' <=> DecAt(d, i)
      /\ Looked(d, i)' <=> Looked(d, i)
  BY AvcSees
<1>3. /\ AUnit(UFrom, p.i - 1, p.kept)' <=> AUnit(UFrom, p.i - 1, p.kept)
      /\ AWaits(UFrom, p.i - 1)' <=> AWaits(UFrom, p.i - 1)
      /\ APicture(UFrom, p.i - 1)' <=> APicture(UFrom, p.i - 1)
      /\ AJoins(UFrom, p.i)' <=> AJoins(UFrom, p.i)
      /\ APart(p.i - 1)' <=> APart(p.i - 1)
      /\ AHides(p.i)' <=> AHides(p.i)
      /\ DecAt(p.dec, p.i)' <=> DecAt(p.dec, p.i)
      /\ Looked(p.dec, p.i)' <=> Looked(p.dec, p.i)
  BY <1>1, <1>2, <1>p
<1>4. ASSUME NEW k, ASample(k) PROVE ASample(k)'
  <2>1. UBegin(k)' = UBegin(k)
    BY DEF UBegin
  <2> QED BY <1>4, <2>1, AvcSampleStays
<1>5. (\A k \in 1..Len(out) : ASample(k)) => (\A k \in 1..Len(out') : ASample(k)')
  BY <1>4
<1>6. (Avc!WellDelimited' <=> Avc!WellDelimited) /\ (Avc!WholePictures' <=> Avc!WholePictures)
  BY AvcStreamSeen
<1>8. UFrom' = UFrom
  BY <1>1, <1>p
<1> QED BY <1>3, <1>5, <1>6, <1>8 DEF AvcAu

LEMMA AvcAuStops ==
    ASSUME AvcPace, AvcAu, Avc!EndOfStream \/ Avc!Fail
    PROVE  AvcAu'
<1>1. es' = es /\ p' = p /\ out' = out
  BY DEF Avc!EndOfStream, Avc!Fail
<1>2. status' \in {"open", "eoes", "bad stream", "multiple descriptions", "buggy"}
  <2>1. CASE Avc!EndOfStream
    BY <2>1 DEF Avc!EndOfStream
  <2>2. CASE Avc!Fail
    <3>1. Avc!Outcome \in {"eoes", "bad stream", "ok"} \/ (p.err # "" /\ Avc!Outcome = p.err)
      BY Zenon DEF Avc!Outcome
    <3> QED BY <2>2, <3>1 DEF Avc!Fail, AvcPace, Errors
  <2> QED BY <2>1, <2>2
<1> QED BY <1>1, <1>2, AvcAuRests

LEMMA AvcAuSteps ==
    ASSUME AvcPace, AvcAu, Avc!Next
    PROVE  AvcAu'
BY AvcAuCalls, AvcAuTakes, AvcAuDelivers, AvcAuStops DEF Avc!Next

(* The picture of a unit.                                                   *)
LEMMA AvcUnitIsPicture ==
    ASSUME AStream, NEW from \in 1..Len(es.nals), NEW to \in from..Len(es.nals), APicture(from, to)
    PROVE  \E f, l \in from..to :
             /\ ASlice(f) /\ ASlice(l) /\ Avc!Nal(l).pic = Avc!Nal(f).pic
             /\ \A j \in from..(f - 1) : ~ASlice(j)
             /\ \A j \in (l + 1)..to : ~ASlice(j)
             /\ Avc!Pictures(from..to) = {Avc!Nal(f).pic}
             /\ ~ANotVcl(to)
<1> DEFINE m == Len(es.nals)
<1>0. m \in Nat /\ from \in 1..m /\ to \in from..m
  BY AvcNals DEF AStream
<1>1. PICK f \in from..to :
        \E l \in f..to :
           /\ ASlice(f) /\ ASlice(l)
           /\ \A j \in from..(f - 1) : ANotVcl(j)
           /\ \A j \in f..to : ~ANotVcl(j) /\ (ASlice(j) => Avc!Nal(j).pic = Avc!Nal(f).pic)
           /\ \A j \in (l + 1)..to : ~ASlice(j)
  BY DEF APicture
<1>2. PICK l \in f..to :
        /\ ASlice(f) /\ ASlice(l)
        /\ \A j \in from..(f - 1) : ANotVcl(j)
        /\ \A j \in f..to : ~ANotVcl(j) /\ (ASlice(j) => Avc!Nal(j).pic = Avc!Nal(f).pic)
        /\ \A j \in (l + 1)..to : ~ASlice(j)
  BY <1>1
<1> HIDE DEF m
<1>3. l \in from..to /\ f \in from..to /\ f \in f..to /\ to \in f..to
  BY <1>0
<1>4. ASSUME NEW j \in from..(f - 1) PROVE ~ASlice(j)
  <2>1. j \in 1..m
    BY <1>0, <1>3
  <2>2. ANotVcl(j)
    BY <1>2
  <2> QED BY <2>1, <2>2, AvcClasses DEF m
<1>5. Avc!Pictures(from..to) = {Avc!Nal(f).pic}
  <2>1. ASSUME NEW j \in from..to, ASlice(j) PROVE Avc!Nal(j).pic = Avc!Nal(f).pic
    <3>1. j \in f..to \/ j \in from..(f - 1)
      BY <1>0, <1>3
    <3> QED BY <1>2, <1>4, <2>1, <3>1
  <2>2. Avc!Pictures(from..to) = {Avc!Nal(i).pic : i \in {j \in from..to : ASlice(j)}}
    BY DEF Avc!Pictures, ASlice, Avc!IsSlice
  <2>3. f \in {j \in from..to : ASlice(j)}
    BY <1>2, <1>3
  <2> QED BY <2>1, <2>2, <2>3
<1>6. Avc!Nal(l).pic = Avc!Nal(f).pic /\ ~ANotVcl(to)
  BY <1>2, <1>3
<1> QED BY <1>2, <1>3, <1>4, <1>5, <1>6

(* From the units to what is said of AVC samples.                           *)
LEMMA AvcAuIsRight ==
    ASSUME AvcPace, AvcAu
    PROVE  Avc!TypeOK /\ (Avc!WholePictures => Avc!AccessUnits)
<1>1. Avc!TypeOK
  BY DEF AvcPace, AvcAu, Regularly, Avc!TypeOK
<1>2. ASSUME Avc!WellDelimited, Avc!WholePictures, p.failed = 0, NEW k \in 1..Len(out)
      PROVE  /\ Avc!Cardinality(Avc!Pictures(Avc!Extent(k))) = 1
             /\ k > 1 => Avc!Pictures(Avc!Extent(k - 1)) # Avc!Pictures(Avc!Extent(k))
             /\ Len(Avc!CopySample(out[k])) = out[k].size
             /\ \A i \in 1..out[k].size : Avc!CopySample(out[k])[i] \in Avc!Extent(k)
             /\ {i \in Avc!Extent(k) : Avc!Nal(i).t \in {"slice", "idr", "aud"}}
                  \subseteq {Avc!CopySample(out[k])[i] : i \in 1..out[k].size}
             /\ Avc!Class(Avc!Nal(out[k].end).t) = "not vcl" => out[k].end = Len(es.nals)
  <2> DEFINE m == Len(es.nals)
             l == Len(out)
  <2>0. AStream
    BY <1>2 DEF AvcPace, AStream
  <2>1. \A j \in 1..l : ASample(j)
    BY <1>2 DEF AvcAu
  <2>3. l \in Nat /\ m \in Nat /\ k \in 1..l
    BY <2>0, Appended, AvcNals DEF AvcPace, AStream
  <2>4. ASSUME NEW j \in 1..l
        PROVE  /\ UBegin(j) \in 1..m /\ out[j].end \in UBegin(j)..m /\ out[j].end \in 1..m
               /\ Avc!Extent(j) = UBegin(j)..out[j].end
               /\ j > 1 => UBegin(j) = out[j - 1].end + 1 /\ j - 1 \in 1..l
    <3> HIDE DEF l, m
    <3>1. UBegin(j) \in Nat /\ out[j].end \in UBegin(j)..m
      BY <2>1 DEF ASample, m
    <3>2. UBegin(j) >= 1
      <4>1. CASE j = 1
        BY <4>1 DEF UBegin
      <4>2. CASE j # 1
        <5> DEFINE e == out[j - 1].end
        <5>1. j - 1 \in 1..l
          BY <2>3, <4>2
        <5>2. UBegin(j - 1) \in Nat /\ e \in UBegin(j - 1)..m
          BY <2>1, <5>1 DEF ASample, m
        <5>3. UBegin(j) = e + 1
          BY <4>2 DEF UBegin
        <5> HIDE DEF e
        <5>4. e \in Nat
          BY <5>2
        <5> QED BY <5>3, <5>4
      <4> QED BY <4>1, <4>2
    <3>3. UBegin(j) \in 1..m /\ out[j].end \in 1..m
      BY <2>3, <3>1, <3>2
    <3>4. Avc!Extent(j) = UBegin(j)..out[j].end
      BY DEF UBegin, Avc!Extent
    <3>5. j > 1 => UBegin(j) = out[j - 1].end + 1 /\ j - 1 \in 1..l
      <4>1. j > 1 => j # 1 /\ j - 1 \in 1..l
        BY <2>3
      <4> QED BY <4>1 DEF UBegin
    <3> QED BY <3>1, <3>3, <3>4, <3>5
  <2>p. PICK from, to, kept : from = UBegin(k) /\ to = out[k].end /\ kept = p.info[k]
    OBVIOUS
  <2>5. /\ from \in 1..m /\ to \in from..m /\ AUnit(from, to, kept) /\ APicture(from, to)
        /\ out[k].pos = k /\ out[k].size = Len(kept) /\ Avc!Extent(k) = from..to
        /\ Avc!CopySample(out[k]) = kept
    <3>1. ASample(k)
      BY <2>1
    <3>2. UBegin(k) \in 1..m /\ out[k].end \in UBegin(k)..m
          /\ Avc!Extent(k) = UBegin(k)..out[k].end
      BY <2>4
    <3>3. Avc!CopySample(out[k]) = kept
      BY <2>p, <3>1 DEF ASample, Avc!CopySample
    <3> QED BY <2>p, <3>1, <3>2, <3>3 DEF ASample
  <2>6. PICK f, g \in from..to :
             /\ ASlice(f) /\ ASlice(g) /\ Avc!Nal(g).pic = Avc!Nal(f).pic
             /\ \A j \in from..(f - 1) : ~ASlice(j)
             /\ \A j \in (g + 1)..to : ~ASlice(j)
             /\ Avc!Pictures(from..to) = {Avc!Nal(f).pic}
             /\ ~ANotVcl(to)
    BY <2>0, <2>5, AvcUnitIsPicture
  <2>7. Avc!Cardinality(Avc!Pictures(Avc!Extent(k))) = 1
    <3>1. Cardinality(Avc!Pictures(Avc!Extent(k))) = 1
      BY <2>5, <2>6, FS_Singleton
    <3>2. \A S : Avc!Cardinality(S) = Cardinality(S)
      BY DEF Avc!Cardinality, Cardinality
    <3> QED BY <3>1, <3>2
  <2>8. ASSUME k > 1 PROVE Avc!Pictures(Avc!Extent(k - 1)) # Avc!Pictures(Avc!Extent(k))
    <3>1. k - 1 \in 1..l /\ from = out[k - 1].end + 1
      BY <2>4, <2>8, <2>p
    <3>p. PICK r, e : r = UBegin(k - 1) /\ e = out[k - 1].end
      OBVIOUS
    <3>2. /\ r \in 1..m /\ e \in r..m /\ Avc!Extent(k - 1) = r..e
          /\ APicture(r, e) /\ APart(e) /\ from = e + 1
      BY <2>1, <2>4, <3>1, <3>p DEF ASample
    <3>3. PICK q, h \in r..e :
             /\ ASlice(q) /\ ASlice(h) /\ Avc!Nal(h).pic = Avc!Nal(q).pic
             /\ \A j \in r..(q - 1) : ~ASlice(j)
             /\ \A j \in (h + 1)..e : ~ASlice(j)
             /\ Avc!Pictures(r..e) = {Avc!Nal(q).pic}
             /\ ~ANotVcl(e)
      BY <2>0, <3>2, AvcUnitIsPicture
    <3> HIDE DEF m, l
    <3>4. h \in 1..e /\ f \in (e + 1)..m
      BY <2>3, <2>5, <3>2
    <3>5. ASSUME NEW j \in (h + 1)..(f - 1) PROVE ~ASlice(j)
      <4>1. j \in (h + 1)..e \/ j \in from..(f - 1)
        BY <2>3, <2>5, <3>2, <3>4
      <4> QED BY <2>6, <3>3, <4>1
    <3>6. Avc!Nal(f).pic # Avc!Nal(h).pic
      BY <2>6, <3>2, <3>3, <3>4, <3>5 DEF APart, m
    <3> QED BY <2>5, <2>6, <3>2, <3>3, <3>6
  <2>9. \A i \in 1..out[k].size : Avc!CopySample(out[k])[i] \in Avc!Extent(k)
    BY <2>5 DEF AUnit
  <2>10. {i \in Avc!Extent(k) : Avc!Nal(i).t \in {"slice", "idr", "aud"}}
           \subseteq {Avc!CopySample(out[k])[i] : i \in 1..out[k].size}
    <3>1. ASSUME NEW i \in from..to, Avc!Nal(i).t \in {"slice", "idr", "aud"}
          PROVE  \E j \in 1..Len(kept) : kept[j] = i
      <4>1. ASlice(i) \/ Avc!Nal(i).t = "aud"
        BY <3>1 DEF ASlice, Avc!IsSlice
      <4> QED BY <2>5, <4>1 DEF AUnit
    <3> QED BY <2>5, <3>1
  <2>11. Avc!Class(Avc!Nal(out[k].end).t) # "not vcl"
    BY <2>6, <2>p DEF ANotVcl
  <2>12. Len(Avc!CopySample(out[k])) = out[k].size
    BY <2>5
  <2> QED BY <2>7, <2>8, <2>9, <2>10, <2>11, <2>12
<1>3. Avc!WholePictures => Avc!AccessUnits
  BY <1>2 DEF Avc!AccessUnits
<1> QED BY <1>1, <1>3
-----------------------------------------------------------------------------
UnitInv ==
    /\ kind = "avc" => AvcAu
    /\ kind = "hevc" => HevcAu

(* Both video parsers, or another one that runs.                            *)
LEMMA UnitsStart ==
    ASSUME Init
    PROVE  UnitInv
BY AvcAuStarts, HevcAuStarts DEF Init, UnitInv

LEMMA UnitsStay ==
    ASSUME Paced, UnitInv, [Next]_vars
    PROVE  UnitInv'
<1>1. CASE AvcStep
  <2>1. kind = "avc" /\ kind' = kind /\ Avc!Next /\ AvcAu /\ AvcPace
    BY <1>1 DEF AvcStep, UnitInv, Paced
  <2>2. AvcAu'
    BY <2>1, AvcAuSteps
  <2> QED BY <2>1, <2>2 DEF UnitInv
<1>2. CASE HevcStep
  <2>1. kind = "hevc" /\ kind' = kind /\ Hevc!Next /\ HevcAu /\ HevcPace
    BY <1>2 DEF HevcStep, UnitInv, Paced
  <2>2. HevcAu'
    BY <2>1, HevcAuSteps
  <2> QED BY <2>1, <2>2 DEF UnitInv
<1>3. CASE AacStep \/ DdStep \/ Ac4Step \/ AscStep
  BY <1>3 DEF AacStep, DdStep, Ac4Step, AscStep, UnitInv
<1>4. CASE UNCHANGED vars
  <2>1. kind' = kind /\ es' = es /\ p' = p /\ out' = out /\ status' = status
    BY <1>4 DEF vars, parserVars
  <2>2. AvcAu => AvcAu'
    <3>1. AvcAu => status' \in {"open", "eoes", "bad stream", "multiple descriptions", "buggy"}
      BY <2>1 DEF AvcAu
    <3> QED BY <2>1, <3>1, AvcAuRests
  <2>3. HevcAu => HevcAu'
    <3>1. HevcAu => status' \in {"open", "eoes", "multiple descriptions", "buggy"}
      BY <2>1 DEF HevcAu
    <3> QED BY <2>1, <3>1, HevcAuRests
  <2> QED BY <2>1, <2>2, <2>3 DEF UnitInv
<1> QED BY <1>1, <1>2, <1>3, <1>4 DEF Next

(* A video stream of whole pictures.                                        *)
Whole ==
    /\ kind = "avc" => Avc!WholePictures
    /\ kind = "hevc" => Hevc!WholePictures

(* Of a video stream of whole pictures every sample is one access unit: the *)
(* loops of parser_avc_get_sample and parser_hevc_get_sample end a unit     *)
(* where the next one begins, so that a sample has one picture and all its  *)
(* slices, with what belongs ahead of it and nothing of a neighbour's, its  *)
(* size counts the NALs that are written of it, and an HEVC sample is sync  *)
(* exactly when its picture is a random access point.                       *)
THEOREM UnitsAreDelivered == Spec => [](Whole => AccessUnits)
<1>1. Init => Paced /\ UnitInv
  BY Starts, UnitsStart
<1>2. Paced /\ UnitInv /\ [Next]_vars => Paced' /\ UnitInv'
  BY Answers, UnitsStay
<1>3. Paced /\ UnitInv => (Whole => AccessUnits)
  BY AvcAuIsRight, HevcAuIsRight DEF Paced, UnitInv, Whole, AccessUnits
<1> QED BY <1>1, <1>2, <1>3, PTL DEF Spec
=============================================================================
