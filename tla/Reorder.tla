------------------------------- MODULE Reorder -------------------------------
(***************************************************************************)
(* The "apoc" reordering buffer of src/src/esparser/parser_avc_dpb.c, with *)
(* the calls parser_avc.c makes on it while it reads an elementary stream. *)
(* Access units arrive in decoding order, each with a picture order count  *)
(* (POC).  The buffer holds a window of AUs, hands the one with the        *)
(* smallest POC to the display order when the window is full or flushed,   *)
(* and records for every decoding-order count (doc) its display position.  *)
(* The CTS offset of AU d is then reorder_min + poc_out(d) - d AU periods. *)
(*                                                                         *)
(* One step is one call of the parser or one turn of apoc_flush's loop.    *)
(*                                                                         *)
(* The window size comes from the bit stream and is checked nowhere, while *)
(* docs[] and pocs[] have DP_CNT_MAX entries.  An append past them is a    *)
(* step of its own, Overrun; as what the program does afterwards is        *)
(* undefined, the model stops there.                                       *)
(***************************************************************************)
EXTENDS Integers, FiniteSets

CONSTANTS
    MaxAu,          \* bound: access units in the stream
    Pocs,           \* the POC values a stream may carry
    Depths,         \* num_reorder_frames of its SPSs, a byte as it was read;
                    \* doubled for field coding
    DP_CNT_MAX,     \* 33 in the code: entries of docs[] and pocs[]
    SecSize,        \* 1024 in the code: entries of a section of the map
    RefAuMax        \* ref_au_max; stays 0 in the pull-mode parser

ASSUME ReorderAssumption ==
    /\ MaxAu \in Nat
    /\ Pocs \subseteq Int
    /\ DP_CNT_MAX \in Nat \ {0}
    /\ Depths \subseteq Nat
    /\ SecSize \in Nat /\ SecSize >= DP_CNT_MAX
    /\ RefAuMax \in 0..(SecSize - 1)

VARIABLES
    dpCnt,          \* AUs in the window
    docs,           \* their docs, in decoding order: docs[0..dp_cnt-1]
    pocs,           \* their POCs
    dpCntMax,       \* window size at which an AU is output
    docNext,        \* doc of the next AU
    reorderMin,     \* AU periods that keep every CTS at or after its DTS
    reorderMinReady,
    docAtPocMin,    \* the AU displayed first
    pocOutNext,     \* next display position
    pocOut,         \* display position of each AU fed, -1 while unknown
    mapSize,        \* doc_poc_out_map_size: entries of the allocated sections
    pc,             \* "idle", "flush" (inside apoc_flush), "done", "overrun"
    pending,        \* what the flush makes way for
    stream          \* history: sequence, its depth, and POC of each AU fed

window  == <<dpCnt, docs, pocs, dpCntMax>>
results == <<reorderMin, reorderMinReady, docAtPocMin, pocOutNext, mapSize>>
vars    == <<dpCnt, docs, pocs, dpCntMax, docNext, reorderMin,
             reorderMinReady, docAtPocMin, pocOutNext, pocOut, mapSize, pc, pending, stream>>

Empty   == [i \in 0..-1 |-> 0]
EndOfStream == [poc |-> 0, depth |-> -1]
SequenceStart == [poc : Pocs, depth : Depths]
-----------------------------------------------------------------------------
(* Appending to, and removing index k from, an array of n entries.          *)
Append0(a, n, v)  == [i \in 0..n |-> IF i = n THEN v ELSE a[i]]
MutRemoveIdx(a, n, k) == [i \in 0..(n - 2) |-> IF i <= k THEN a[i] ELSE a[i + 1]]
RemoveIdx(a, n, k) == [i \in 0..(n - 2) |-> IF i < k THEN a[i] ELSE a[i + 1]]

(* The scan for the minimum keeps the first of equal POCs.                  *)
MutFirstMinShort(ps, n, k) ==
    /\ \A i \in 0..(n - 2) : ps[k] <= ps[i]
    /\ \A i \in 0..(k - 1) : ps[k] < ps[i]

MutFirstMinLast(ps, n, k) ==
    /\ \A i \in 0..(n - 1) : ps[k] <= ps[i]
    /\ \A i \in (k + 1)..(n - 1) : ps[k] < ps[i]

FirstMin(ps, n, k) ==
    /\ \A i \in 0..(n - 1) : ps[k] <= ps[i]
    /\ \A i \in 0..(k - 1) : ps[k] < ps[i]

(* A section is allocated when doc d lies past the map.                     *)
MutMapSizeFor(d) == IF d > mapSize THEN mapSize + SecSize ELSE mapSize
MapSizeFor(d)    == IF d >= mapSize THEN mapSize + SecSize ELSE mapSize

(* k AUs are decoded before the one output and displayed after it.          *)
MutGrownMinLate(k)  == IF reorderMin < k - 1 THEN k - 1 ELSE reorderMin

MutGrownMinLast(k)  == k
GrownMin(k)         == IF reorderMin < k THEN k ELSE reorderMin

(* All docs from RefAuMax down to 0 have a display position in m.           *)
RefsResolved(m) == \A d \in 0..RefAuMax : d \in DOMAIN m /\ m[d] >= 0

(* The rest of apoc_update once an AU has to go: window ds, ps of n entries *)
(* and display map m, as they are when the call is made.                    *)
OutputMin(ds, ps, n, m) ==
    \E k \in 0..(n - 1) :
        /\ FirstMin(ps, n, k)
        /\ mapSize' = MapSizeFor(ds[k])
        /\ docAtPocMin' = IF pocOutNext = 0 THEN ds[k] ELSE docAtPocMin
        /\ pocOut' = [m EXCEPT ![ds[k]] = pocOutNext]
        /\ pocOutNext' = pocOutNext + 1
        /\ reorderMin' = GrownMin(k)
        /\ dpCnt' = n - 1
        /\ docs' = RemoveIdx(ds, n, k)
        /\ pocs' = RemoveIdx(ps, n, k)
        /\ reorderMinReady' = (reorderMinReady \/ RefsResolved(pocOut'))

(* apoc_add after its own flush, dp_cnt_max being max: append, then         *)
(* apoc_update(FALSE), which outputs one AU once the window is full.        *)
Add(poc, max) ==
    LET ds == Append0(docs, dpCnt, docNext)
        ps == Append0(pocs, dpCnt, poc)
        m  == Append0(pocOut, docNext, -1)
    IN  /\ docNext' = docNext + 1
        /\ dpCntMax' = max
        /\ \/ /\ dpCnt + 1 < max
              /\ dpCnt' = dpCnt + 1
              /\ docs' = ds /\ pocs' = ps /\ pocOut' = m
              /\ UNCHANGED results
           \/ /\ dpCnt + 1 >= max
              /\ OutputMin(ds, ps, dpCnt + 1, m)
-----------------------------------------------------------------------------
SeqNow == IF docNext = 0 THEN 0 ELSE stream[docNext - 1].seq

Init ==
    /\ dpCnt = 0 /\ docs = Empty /\ pocs = Empty
    /\ dpCntMax = DP_CNT_MAX
    /\ docNext = 0
    /\ reorderMin = 0 /\ reorderMinReady = FALSE
    /\ docAtPocMin = 0 /\ pocOutNext = 0
    /\ pocOut = Empty /\ mapSize = 0
    /\ pc = "idle" /\ pending = EndOfStream
    /\ stream = Empty

(* A non-IDR access unit within a sequence: apoc_add.                       *)
AddPicture(poc) ==
    /\ pc = "idle" /\ 0 < docNext /\ docNext < MaxAu
    /\ dpCnt < DP_CNT_MAX
    /\ Add(poc, dpCntMax)
    /\ stream' = Append0(stream, docNext, [stream[docNext - 1] EXCEPT !.poc = poc])
    /\ UNCHANGED <<pc, pending>>

(* The same with both arrays full: docs[DP_CNT_MAX] and pocs[DP_CNT_MAX]    *)
(* are written.                                                             *)
Overrun ==
    /\ pc = "idle" /\ 0 < docNext /\ docNext < MaxAu
    /\ dpCnt >= DP_CNT_MAX
    /\ pc' = "overrun"
    /\ UNCHANGED <<window, docNext, results, pocOut, pending, stream>>

(* An IDR or the very first access unit: the parser calls apoc_flush ...    *)
BeginSequence(start) ==
    /\ pc = "idle" /\ docNext < MaxAu
    /\ pc' = "flush" /\ pending' = start
    /\ UNCHANGED <<window, docNext, results, pocOut, stream>>

(* ... one turn of whose loop is apoc_update(TRUE) ...                      *)
MutFlushOne ==
    /\ pc = "flush" /\ dpCnt > 1
    /\ OutputMin(docs, pocs, dpCnt, pocOut)
    /\ UNCHANGED <<dpCntMax, docNext, pc, pending, stream>>

FlushOne ==
    /\ pc = "flush" /\ dpCnt > 0
    /\ OutputMin(docs, pocs, dpCnt, pocOut)
    /\ UNCHANGED <<dpCntMax, docNext, pc, pending, stream>>

(* ... and then apoc_set_num_reorder_au and apoc_add.                       *)
StartSeq(start) ==
    stream' = Append0(stream, docNext,
                      [seq |-> SeqNow + 1, depth |-> start.depth, poc |-> start.poc])

MutStartAnyTime ==
    /\ pc = "flush" /\ pending # EndOfStream
    /\ Add(pending.poc, pending.depth + 1)
    /\ StartSeq(pending)
    /\ pc' = "idle" /\ pending' = EndOfStream

AddSequenceStart ==
    /\ pc = "flush" /\ dpCnt = 0 /\ pending # EndOfStream
    /\ Add(pending.poc, pending.depth + 1)
    /\ StartSeq(pending)
    /\ pc' = "idle" /\ pending' = EndOfStream

(* The last access unit has been read: parser_avc_need_fix_cts flushes.     *)
EndStream ==
    /\ pc = "idle" /\ docNext > 0
    /\ pc' = "flush" /\ pending' = EndOfStream
    /\ UNCHANGED <<window, docNext, results, pocOut, stream>>

StreamFlushed ==
    /\ pc = "flush" /\ dpCnt = 0 /\ pending = EndOfStream
    /\ pc' = "done"
    /\ UNCHANGED <<window, docNext, results, pocOut, pending, stream>>

Next ==
    \/ \E poc \in Pocs : AddPicture(poc)
    \/ Overrun
    \/ \E start \in SequenceStart : BeginSequence(start)
    \/ FlushOne
    \/ AddSequenceStart
    \/ EndStream
    \/ StreamFlushed

(* The loop of apoc_flush and the call after it run to completion: the      *)
(* parser is one thread and waits for nothing.                              *)
Spec == /\ Init /\ [][Next]_vars
        /\ WF_vars(FlushOne) /\ WF_vars(AddSequenceStart) /\ WF_vars(StreamFlushed)
-----------------------------------------------------------------------------
(* What the parser asks: apoc_reorder_num (-1 for unknown), apoc_min_cts    *)
(* and apoc_need_adj_cts.                                                   *)
ReorderNum(d) ==
    IF d < pocOutNext /\ reorderMinReady /\ d \in DOMAIN pocOut /\ pocOut[d] >= 0
    THEN reorderMin + pocOut[d] - d
    ELSE -1

MinCts ==
    docAtPocMin + (IF ReorderNum(docAtPocMin) < 0 THEN 0 ELSE ReorderNum(docAtPocMin))

NeedAdjCts == reorderMin > 0

Fed       == 0..(docNext - 1)
Displayed == {d \in Fed : pocOut[d] >= 0}
-----------------------------------------------------------------------------
TypeOK ==
    /\ docNext \in 0..MaxAu
    /\ dpCnt \in 0..DP_CNT_MAX
    /\ docs \in [0..(dpCnt - 1) -> Fed]
    /\ pocs \in [0..(dpCnt - 1) -> Pocs]
    /\ dpCntMax \in Nat \ {0}
    /\ reorderMin \in 0..(DP_CNT_MAX - 1)
    /\ reorderMinReady \in BOOLEAN
    /\ docAtPocMin \in Nat
    /\ pocOutNext \in 0..docNext
    /\ pocOut \in [Fed -> {-1} \cup Nat]
    /\ mapSize \in Nat
    /\ pc \in {"idle", "flush", "done", "overrun"}
    /\ pending \in SequenceStart \cup {EndOfStream}
    /\ stream \in [Fed -> [seq : Nat, depth : Depths, poc : Pocs]]

(* Between calls the window holds fewer AUs than the depth in force asks    *)
(* for, although the depth changes at every sequence start: were one left   *)
(* over, apoc_update, which outputs one AU per call, would never catch up.  *)
WindowBelowDepth == dpCnt < dpCntMax

(* No sequence brings the buffer beyond its arrays unless its own SPS       *)
(* announces DP_CNT_MAX AUs or more and as many of its AUs are waiting,     *)
(* whatever the sequences before it announced.  With the 16 frames H.264    *)
(* allows, of two fields each, there is room to spare; but no code rejects  *)
(* an SPS that announces more.                                              *)
OverrunByOwnDepth ==
    pc = "overrun" =>
        /\ stream[docNext - 1].depth >= DP_CNT_MAX
        /\ \A i \in 0..(DP_CNT_MAX - 1) : stream[docs[i]].seq = SeqNow

(* The bounds of the buffer together: docs[] and pocs[] hold the window     *)
(* after every call but an Overrun, which only a depth of DP_CNT_MAX or     *)
(* more brings about.                                                       *)
WithinBounds == TypeOK /\ WindowBelowDepth /\ OverrunByOwnDepth

(* No AU is presented before it is decoded, the offset apoc_reorder_num     *)
(* hands to the 'ctts' box being never negative; and reorder_min is as      *)
(* small as that allows: some AU is presented at the very time it is        *)
(* decoded, so that the track starts with no needless delay.                *)
DisplayNotBeforeDecode ==
    \A d \in Displayed : reorderMin + pocOut[d] - d >= 0

DelayIsTight ==
    Displayed # {} => \E d \in Displayed : reorderMin + pocOut[d] - d = 0

OffsetsAreTight == DisplayNotBeforeDecode /\ DelayIsTight

(* The display positions are exactly 0 .. poc_out_next - 1, each held by    *)
(* one AU: no AU is lost, shown twice, or given a gap.                      *)
DisplayIsPermutation ==
    /\ {pocOut[d] : d \in Displayed} = 0..(pocOutNext - 1)
    /\ \A d, e \in Displayed : pocOut[d] = pocOut[e] => d = e

(* Every entry of the two-level map that apoc_update writes or that         *)
(* apoc_reorder_num reads (any doc below poc_out_next) lies in a section    *)
(* that has been allocated, though each call allocates one section at most. *)
MapSectionsAllocated ==
    /\ pocOutNext <= mapSize
    /\ \A d \in Displayed : d < mapSize

(* AUs come out sequence by sequence and, within a sequence, by POC, if the *)
(* stream conforms: in a sequence POCs differ and no AU is preceded in      *)
(* decoding order by more AUs that follow it in display order than the SPS  *)
(* announces.                                                               *)
Conforms ==
    \A d \in Fed :
        LET mates == {e \in 0..(d - 1) : stream[e].seq = stream[d].seq}
        IN  /\ \A e \in mates : stream[e].poc # stream[d].poc
            /\ Cardinality({e \in mates : stream[e].poc > stream[d].poc})
                 <= stream[d].depth

Precedes(d, e) ==
    \/ stream[d].seq < stream[e].seq
    \/ stream[d].seq = stream[e].seq /\ stream[d].poc < stream[e].poc

InPocOrder ==
    Conforms => \A d, e \in Fed : d \in Displayed /\ e \in Displayed /\ Precedes(d, e)
                         => pocOut[d] < pocOut[e]

(* After the final flush every AU has an offset (given the first            *)
(* ref_au_max + 1 of them exist), and apoc_min_cts is the earliest          *)
(* presentation time of the track.                                          *)
AllResolvedAtEnd ==
    pc = "done" /\ docNext > RefAuMax =>
        /\ \A d \in Fed : ReorderNum(d) >= 0
        /\ \A d \in Fed : MinCts <= d + ReorderNum(d)
        /\ \E d \in Fed : MinCts = d + ReorderNum(d)

(* What the muxer makes of it is the presentation the POCs ask for.         *)
DisplayFollowsPoc == InPocOrder /\ AllResolvedAtEnd

(* An offset once handed out is withdrawn by no later call; when            *)
(* reorder_min grows, all offsets handed out grow by the same amount, so    *)
(* their display order stands.                                              *)
OffsetsShiftTogether ==
    [][\A d \in Fed : ReorderNum(d) >= 0 =>
          /\ ReorderNum(d)' - ReorderNum(d) = reorderMin' - reorderMin
          /\ reorderMin' >= reorderMin]_vars

(* apoc_flush's loop ends.                                                  *)
FlushEnds == pc = "flush" ~> pc # "flush"

(* The AUs shown are the display positions read the other way round; the    *)
(* buffer implements DisplayOrder.                                          *)
Shown == [p \in 1..pocOutNext |-> CHOOSE d \in Displayed : pocOut[d] = p - 1]

Abs == INSTANCE DisplayOrder WITH limit <- dpCntMax - 1, shown <- Shown

ImplementsDisplayOrder == Abs!ASpec
=============================================================================
