----------------------------- MODULE MdatWriter -----------------------------
(***************************************************************************)
(* The progressive file being written: the part of mp4_muxer_output_tracks *)
(* (src/src/mp4_muxer.c) after setup_muxer that chooses between 'stco' and *)
(* 'co64', writes 'mdat' (write_mdat_box, write_chunk) and goes back to    *)
(* patch the chunk offsets (modify_stco_boxes).  One step is one box or    *)
(* one turn of the chunk loop.                                             *)
(***************************************************************************)
EXTENDS Integers, Sequences, FiniteSetsExt, Sums

CONSTANTS
    NTracks,
    ChunkLists,     \* chunk lists a track may have
    Estimates,      \* moov_size_est when write_moov_box looks at it
    UdtaSizes,      \* size of 'udta', added to the estimate afterwards
    MoovEnds,       \* where 'moov' really ends
    MaxU32,         \* 2^32 - 1 in the code
    Co64Configs,    \* whether co64_mode may be set by the user
    Faults          \* what may go wrong in a write_chunk

BytesIn(c) == SumOver(c.sizes, 1, Len(c.sizes))

(* A chunk list as mp4_muxer_input_sample leaves it: decode times do not    *)
(* fall, and each chunk lies in the spool where the one before it ends.     *)
(* place is history, where in the spool the chunk lies; offset is that too  *)
(* until the chunk is written, and then its place in the file.              *)
Chunk == [dts : Nat, sizes : Seq(Nat), place : Nat, offset : Nat]

IsSpooled(l) ==
    /\ l \in Seq(Chunk)
    /\ l # << >> => l[1].place = 0
    /\ \A k \in 1..(Len(l) - 1) :
         /\ l[k].dts <= l[k + 1].dts
         /\ l[k + 1].place = l[k].place + BytesIn(l[k])

ASSUME MdatWriterAssumption ==
    /\ NTracks \in Nat \ {0}
    /\ \A l \in ChunkLists :
         IsSpooled(l) /\ \A k \in 1..Len(l) : l[k].offset = l[k].place
    /\ Estimates \subseteq Nat /\ UdtaSizes \subseteq Nat /\ MoovEnds \subseteq Nat
    /\ MaxU32 \in Nat
    /\ Co64Configs \subseteq BOOLEAN
    /\ Faults \subseteq {"read", "write"}

Tracks == 1..NTracks

VARIABLES
    chunks,         \* per track: chunk_lst
    chunkToOut,     \* per track: chunks written
    spoolPos,       \* per track: where the next fread starts
    dtsOut,         \* dts_out of write_mdat_box
    pos,            \* position of the sink
    mdat,           \* where 'mdat' starts and the size its header declares
    moovSizeEst, udta,
    co64,           \* co64_mode
    stco,           \* per track: the offsets in its 'stco' box
    phase, ret,
    out             \* history: the chunks written, where from and where to

vars == <<chunks, chunkToOut, spoolPos, dtsOut, pos, mdat, moovSizeEst, udta,
          co64, stco, phase, ret, out>>
-----------------------------------------------------------------------------
ChunkBytes(t) == [k \in 1..Len(chunks[t]) |-> BytesIn(chunks[t][k])]
mdatSize      == SumOver([t \in Tracks |-> SumOver(ChunkBytes(t), 1, Len(chunks[t]))], 1, NTracks)

Offsets(t)    == [k \in 1..Len(chunks[t]) |-> chunks[t][k].offset]

Pending       == {t \in Tracks : chunkToOut[t] < Len(chunks[t])}
NextDts(t)    == chunks[t][chunkToOut[t] + 1].dts
Due(d)        == {t \in Pending : NextDts(t) <= d}

Init ==
    /\ chunks \in [Tracks -> ChunkLists]
    /\ chunkToOut = [t \in Tracks |-> 0]
    /\ spoolPos = [t \in Tracks |-> 0]
    /\ dtsOut = 0 /\ pos = 0
    /\ mdat = [start |-> 0, size |-> 0]
    /\ moovSizeEst \in Estimates /\ udta \in UdtaSizes
    /\ co64 \in Co64Configs
    /\ stco = [t \in Tracks |-> << >>]
    /\ phase = "moov" /\ ret = "OK"
    /\ out = << >>

(* write_moov_box: the offset size is chosen by the estimate, the 'stco'    *)
(* boxes are written with the places the chunks have so far, and 'udta'     *)
(* enlarges the estimate when the choice has been made.                     *)
WriteMoov ==
    /\ phase = "moov"
    /\ co64' = (co64 \/ moovSizeEst + 16 + mdatSize > MaxU32)
    /\ moovSizeEst' = moovSizeEst + udta
    /\ stco' = [t \in Tracks |-> Offsets(t)]
    /\ pos' \in MoovEnds
    /\ phase' = "check"
    /\ UNCHANGED <<chunks, chunkToOut, spoolPos, dtsOut, mdat, udta, ret, out>>

SelectionRefused ==
    /\ moovSizeEst < pos
    /\ ~co64
    /\ pos + 16 + mdatSize > MaxU32

CheckSelection ==
    /\ phase = "check"
    /\ IF SelectionRefused THEN ret' = "PARAM_ERR" /\ phase' = "done"
                           ELSE ret' = ret /\ phase' = "header"
    /\ UNCHANGED <<chunks, chunkToOut, spoolPos, dtsOut, pos, mdat, moovSizeEst,
                   udta, co64, stco, out>>

(* The header of 'mdat', with a 64-bit size if need be.                     *)
MutWriteMdatHeader ==
    /\ phase = "header"
    /\ LET h == IF mdatSize + 8 <= MaxU32 THEN 8 ELSE 16
       IN  /\ mdat' = [start |-> pos, size |-> mdatSize]
           /\ pos' = pos + h
    /\ dtsOut' = 0
    /\ phase' = "chunks"
    /\ UNCHANGED <<chunks, chunkToOut, spoolPos, moovSizeEst, udta, co64, stco,
                   ret, out>>

WriteMdatHeader ==
    /\ phase = "header"
    /\ LET h == IF mdatSize + 8 <= MaxU32 THEN 8 ELSE 16
       IN  /\ mdat' = [start |-> pos, size |-> mdatSize + h]
           /\ pos' = pos + h
    /\ dtsOut' = 0
    /\ phase' = "chunks"
    /\ UNCHANGED <<chunks, chunkToOut, spoolPos, moovSizeEst, udta, co64, stco,
                   ret, out>>

(* The track whose chunk is next: the first one due at dtsOut, or else the  *)
(* first one with the smallest decode time, which becomes dtsOut.           *)
MutChooseTrack(t, d) ==
    /\ Pending # {}
    /\ t = Min(Pending) /\ d = NextDts(t)

ChooseTrack(t, d) ==
    \/ /\ Due(dtsOut) # {}
       /\ t = Min(Due(dtsOut)) /\ d = dtsOut
    \/ /\ Due(dtsOut) = {} /\ Pending # {}
       /\ d = Min({NextDts(u) : u \in Pending})
       /\ t = Min(Due(d))

(* write_chunk: the samples are read on from where the last read of the     *)
(* track's spool ended.  The two positions tell how many bytes were read    *)
(* and how many were written.                                               *)
Copy(t, read, written) ==
    LET k == chunkToOut[t] + 1
    IN  /\ chunks' = [chunks EXCEPT ![t][k].offset = pos]
        /\ spoolPos' = [spoolPos EXCEPT ![t] = @ + read]
        /\ pos' = pos + written
        /\ out' = Append(out, [track |-> t, chunk |-> k, from |-> spoolPos[t],
                               at |-> pos, bytes |-> written])

(* What a fault at sample i of a chunk of these sizes makes of it: a short  *)
(* read is written as far as it goes and later samples find the spool at    *)
(* its end; a failed write leaves at once, the sample having been read.     *)
Broken(fault, sizes) ==
    LET upTo(i) == SumOver(sizes, 1, i)
    IN  UNION {{[read |-> IF fault = "read" THEN w ELSE upTo(i), written |-> w] :
                    w \in upTo(i - 1) .. (upTo(i) - 1)} : i \in 1..Len(sizes)}

MutSampleLeftOut(t) ==
    LET sizes == chunks[t][chunkToOut[t] + 1].sizes
        n     == SumOver(sizes, 2, Len(sizes))
    IN  Copy(t, n, n)

WriteChunk(t) ==
    LET n == BytesIn(chunks[t][chunkToOut[t] + 1])
    IN  Copy(t, n, n)

WriteChunkFails(t) ==
    \E fault \in Faults :
        /\ \E b \in Broken(fault, chunks[t][chunkToOut[t] + 1].sizes) :
             Copy(t, b.read, b.written)
        /\ ret' = IF fault = "read" THEN "READ_ERR" ELSE "WRITE_ERR"

OutputTimes == {dtsOut} \cup {NextDts(u) : u \in Pending}

NextChunk ==
    /\ phase = "chunks"
    /\ \E t \in Tracks, d \in OutputTimes :
         /\ ChooseTrack(t, d) /\ dtsOut' = d
         /\ WriteChunk(t)
         /\ chunkToOut' = [chunkToOut EXCEPT ![t] = @ + 1]
    /\ UNCHANGED <<mdat, moovSizeEst, udta, co64, stco, phase, ret>>

(* The loop is left when write_chunk reports an error, the chunk uncounted. *)
FailChunk ==
    /\ phase = "chunks"
    /\ \E t \in Tracks, d \in OutputTimes :
         /\ ChooseTrack(t, d) /\ dtsOut' = d
         /\ WriteChunkFails(t)
    /\ phase' = "stco"
    /\ UNCHANGED <<chunkToOut, mdat, moovSizeEst, udta, co64, stco>>

AllChunksWritten ==
    /\ phase = "chunks" /\ Pending = {}
    /\ phase' = "stco"
    /\ UNCHANGED <<chunks, chunkToOut, spoolPos, dtsOut, pos, mdat, moovSizeEst,
                   udta, co64, stco, ret, out>>

(* modify_stco_boxes, which mp4_muxer_output_tracks calls whatever          *)
(* write_mdat_box returned.                                                 *)
MutModifyStco ==
    /\ phase = "stco" /\ phase' = "done"
    /\ UNCHANGED <<chunks, chunkToOut, spoolPos, dtsOut, pos, mdat, moovSizeEst,
                   udta, co64, stco, ret, out>>

ModifyStco ==
    /\ phase = "stco"
    /\ stco' = [t \in Tracks |-> Offsets(t)]
    /\ phase' = "done"
    /\ UNCHANGED <<chunks, chunkToOut, spoolPos, dtsOut, pos, mdat, moovSizeEst,
                   udta, co64, ret, out>>

Next ==
    \/ WriteMoov \/ CheckSelection \/ WriteMdatHeader
    \/ NextChunk \/ FailChunk \/ AllChunksWritten \/ ModifyStco

Spec == Init /\ [][Next]_vars
-----------------------------------------------------------------------------
TypeOK ==
    /\ \A t \in Tracks :
         /\ chunkToOut[t] \in 0..Len(chunks[t])
         /\ spoolPos[t] \in Nat
         /\ \A k \in 1..Len(chunks[t]) : chunks[t][k].offset \in Nat
    /\ dtsOut \in Nat /\ pos \in Nat
    /\ mdat \in [start : Nat, size : Nat]
    /\ co64 \in BOOLEAN
    /\ phase \in {"moov", "check", "header", "chunks", "stco", "done"}
    /\ ret \in {"OK", "PARAM_ERR", "READ_ERR", "WRITE_ERR"}

(* Every chunk is copied from its own place in the spool, whole, although   *)
(* the reads never seek: they rely on the chunks of a track being written   *)
(* in the order their samples came in.                                      *)
ChunksReadTheirOwnBytes ==
    \A i \in 1..Len(out) :
        LET o == out[i]
            c == chunks[o.track][o.chunk]
        IN  /\ o.from = c.place
            /\ ret = "OK" => o.bytes = BytesIn(c)

(* No offset is cut to 32 bits: the comment at mp4_muxer.c:6518, "to check  *)
(* if the 'stco'/'co64' selection is good or not".  It holds while the      *)
(* estimate the choice was made by is the one checked afterwards, that is,  *)
(* without 'udta', whether or not the estimate was high enough.             *)
OffsetsFit32 ==
    phase = "done" /\ ret = "OK" /\ ~co64 =>
        \A t \in Tracks : \A k \in 1..Len(stco[t]) : stco[t][k] <= MaxU32

(* The payload of 'mdat' is the chunks end to end, from the header to the   *)
(* end the header declares, and 'stco' is wide enough for where they are.   *)
PayloadEndToEnd ==
    /\ \A i \in 1..(Len(out) - 1) : out[i + 1].at = out[i].at + out[i].bytes
    /\ phase = "done" /\ ret = "OK" => pos = mdat.start + mdat.size

MdatIsFilled == TypeOK /\ PayloadEndToEnd /\ OffsetsFit32

(* In a finished file every entry of every 'stco' is the place of its chunk *)
(* in 'mdat', each chunk having been written once.                          *)
StcoPointsAtChunks ==
    phase = "done" /\ ret = "OK" =>
        \A t \in Tracks : \A k \in 1..Len(chunks[t]) :
            /\ \E i \in 1..Len(out) :
                 /\ out[i].track = t /\ out[i].chunk = k
                 /\ stco[t][k] = out[i].at
            /\ \A i, j \in 1..Len(out) :
                 out[i].track = out[j].track /\ out[i].chunk = out[j].chunk => i = j

(* The chunks are merged by decode time.  One that was broken off is not    *)
(* counted.                                                                 *)
Left(t) == [k \in 1..(Len(chunks[t]) - chunkToOut[t]) |-> chunks[t][chunkToOut[t] + k].dts]

Whole == IF ret \in {"READ_ERR", "WRITE_ERR"} THEN Len(out) - 1 ELSE Len(out)

Lefts  == [t \in Tracks |-> Left(t)]
Merged == [i \in 1..Whole |-> out[i].track]

Abs == INSTANCE ChunkMerge WITH left <- Lefts, merged <- Merged

ImplementsChunkMerge == Abs!MSpec
=============================================================================
