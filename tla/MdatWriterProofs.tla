-------------------------- MODULE MdatWriterProofs --------------------------
(***************************************************************************)
(* What a progressive file promises, for any number of tracks and chunks,  *)
(* any sizes and times, and a fault at any byte: the chunks are the merge  *)
(* of the tracks by decode time, each is read from its own place, and the  *)
(* offsets patched into 'stco' are where they are.                         *)
(*                                                                         *)
(* The argument is MdatInv: while nothing has failed, the spool of a track *)
(* stands where its next chunk lies (ReadsOn), no track waits with a chunk *)
(* before the output time (TimeBelow), and the chunks written are those    *)
(* counted, each once (Accounts).                                          *)
(***************************************************************************)
EXTENDS MdatWriter, SumsProofs, SequenceTheorems

(* Min finds the least element of a set of naturals.                        *)
LEMMA LeastElement ==
    ASSUME NEW S, S \subseteq Nat, S # {}
    PROVE  Min(S) \in S /\ \A y \in S : Min(S) <= y
BY Least DEF Min

LEMMA SpooledBytes ==
    ASSUME NEW l, IsSpooled(l), NEW k \in 1..Len(l)
    PROVE  /\ l[k].sizes \in Seq(Nat)
           /\ BytesIn(l[k]) \in Nat
<1>1. l[k].sizes \in Seq(Nat)
  <2>1. l[k] \in Chunk
    BY ElementOfSeq DEF IsSpooled
  <2> QED BY <2>1 DEF Chunk
<1>2. Len(l[k].sizes) \in Nat /\ \A j \in 1..Len(l[k].sizes) : l[k].sizes[j] \in Nat
  BY <1>1, ElementOfSeq
<1> QED BY <1>1, <1>2, SumNat DEF BytesIn

(* Giving a chunk its place in the file changes nothing else of its list.   *)
LEMMA OffsetSet ==
    ASSUME NEW l, IsSpooled(l), NEW k \in 1..Len(l), NEW p \in Nat,
           NEW m, m = [l EXCEPT ![k].offset = p]
    PROVE  /\ IsSpooled(m) /\ Len(m) = Len(l)
           /\ \A j \in 1..Len(l) :
                /\ m[j].dts = l[j].dts /\ m[j].place = l[j].place
                /\ BytesIn(m[j]) = BytesIn(l[j])
                /\ m[j].offset = IF j = k THEN p ELSE l[j].offset
<1>1. l \in Seq(Chunk) /\ Len(l) \in Nat
  BY DEF IsSpooled
<1>2. \A j \in 1..Len(l) : l[j] \in Chunk
  BY <1>1
<1>3. l[k] \in Chunk
  BY <1>2
<1> DEFINE c == [l[k] EXCEPT !.offset = p]
<1>4. /\ c \in Chunk /\ c.dts = l[k].dts /\ c.sizes = l[k].sizes
      /\ c.place = l[k].place /\ c.offset = p
  BY <1>3 DEF Chunk
<1>5. m = [l EXCEPT ![k] = c]
  OBVIOUS
<1> HIDE DEF c
<1>6. m \in Seq(Chunk) /\ Len(m) = Len(l) /\ \A j \in 1..Len(l) : m[j] = IF j = k THEN c ELSE l[j]
  BY <1>1, <1>4, <1>5, ExceptSeq
<1>7. \A j \in 1..Len(l) : /\ m[j].dts = l[j].dts /\ m[j].place = l[j].place
                           /\ m[j].sizes = l[j].sizes
                           /\ m[j].offset = IF j = k THEN p ELSE l[j].offset
  BY <1>4, <1>6
<1>8. \A j \in 1..Len(l) : BytesIn(m[j]) = BytesIn(l[j])
  BY <1>7 DEF BytesIn
<1>9. IsSpooled(m)
  <2>1. m # << >> => m[1].place = 0
    <3>1. Len(l) > 0 => 1 \in 1..Len(l) /\ l # << >>
      BY <1>1
    <3>2. m # << >> => Len(l) > 0
      BY <1>1, <1>6
    <3> QED BY <3>1, <3>2, <1>7 DEF IsSpooled
  <2>3. \A j \in 1..(Len(m) - 1) : /\ m[j].dts <= m[j + 1].dts
                                   /\ m[j + 1].place = m[j].place + BytesIn(m[j])
    <3> SUFFICES ASSUME NEW j \in 1..(Len(l) - 1)
                 PROVE  /\ m[j].dts <= m[j + 1].dts
                        /\ m[j + 1].place = m[j].place + BytesIn(m[j])
      BY <1>6
    <3>1. j \in 1..Len(l) /\ j + 1 \in 1..Len(l)
      BY <1>1
    <3>2. l[j].dts <= l[j + 1].dts /\ l[j + 1].place = l[j].place + BytesIn(l[j])
      BY DEF IsSpooled
    <3> QED BY <3>1, <3>2, <1>7, <1>8
  <2> QED BY <1>6, <2>1, <2>3 DEF IsSpooled
<1> QED BY <1>6, <1>7, <1>8, <1>9

-----------------------------------------------------------------------------
Written == [track : Tracks, chunk : Nat, from : Nat, at : Nat, bytes : Int]

Kinds ==
    /\ chunks \in [Tracks -> Seq(Chunk)]
    /\ \A t \in Tracks : IsSpooled(chunks[t])
    /\ chunkToOut \in [Tracks -> Nat]
    /\ \A t \in Tracks : chunkToOut[t] <= Len(chunks[t])
    /\ spoolPos = [t \in Tracks |-> spoolPos[t]]
    /\ dtsOut \in Nat
    /\ out \in Seq(Written)

Stages ==
    /\ phase \in {"moov", "check", "header", "chunks", "stco", "done"}
    /\ ret \in {"OK", "PARAM_ERR", "READ_ERR", "WRITE_ERR"}
    /\ phase \in {"moov", "check", "header", "chunks"} => ret = "OK"
    /\ phase \in {"check", "header", "chunks"} => pos \in Nat
    /\ phase \in {"stco", "done"} /\ ret = "OK" => Pending = {}
    /\ phase = "done" /\ ret = "OK" =>
          \A t \in Tracks : \A k \in 1..Len(chunks[t]) : stco[t][k] = chunks[t][k].offset
    /\ ret \in {"READ_ERR", "WRITE_ERR"} => out # << >>

ReadsOn ==
    ret = "OK" => \A t \in Pending : spoolPos[t] = chunks[t][chunkToOut[t] + 1].place

TimeBelow == ret = "OK" => \A t \in Pending : dtsOut <= NextDts(t)

Entry(i, t, k) == out[i].track = t /\ out[i].chunk = k

FromPlaces ==
    \A i \in 1..Len(out) :
        /\ out[i].chunk \in 1..Len(chunks[out[i].track])
        /\ out[i].from = chunks[out[i].track][out[i].chunk].place

Accounts ==
    /\ \A i \in 1..Len(out) :
          /\ out[i].chunk <= chunkToOut[out[i].track]
          /\ out[i].bytes = BytesIn(chunks[out[i].track][out[i].chunk])
          /\ out[i].at = chunks[out[i].track][out[i].chunk].offset
    /\ \A t \in Tracks : \A k \in 1..chunkToOut[t] : \E i \in 1..Len(out) : Entry(i, t, k)
    /\ \A i, j \in 1..Len(out) :
          out[i].track = out[j].track /\ out[i].chunk = out[j].chunk => i = j

MdatInv ==
    Kinds /\ Stages /\ ReadsOn /\ TimeBelow /\ FromPlaces /\ (ret = "OK" => Accounts)

(* The chunk after those counted, of a track that is not done.              *)
LEMMA NextChunkFacts ==
    ASSUME Kinds, NEW t \in Pending
    PROVE  /\ t \in Tracks /\ chunkToOut[t] \in Nat
           /\ chunkToOut[t] + 1 \in 1..Len(chunks[t])
           /\ chunks[t][chunkToOut[t] + 1] \in Chunk
           /\ NextDts(t) \in Nat
           /\ BytesIn(chunks[t][chunkToOut[t] + 1]) \in Nat
           /\ chunks[t][chunkToOut[t] + 1].place \in Nat
<1>1. /\ t \in Tracks /\ chunkToOut[t] \in Nat /\ chunkToOut[t] < Len(chunks[t])
      /\ chunks[t] \in Seq(Chunk) /\ IsSpooled(chunks[t])
  BY DEF Pending, Kinds
<1>2. Len(chunks[t]) \in Nat
  BY <1>1
<1>3. chunkToOut[t] + 1 \in 1..Len(chunks[t])
  BY <1>1, <1>2
<1>4. chunks[t][chunkToOut[t] + 1] \in Chunk
  BY <1>1, <1>3, ElementOfSeq
<1>5. chunks[t][chunkToOut[t] + 1].dts \in Nat /\ chunks[t][chunkToOut[t] + 1].place \in Nat
  BY <1>4 DEF Chunk
<1>6. BytesIn(chunks[t][chunkToOut[t] + 1]) \in Nat
  BY <1>1, <1>3, SpooledBytes
<1> QED BY <1>1, <1>3, <1>4, <1>5, <1>6 DEF NextDts

(* However write_mdat_box comes to its choice, it is the first track of     *)
(* those whose next chunk is the earliest, and dtsOut becomes its time.     *)
LEMMA Chosen ==
    ASSUME MdatInv, phase = "chunks", NEW t \in Tracks, NEW d, ChooseTrack(t, d)
    PROVE  /\ t \in Pending /\ d = NextDts(t)
           /\ \A u \in Pending : d <= NextDts(u)
           /\ \A u \in Pending : NextDts(u) = d => t <= u
<1>1. /\ Kinds /\ dtsOut \in Nat
      /\ \A u \in Pending : dtsOut <= NextDts(u) /\ NextDts(u) \in Nat
  <2>1. Kinds /\ dtsOut \in Nat /\ ret = "OK"
    BY DEF MdatInv, Kinds, Stages
  <2> QED BY <2>1, NextChunkFacts DEF MdatInv, TimeBelow
<1>2. Pending \subseteq Nat
  BY MdatWriterAssumption DEF Pending, Tracks
<1>3. ASSUME NEW e \in Nat, \A u \in Pending : e <= NextDts(u), Due(e) # {}
      PROVE  /\ Min(Due(e)) \in Pending /\ NextDts(Min(Due(e))) = e
             /\ \A u \in Pending : NextDts(u) = e => Min(Due(e)) <= u
  <2>1. Due(e) \subseteq Nat
    BY <1>2 DEF Due
  <2>2. Min(Due(e)) \in Due(e) /\ \A u \in Due(e) : Min(Due(e)) <= u
    BY <2>1, <1>3, LeastElement
  <2>3. Min(Due(e)) \in Pending /\ NextDts(Min(Due(e))) <= e
    BY <2>2 DEF Due
  <2>4. NextDts(Min(Due(e))) = e
    BY <1>1, <1>3, <2>3
  <2>5. ASSUME NEW u \in Pending, NextDts(u) = e PROVE u \in Due(e)
    BY <1>3, <2>5 DEF Due
  <2> QED BY <2>2, <2>3, <2>4, <2>5
<1>4. CASE Due(dtsOut) # {} /\ t = Min(Due(dtsOut)) /\ d = dtsOut
  BY <1>1, <1>3, <1>4
<1>5. CASE Pending # {} /\ d = Min({NextDts(u) : u \in Pending}) /\ t = Min(Due(d))
  <2> DEFINE S == {NextDts(u) : u \in Pending}
  <2>1. S \subseteq Nat /\ S # {}
    BY <1>1, <1>5
  <2>2. d \in S /\ \A y \in S : d <= y
    BY <2>1, <1>5, LeastElement
  <2>3. d \in Nat /\ \A u \in Pending : d <= NextDts(u)
    BY <2>1, <2>2
  <2>4. PICK u \in Pending : d = NextDts(u)
    BY <2>2
  <2>5. u \in Due(d)
    BY <2>3, <2>4 DEF Due
  <2> QED BY <1>3, <1>5, <2>3, <2>5
<1> QED BY <1>4, <1>5 DEF ChooseTrack

(* What write_chunk changes, whether or not it succeeds.                    *)
SameButOffset(t, k) ==
    \A u \in Tracks :
        /\ IsSpooled(chunks'[u]) /\ Len(chunks'[u]) = Len(chunks[u])
        /\ \A j \in 1..Len(chunks[u]) :
             /\ chunks'[u][j].dts = chunks[u][j].dts
             /\ chunks'[u][j].place = chunks[u][j].place
             /\ BytesIn(chunks'[u][j]) = BytesIn(chunks[u][j])
             /\ chunks'[u][j].offset = IF u = t /\ j = k THEN pos ELSE chunks[u][j].offset

OneMore(t, k, written) ==
    /\ out' \in Seq(Written) /\ Len(out) \in Nat /\ Len(out') = Len(out) + 1
    /\ \A i \in 1..Len(out) : out'[i] = out[i] /\ out[i] \in Written
    /\ out'[Len(out) + 1] = [track |-> t, chunk |-> k, from |-> chunks[t][k].place,
                             at |-> pos, bytes |-> written]

LEMMA Copied ==
    ASSUME MdatInv, phase = "chunks", NEW t \in Pending,
           NEW read, NEW written \in Int, Copy(t, read, written),
           NEW k, k = chunkToOut[t] + 1
    PROVE  /\ t \in Tracks /\ k \in 1..Len(chunks[t]) /\ pos \in Nat /\ ret = "OK"
           /\ chunks' \in [Tracks -> Seq(Chunk)]
           /\ SameButOffset(t, k)
           /\ spoolPos' = [u \in Tracks |-> spoolPos'[u]]
           /\ spoolPos'[t] = chunks[t][k].place + read
           /\ \A u \in Tracks : u # t => spoolPos'[u] = spoolPos[u]
           /\ OneMore(t, k, written)
           /\ FromPlaces'
<1>1. /\ Kinds /\ pos \in Nat /\ ret = "OK"
      /\ spoolPos[t] = chunks[t][k].place
  BY DEF MdatInv, Stages, ReadsOn
<1>2. /\ t \in Tracks /\ k \in 1..Len(chunks[t]) /\ k \in Nat
      /\ chunks[t][k].place \in Nat
  BY <1>1, NextChunkFacts
<1>3. /\ chunks' = [chunks EXCEPT ![t][k].offset = pos]
      /\ spoolPos' = [spoolPos EXCEPT ![t] = @ + read]
      /\ out' = Append(out, [track |-> t, chunk |-> k, from |-> chunks[t][k].place,
                             at |-> pos, bytes |-> written])
  BY <1>1 DEF Copy
<1>4. /\ chunks \in [Tracks -> Seq(Chunk)] /\ spoolPos = [u \in Tracks |-> spoolPos[u]]
      /\ out \in Seq(Written) /\ \A u \in Tracks : IsSpooled(chunks[u])
  BY <1>1 DEF Kinds
<1> DEFINE m == [chunks[t] EXCEPT ![k].offset = pos]
<1>5. chunks' = [chunks EXCEPT ![t] = m]
  BY <1>3
<1>6. /\ IsSpooled(m) /\ Len(m) = Len(chunks[t])
      /\ \A j \in 1..Len(chunks[t]) :
           /\ m[j].dts = chunks[t][j].dts /\ m[j].place = chunks[t][j].place
           /\ BytesIn(m[j]) = BytesIn(chunks[t][j])
           /\ m[j].offset = IF j = k THEN pos ELSE chunks[t][j].offset
  <2>1. IsSpooled(chunks[t]) /\ m = [chunks[t] EXCEPT ![k].offset = pos]
    BY <1>2, <1>4
  <2> HIDE DEF m
  <2> QED BY SMTT(30), <1>1, <1>2, <2>1, OffsetSet
<1> HIDE DEF m
<1>7. m \in Seq(Chunk)
  BY <1>6 DEF IsSpooled
<1>8. chunks' \in [Tracks -> Seq(Chunk)] /\ \A u \in Tracks : chunks'[u] = IF u = t THEN m ELSE chunks[u]
  BY <1>4, <1>5, <1>7
<1>9. SameButOffset(t, k)
  BY <1>4, <1>6, <1>8 DEF SameButOffset
<1>10. /\ spoolPos' = [u \in Tracks |-> spoolPos'[u]]
       /\ spoolPos'[t] = spoolPos[t] + read
       /\ \A u \in Tracks : u # t => spoolPos'[u] = spoolPos[u]
  BY <1>2, <1>3, <1>4
<1>11. OneMore(t, k, written)
  <2> DEFINE o == [track |-> t, chunk |-> k, from |-> chunks[t][k].place,
                   at |-> pos, bytes |-> written]
  <2>1. o \in Written
    BY <1>1, <1>2 DEF Written
  <2> HIDE DEF o
  <2>2. out' = Append(out, o)
    BY <1>3 DEF o
  <2>3. /\ out' \in Seq(Written) /\ Len(out') = Len(out) + 1
        /\ \A i \in 1..Len(out) : out'[i] = out[i]
        /\ out'[Len(out) + 1] = o
    BY <1>4, <2>1, <2>2, AppendProperties
  <2>4. Len(out) \in Nat /\ \A i \in 1..Len(out) : out[i] \in Written
    BY <1>4, ElementOfSeq
  <2> QED BY <2>3, <2>4 DEF OneMore, o
<1>12. FromPlaces'
  <2> SUFFICES ASSUME NEW i \in 1..Len(out')
               PROVE  /\ out'[i].chunk \in 1..Len(chunks'[out'[i].track])
                      /\ out'[i].from = chunks'[out'[i].track][out'[i].chunk].place
    BY DEF FromPlaces
  <2>1. CASE i = Len(out) + 1
    <3>1. out'[i].track = t /\ out'[i].chunk = k /\ out'[i].from = chunks[t][k].place
      BY <1>11, <2>1 DEF OneMore
    <3> QED BY <3>1, <1>2, <1>9 DEF SameButOffset
  <2>2. CASE i # Len(out) + 1
    <3>1. i \in 1..Len(out) /\ out'[i] = out[i] /\ out[i].track \in Tracks
      <4>1. i \in 1..Len(out) /\ out'[i] = out[i] /\ out[i] \in Written
        BY <1>11, <2>2 DEF OneMore
      <4> QED BY <4>1 DEF Written
    <3>2. /\ out[i].chunk \in 1..Len(chunks[out[i].track])
          /\ out[i].from = chunks[out[i].track][out[i].chunk].place
      BY <3>1 DEF MdatInv, FromPlaces
    <3> QED BY <3>1, <3>2, <1>9 DEF SameButOffset
  <2> QED BY <2>1, <2>2
<1> QED BY <1>1, <1>2, <1>8, <1>9, <1>10, <1>11, <1>12

(* A chunk written whole.                                                   *)
LEMMA NextChunkKeeps ==
    ASSUME MdatInv, NextChunk
    PROVE  MdatInv'
<1>1. /\ phase = "chunks" /\ UNCHANGED <<stco, phase, ret>>
  BY DEF NextChunk
<1>2. PICK t \in Tracks, d \in OutputTimes :
         /\ ChooseTrack(t, d) /\ dtsOut' = d
         /\ WriteChunk(t)
         /\ chunkToOut' = [chunkToOut EXCEPT ![t] = @ + 1]
  BY DEF NextChunk
<1>3. /\ t \in Pending /\ d = NextDts(t)
      /\ \A u \in Pending : d <= NextDts(u)
  BY <1>1, <1>2, Chosen
<1> DEFINE k == chunkToOut[t] + 1
           n == BytesIn(chunks[t][k])
<1>4. /\ Kinds /\ ret = "OK" /\ Accounts
  BY <1>1 DEF MdatInv, Stages
<1>5. /\ n \in Nat /\ d \in Nat /\ k \in Nat /\ chunkToOut[t] \in Nat
      /\ k \in 1..Len(chunks[t]) /\ Len(chunks[t]) \in Nat
  BY <1>3, <1>4, NextChunkFacts DEF Kinds
<1>6. Copy(t, n, n)
  BY <1>2 DEF WriteChunk
<1>7. /\ pos \in Nat
      /\ chunks' \in [Tracks -> Seq(Chunk)]
      /\ SameButOffset(t, k)
      /\ spoolPos' = [u \in Tracks |-> spoolPos'[u]]
      /\ spoolPos'[t] = chunks[t][k].place + n
      /\ \A u \in Tracks : u # t => spoolPos'[u] = spoolPos[u]
      /\ OneMore(t, k, n)
      /\ FromPlaces'
  <2> HIDE DEF k, n
  <2>1. n \in Int /\ k = chunkToOut[t] + 1
    BY <1>5 DEF k
  <2> QED BY <1>1, <1>3, <1>6, <2>1, Copied
<1> HIDE DEF n
<1>8. /\ chunkToOut' \in [Tracks -> Nat] /\ chunkToOut'[t] = k
      /\ \A u \in Tracks : u # t => chunkToOut'[u] = chunkToOut[u]
  BY <1>2, <1>4, <1>5 DEF Kinds
<1>9. Kinds'
  <2>1. \A u \in Tracks : IsSpooled(chunks'[u]) /\ chunkToOut'[u] <= Len(chunks'[u])
    <3> SUFFICES ASSUME NEW u \in Tracks
                 PROVE  IsSpooled(chunks'[u]) /\ chunkToOut'[u] <= Len(chunks'[u])
      OBVIOUS
    <3>1. IsSpooled(chunks'[u]) /\ Len(chunks'[u]) = Len(chunks[u])
      BY <1>7 DEF SameButOffset
    <3>2. chunkToOut[u] <= Len(chunks[u])
      BY <1>4 DEF Kinds
    <3>3. CASE u = t
      BY <3>1, <3>3, <1>5, <1>8
    <3>4. CASE u # t
      BY <3>1, <3>2, <3>4, <1>8
    <3> QED BY <3>3, <3>4
  <2>2. dtsOut' \in Nat /\ out' \in Seq(Written)
    BY <1>2, <1>5, <1>7 DEF OneMore
  <2> QED BY <1>7, <1>8, <2>1, <2>2 DEF Kinds
<1>10. /\ Pending' \subseteq Pending
       /\ \A u \in Pending' : u # t => NextDts(u)' = NextDts(u)
       /\ \A u \in Pending' : u = t => /\ k + 1 \in 1..Len(chunks[t])
                                       /\ NextDts(u)' = chunks[t][k + 1].dts
  <2>1. ASSUME NEW u \in Pending' PROVE u \in Pending
    <3>1. u \in Tracks /\ chunkToOut'[u] < Len(chunks[u])
      BY <1>7 DEF Pending, SameButOffset
    <3> QED BY <3>1, <1>3, <1>8 DEF Pending
  <2>2. ASSUME NEW u \in Pending', u # t PROVE NextDts(u)' = NextDts(u)
    <3>1. u \in Tracks /\ chunkToOut'[u] = chunkToOut[u] /\ chunkToOut[u] + 1 \in 1..Len(chunks[u])
      BY <1>4, <1>8, <2>1, <2>2, NextChunkFacts
    <3> QED BY <3>1, <1>7 DEF NextDts, SameButOffset
  <2>3. ASSUME t \in Pending'
        PROVE  k + 1 \in 1..Len(chunks[t]) /\ NextDts(t)' = chunks[t][k + 1].dts
    <3>1. k < Len(chunks[t])
      BY <1>3, <1>7, <1>8, <2>3 DEF Pending, SameButOffset
    <3>2. k + 1 \in 1..Len(chunks[t])
      BY <3>1, <1>5
    <3>3. NextDts(t)' = chunks'[t][k + 1].dts
      BY <1>8 DEF NextDts
    <3> QED BY <3>2, <3>3, <1>7 DEF SameButOffset
  <2> QED BY <2>1, <2>2, <2>3
<1>11. k + 1 \in 1..Len(chunks[t]) =>
         /\ chunks[t][k].dts <= chunks[t][k + 1].dts
         /\ chunks[t][k + 1].place = chunks[t][k].place + n
  <2>1. ASSUME k + 1 \in 1..Len(chunks[t]) PROVE k \in 1..(Len(chunks[t]) - 1)
    BY <1>5, <2>1
  <2>2. IsSpooled(chunks[t])
    BY <1>4 DEF Kinds
  <2> QED BY <2>1, <2>2 DEF IsSpooled, n
<1>12. ReadsOn'
  <2> SUFFICES ASSUME NEW u \in Pending'
               PROVE  spoolPos'[u] = chunks'[u][chunkToOut'[u] + 1].place
    BY DEF ReadsOn
  <2>1. CASE u = t
    <3>1. /\ k + 1 \in 1..Len(chunks[t]) /\ chunkToOut'[u] + 1 = k + 1
      BY <1>8, <1>10, <2>1
    <3>2. chunks'[t][k + 1].place = chunks[t][k + 1].place
      BY <3>1, <1>7 DEF SameButOffset
    <3> QED BY <3>1, <3>2, <1>7, <1>11, <2>1
  <2>2. CASE u # t
    <3>1. /\ u \in Pending /\ u \in Tracks /\ chunkToOut'[u] = chunkToOut[u]
          /\ chunkToOut[u] + 1 \in 1..Len(chunks[u])
      BY <1>4, <1>8, <1>10, <2>2, NextChunkFacts
    <3>2. spoolPos[u] = chunks[u][chunkToOut[u] + 1].place
      BY <3>1, <1>4 DEF MdatInv, ReadsOn
    <3> QED BY <3>1, <3>2, <1>7, <2>2 DEF SameButOffset
  <2> QED BY <2>1, <2>2
<1>13. TimeBelow'
  <2> SUFFICES ASSUME NEW u \in Pending' PROVE dtsOut' <= NextDts(u)'
    BY DEF TimeBelow
  <2>1. CASE u = t
    BY <1>2, <1>3, <1>10, <1>11, <2>1 DEF NextDts
  <2>2. CASE u # t
    BY <1>2, <1>3, <1>10, <2>2
  <2> QED BY <2>1, <2>2
<1>14. Accounts'
  <2>1. ASSUME NEW i \in 1..Len(out'), i # Len(out) + 1
        PROVE  /\ i \in 1..Len(out) /\ out'[i] = out[i]
               /\ out[i].track \in Tracks /\ out[i].chunk \in 1..Len(chunks[out[i].track])
               /\ out[i].chunk <= chunkToOut[out[i].track] /\ out[i].chunk \in Nat
               /\ chunkToOut[out[i].track] \in Nat
    <3>1. i \in 1..Len(out) /\ out'[i] = out[i] /\ out[i] \in Written
      BY <1>7, <2>1 DEF OneMore
    <3>2. out[i].track \in Tracks /\ out[i].chunk \in Nat
      BY <3>1 DEF Written
    <3>3. out[i].chunk \in 1..Len(chunks[out[i].track]) /\ out[i].chunk <= chunkToOut[out[i].track]
      BY <3>1, <1>4 DEF MdatInv, FromPlaces, Accounts
    <3> QED BY <3>1, <3>2, <3>3, <1>4 DEF Kinds
  <2>2. LET i == Len(out) + 1
        IN  /\ i \in 1..Len(out') /\ out'[i].track = t /\ out'[i].chunk = k
            /\ out'[i].at = pos /\ out'[i].bytes = n
    BY <1>7 DEF OneMore
  <2>3. ASSUME NEW i \in 1..Len(out')
        PROVE  /\ out'[i].chunk <= chunkToOut'[out'[i].track]
               /\ out'[i].bytes = BytesIn(chunks'[out'[i].track][out'[i].chunk])
               /\ out'[i].at = chunks'[out'[i].track][out'[i].chunk].offset
    <3>1. CASE i = Len(out) + 1
      <4>1. BytesIn(chunks'[t][k]) = n /\ chunks'[t][k].offset = pos
        BY <1>3, <1>5, <1>7 DEF SameButOffset, Pending, n
      <4>2. out'[i].track = t /\ out'[i].chunk = k /\ out'[i].at = pos /\ out'[i].bytes = n
        BY <2>2, <3>1
      <4> QED BY <4>1, <4>2, <1>5, <1>8
    <3>2. CASE i # Len(out) + 1
      <4> DEFINE u == out[i].track
                 j == out[i].chunk
      <4>1. /\ i \in 1..Len(out) /\ out'[i] = out[i] /\ u \in Tracks /\ j \in 1..Len(chunks[u])
            /\ j <= chunkToOut[u] /\ j \in Nat /\ chunkToOut[u] \in Nat
        BY <2>1, <3>2
      <4>2. out[i].bytes = BytesIn(chunks[u][j]) /\ out[i].at = chunks[u][j].offset
        BY <4>1, <1>4 DEF Accounts
      <4> HIDE DEF u, j
      <4>3. ~(u = t /\ j = k)
        BY <4>1, <1>5
      <4>4. BytesIn(chunks'[u][j]) = BytesIn(chunks[u][j]) /\ chunks'[u][j].offset = chunks[u][j].offset
        BY <4>1, <4>3, <1>7 DEF SameButOffset
      <4>5. j <= chunkToOut'[u]
        BY <4>1, <1>5, <1>8
      <4> QED BY <4>1, <4>2, <4>4, <4>5 DEF u, j
    <3> QED BY <3>1, <3>2
  <2>4. ASSUME NEW u \in Tracks, NEW j \in 1..chunkToOut'[u]
        PROVE  \E i \in 1..Len(out') : out'[i].track = u /\ out'[i].chunk = j
    <3>1. CASE u = t /\ j = k
      BY <2>2, <3>1
    <3>2. CASE ~(u = t /\ j = k)
      <4>1. j \in 1..chunkToOut[u]
        BY <3>2, <1>5, <1>8
      <4>2. PICK i \in 1..Len(out) : Entry(i, u, j)
        BY <4>1, <1>4 DEF Accounts
      <4>3. i \in 1..Len(out') /\ out'[i] = out[i]
        BY <1>7 DEF OneMore
      <4> QED BY <4>2, <4>3 DEF Entry
    <3> QED BY <3>1, <3>2
  <2>5. ASSUME NEW i \in 1..Len(out'), NEW j \in 1..Len(out'),
               out'[i].track = out'[j].track, out'[i].chunk = out'[j].chunk
        PROVE  i = j
    <3>1. CASE i = Len(out) + 1 /\ j # Len(out) + 1
      BY SMTT(30), <3>1, <2>1, <2>2, <2>5, <1>5
    <3>2. CASE j = Len(out) + 1 /\ i # Len(out) + 1
      BY SMTT(30), <3>2, <2>1, <2>2, <2>5, <1>5
    <3>3. CASE i # Len(out) + 1 /\ j # Len(out) + 1
      BY <3>3, <2>1, <2>5, <1>4 DEF Accounts
    <3> QED BY <3>1, <3>2, <3>3
  <2> QED BY <2>3, <2>4, <2>5 DEF Accounts, Entry
<1>15. Stages'
  <2>1. pos' \in Nat
    BY <1>5, <1>6, <1>7 DEF Copy
  <2> QED BY <2>1, <1>1, <1>4 DEF Stages
<1> QED BY <1>7, <1>9, <1>12, <1>13, <1>14, <1>15 DEF MdatInv

(* A chunk broken off: read from its own place, and not counted.            *)
LEMMA FailChunkKeeps ==
    ASSUME MdatInv, FailChunk
    PROVE  /\ MdatInv' /\ ret = "OK"
           /\ ret' \in {"READ_ERR", "WRITE_ERR"}
           /\ \E t \in Tracks, written \in Int :
                SameButOffset(t, chunkToOut[t] + 1) /\ OneMore(t, chunkToOut[t] + 1, written)
<1>1. /\ phase = "chunks" /\ phase' = "stco" /\ UNCHANGED <<chunkToOut, stco>>
  BY DEF FailChunk
<1>2. PICK t \in Tracks, d \in OutputTimes :
         ChooseTrack(t, d) /\ dtsOut' = d /\ WriteChunkFails(t)
  BY DEF FailChunk
<1>3. t \in Pending /\ d = NextDts(t)
  BY <1>1, <1>2, Chosen
<1> DEFINE k == chunkToOut[t] + 1
<1>4. /\ Kinds /\ d \in Nat
  BY <1>3, NextChunkFacts DEF MdatInv
<1>5. PICK fault \in Faults :
         /\ \E b \in Broken(fault, chunks[t][k].sizes) : Copy(t, b.read, b.written)
         /\ ret' = IF fault = "read" THEN "READ_ERR" ELSE "WRITE_ERR"
  BY <1>2 DEF WriteChunkFails
<1>6. PICK b \in Broken(fault, chunks[t][k].sizes) :
         b.written \in Int /\ Copy(t, b.read, b.written)
  BY <1>5 DEF Broken
<1>7. /\ t \in Tracks /\ pos \in Nat /\ ret = "OK"
      /\ chunks' \in [Tracks -> Seq(Chunk)]
      /\ SameButOffset(t, k)
      /\ spoolPos' = [u \in Tracks |-> spoolPos'[u]]
      /\ OneMore(t, k, b.written)
      /\ FromPlaces'
  <2> HIDE DEF k
  <2>1. k = chunkToOut[t] + 1
    BY DEF k
  <2> QED BY <1>1, <1>3, <1>6, <2>1, Copied
<1>8. ret' \in {"READ_ERR", "WRITE_ERR"}
  BY <1>5
<1>9. Kinds'
  BY <1>1, <1>2, <1>4, <1>7 DEF Kinds, SameButOffset, OneMore
<1>10. out' # << >>
  BY <1>7 DEF OneMore
<1>11. Stages'
  BY <1>1, <1>8, <1>10 DEF Stages
<1> QED BY <1>6, <1>7, <1>8, <1>9, <1>11 DEF MdatInv, ReadsOn, TimeBelow

(* The steps that write no chunk.                                           *)
Elsewhere ==
    /\ UNCHANGED <<chunks, chunkToOut, spoolPos, out>>
    /\ dtsOut' = 0 \/ dtsOut' = dtsOut
    /\ ret' = ret \/ (ret = "OK" /\ ret' = "PARAM_ERR")

LEMMA ElsewhereKeeps ==
    ASSUME MdatInv, Elsewhere, Stages'
    PROVE  MdatInv'
<1>1. /\ UNCHANGED <<chunks, chunkToOut, spoolPos, out>>
      /\ dtsOut' = 0 \/ dtsOut' = dtsOut
      /\ ret' = "OK" => ret = "OK"
  BY DEF Elsewhere
<1>2. Kinds'
  BY <1>1 DEF MdatInv, Kinds
<1>3. Pending' = Pending /\ \A t : NextDts(t)' = NextDts(t)
  BY <1>1 DEF Pending, NextDts
<1>4. ReadsOn'
  BY <1>1, <1>3 DEF MdatInv, ReadsOn
<1>5. TimeBelow'
  <2> SUFFICES ASSUME ret' = "OK", NEW t \in Pending PROVE dtsOut' <= NextDts(t)
    BY <1>3 DEF TimeBelow
  <2>1. NextDts(t) \in Nat /\ dtsOut <= NextDts(t)
    BY <1>1, NextChunkFacts DEF MdatInv, TimeBelow
  <2> QED BY <1>1, <2>1
<1>6. FromPlaces'
  BY <1>1 DEF MdatInv, FromPlaces
<1>7. Accounts' = Accounts
  BY <1>1 DEF Accounts, Entry
<1> QED BY <1>1, <1>2, <1>4, <1>5, <1>6, <1>7 DEF MdatInv

LEMMA OtherSteps ==
    ASSUME MdatInv,
           WriteMoov \/ CheckSelection \/ WriteMdatHeader \/ AllChunksWritten \/ ModifyStco
    PROVE  Elsewhere /\ Stages'
<1> USE MdatWriterAssumption
<1>1. CASE WriteMoov
  <2>1. /\ phase = "moov" /\ phase' = "check" /\ ret' = ret /\ pos' \in Nat
        /\ UNCHANGED <<chunks, chunkToOut, spoolPos, out, dtsOut>>
    BY <1>1 DEF WriteMoov
  <2>2. ret = "OK"
    BY <2>1 DEF MdatInv, Stages
  <2> QED BY <2>1, <2>2 DEF Stages, Elsewhere
<1>2. CASE CheckSelection
  <2>1. /\ phase = "check"
        /\ (ret' = "PARAM_ERR" /\ phase' = "done") \/ (ret' = ret /\ phase' = "header")
        /\ UNCHANGED <<chunks, chunkToOut, spoolPos, out, dtsOut, pos>>
    BY <1>2 DEF CheckSelection
  <2>2. ret = "OK" /\ pos \in Nat
    BY <2>1 DEF MdatInv, Stages
  <2> QED BY <2>1, <2>2 DEF Stages, Elsewhere
<1>3. CASE WriteMdatHeader
  <2>1. /\ phase = "header" /\ phase' = "chunks" /\ ret' = ret /\ dtsOut' = 0
        /\ pos' = pos + 8 \/ pos' = pos + 16
        /\ UNCHANGED <<chunks, chunkToOut, spoolPos, out>>
    BY <1>3 DEF WriteMdatHeader
  <2>2. ret = "OK" /\ pos \in Nat
    BY <2>1 DEF MdatInv, Stages
  <2>3. pos' \in Nat
    BY <2>1, <2>2
  <2> QED BY <2>1, <2>2, <2>3 DEF Stages, Elsewhere
<1>4. CASE AllChunksWritten
  <2>1. /\ phase = "chunks" /\ phase' = "stco" /\ ret' = ret /\ Pending = {}
        /\ UNCHANGED <<chunks, chunkToOut, spoolPos, out, dtsOut>>
    BY <1>4 DEF AllChunksWritten
  <2>2. Pending' = {}
    BY <2>1 DEF Pending
  <2>3. ret = "OK"
    BY <2>1 DEF MdatInv, Stages
  <2> QED BY <2>1, <2>2, <2>3 DEF Stages, Elsewhere
<1>5. CASE ModifyStco
  <2>1. /\ phase = "stco" /\ phase' = "done" /\ ret' = ret
        /\ UNCHANGED <<chunks, chunkToOut, spoolPos, out, dtsOut>>
        /\ stco' = [t \in Tracks |-> Offsets(t)]
    BY <1>5 DEF ModifyStco
  <2>2. Pending' = Pending
    BY <2>1 DEF Pending
  <2>3. \A t \in Tracks : \A k \in 1..Len(chunks[t]) : stco'[t][k] = chunks[t][k].offset
    BY <2>1 DEF Offsets
  <2>4. /\ ret \in {"OK", "PARAM_ERR", "READ_ERR", "WRITE_ERR"}
        /\ ret = "OK" => Pending = {}
        /\ ret \in {"READ_ERR", "WRITE_ERR"} => out # << >>
    BY <2>1 DEF MdatInv, Stages
  <2>5. chunks' = chunks /\ out' = out /\ ret' = ret /\ phase' = "done"
    BY <2>1
  <2>6. Stages'
    BY <2>2, <2>3, <2>4, <2>5 DEF Stages
  <2> QED BY <2>1, <2>6 DEF Elsewhere
<1> QED BY <1>1, <1>2, <1>3, <1>4, <1>5

LEMMA InitMdatInv == Init => MdatInv
<1> SUFFICES ASSUME Init PROVE MdatInv
  OBVIOUS
<1>1. /\ chunks \in [Tracks -> ChunkLists] /\ chunkToOut = [t \in Tracks |-> 0]
      /\ spoolPos = [t \in Tracks |-> 0] /\ dtsOut = 0
      /\ phase = "moov" /\ ret = "OK" /\ out = << >>
  BY DEF Init
<1>2. \A t \in Tracks : IsSpooled(chunks[t])
  BY <1>1, MdatWriterAssumption
<1>3. \A t \in Tracks : chunks[t] \in Seq(Chunk) /\ Len(chunks[t]) \in Nat
  BY <1>2 DEF IsSpooled
<1>4. Kinds
  <2>1. out \in Seq(Written)
    BY <1>1, EmptySeq
  <2> QED BY <1>1, <1>2, <1>3, <2>1 DEF Kinds
<1>5. Stages
  BY <1>1 DEF Stages
<1>6. ReadsOn
  <2> SUFFICES ASSUME NEW t \in Pending PROVE spoolPos[t] = chunks[t][chunkToOut[t] + 1].place
    BY DEF ReadsOn
  <2>1. t \in Tracks /\ chunkToOut[t] = 0 /\ 0 < Len(chunks[t])
    BY <1>1 DEF Pending
  <2>2. chunks[t] # << >>
    BY <2>1
  <2> QED BY <1>1, <1>2, <2>1, <2>2 DEF IsSpooled
<1>7. TimeBelow
  <2> SUFFICES ASSUME NEW t \in Pending PROVE 0 <= NextDts(t)
    BY <1>1 DEF TimeBelow
  <2>1. NextDts(t) \in Nat
    BY <1>4, NextChunkFacts
  <2> QED BY <2>1
<1>8. FromPlaces /\ Accounts
  <2>1. Len(out) = 0
    BY <1>1
  <2> QED BY <1>1, <2>1 DEF FromPlaces, Accounts
<1> QED BY <1>4, <1>5, <1>6, <1>7, <1>8 DEF MdatInv

LEMMA MdatStep == MdatInv /\ [Next]_vars => MdatInv'
<1> SUFFICES ASSUME MdatInv, [Next]_vars PROVE MdatInv'
  OBVIOUS
<1>1. CASE UNCHANGED vars
  <2>1. UNCHANGED <<phase, ret, pos, stco, chunks, chunkToOut, spoolPos, dtsOut, out>>
    BY <1>1 DEF vars
  <2>2. Elsewhere
    BY <2>1 DEF Elsewhere
  <2>3. Pending' = Pending
    BY <2>1 DEF Pending
  <2>4. Stages' = Stages
    BY <2>1, <2>3 DEF Stages
  <2> QED BY <2>2, <2>4, ElsewhereKeeps DEF MdatInv
<1> QED BY <1>1, NextChunkKeeps, FailChunkKeeps, OtherSteps, ElsewhereKeeps DEF Next

LEMMA MdatInvariance == Spec => []MdatInv
BY InitMdatInv, MdatStep, PTL DEF Spec

(* The reads, which never seek, find every chunk in its own place of the    *)
(* spool.                                                                   *)
THEOREM ChunksAreReadInPlace == Spec => []ChunksReadTheirOwnBytes
<1>1. MdatInv => ChunksReadTheirOwnBytes
  BY DEF MdatInv, FromPlaces, Accounts, ChunksReadTheirOwnBytes
<1> QED BY <1>1, MdatInvariance, PTL

(* In a finished file 'stco' says of every chunk where it is, and each has  *)
(* been written once.                                                       *)
THEOREM OffsetsAreThoseWritten == Spec => []StcoPointsAtChunks
<1>1. MdatInv => StcoPointsAtChunks
  <2> SUFFICES ASSUME MdatInv, phase = "done", ret = "OK",
                      NEW t \in Tracks, NEW k \in 1..Len(chunks[t])
               PROVE  /\ \E i \in 1..Len(out) : /\ out[i].track = t /\ out[i].chunk = k
                                                /\ stco[t][k] = out[i].at
                      /\ \A i, j \in 1..Len(out) :
                           out[i].track = out[j].track /\ out[i].chunk = out[j].chunk => i = j
    BY DEF StcoPointsAtChunks
  <2>1. /\ Pending = {} /\ Accounts /\ stco[t][k] = chunks[t][k].offset
        /\ chunkToOut[t] \in Nat /\ chunkToOut[t] <= Len(chunks[t]) /\ chunks[t] \in Seq(Chunk)
    BY DEF MdatInv, Stages, Kinds
  <2>2. k \in 1..chunkToOut[t]
    <3>1. Len(chunks[t]) \in Nat /\ ~(chunkToOut[t] < Len(chunks[t]))
      BY <2>1 DEF Pending
    <3> QED BY <2>1, <3>1
  <2>3. PICK i \in 1..Len(out) : Entry(i, t, k)
    BY <2>1, <2>2 DEF Accounts
  <2>4. out[i].at = chunks[t][k].offset
    BY <2>1, <2>3 DEF Accounts, Entry
  <2> QED BY <2>1, <2>3, <2>4 DEF Accounts, Entry
<1> QED BY <1>1, MdatInvariance, PTL
-----------------------------------------------------------------------------
(* The payload: what is written fills 'mdat' from its header on, and the    *)
(* bytes of the chunks counted are what the sink has moved by.              *)
BytesOut(t) == SumOver(ChunkBytes(t), 1, chunkToOut[t])
Payload     == SumOver([t \in Tracks |-> BytesOut(t)], 1, NTracks)
Header      == IF mdatSize + 8 <= MaxU32 THEN 8 ELSE 16

Opened      == phase \in {"chunks", "stco", "done"} /\ ret # "PARAM_ERR"

Places ==
    /\ \A t \in Tracks : spoolPos[t] \in Nat
    /\ pos \in Nat
    /\ mdat \in [start : Nat, size : Nat]
    /\ co64 \in BOOLEAN

EndToEnd ==
    /\ \A i \in 1..(Len(out) - 1) : out[i + 1].at = out[i].at + out[i].bytes
    /\ phase \in {"moov", "check", "header"} => out = << >>
    /\ ret = "OK" /\ out # << >> => pos = out[Len(out)].at + out[Len(out)].bytes
    /\ ret = "OK" => \A i \in 1..Len(out) : out[i].at <= pos

Filling ==
    Opened => /\ mdat.size = mdatSize + Header
              /\ ret = "OK" => pos = mdat.start + Header + Payload

FillInv == MdatInv /\ Places /\ EndToEnd /\ Filling

(* The choice of 'stco', kept by what the estimate was when it was made.    *)
FitInv ==
    /\ udta = 0 /\ moovSizeEst \in Nat
    /\ phase # "moov" /\ ~co64 => moovSizeEst + 16 + mdatSize <= MaxU32
    /\ phase = "header" /\ ~co64 => pos + 16 + mdatSize <= MaxU32
    /\ Opened /\ ~co64 => mdat.start + 16 + mdatSize <= MaxU32
    /\ phase = "done" /\ ret = "OK" => stco = [t \in Tracks |-> Offsets(t)]

LEMMA PayloadSums ==
    ASSUME Kinds
    PROVE  /\ \A t \in Tracks : /\ \A k \in 1..Len(chunks[t]) : ChunkBytes(t)[k] \in Nat
                              /\ BytesOut(t) \in Nat
                              /\ SumOver(ChunkBytes(t), 1, Len(chunks[t])) \in Nat
           /\ mdatSize \in Nat /\ Payload \in Nat
           /\ Pending = {} => Payload = mdatSize
<1>1. NTracks \in Nat /\ Tracks = 1..NTracks
  BY MdatWriterAssumption DEF Tracks
<1>2. ASSUME NEW t \in Tracks
      PROVE  /\ \A k \in 1..Len(chunks[t]) : ChunkBytes(t)[k] \in Nat
             /\ BytesOut(t) \in Nat
             /\ SumOver(ChunkBytes(t), 1, Len(chunks[t])) \in Nat
  <2>1. IsSpooled(chunks[t]) /\ chunkToOut[t] \in Nat /\ chunkToOut[t] <= Len(chunks[t])
    BY DEF Kinds
  <2>2. Len(chunks[t]) \in Nat
    BY <2>1 DEF IsSpooled
  <2>3. \A k \in 1..Len(chunks[t]) : ChunkBytes(t)[k] \in Nat
    BY <2>1, SpooledBytes DEF ChunkBytes
  <2>4. \A k \in 1..chunkToOut[t] : ChunkBytes(t)[k] \in Nat
    BY <2>1, <2>2, <2>3
  <2> QED BY <2>1, <2>2, <2>3, <2>4, SumNat DEF BytesOut
<1>3. mdatSize \in Nat
  BY <1>1, <1>2, SumNat DEF mdatSize
<1>4. Payload \in Nat
  BY <1>1, <1>2, SumNat DEF Payload
<1>5. ASSUME Pending = {} PROVE Payload = mdatSize
  <2>1. \A t \in Tracks : BytesOut(t) = SumOver(ChunkBytes(t), 1, Len(chunks[t]))
    <3> SUFFICES ASSUME NEW t \in Tracks
                 PROVE  BytesOut(t) = SumOver(ChunkBytes(t), 1, Len(chunks[t]))
      OBVIOUS
    <3>1. /\ chunkToOut[t] \in Nat /\ chunkToOut[t] <= Len(chunks[t])
          /\ chunks[t] \in Seq(Chunk)
      BY DEF Kinds
    <3>2. Len(chunks[t]) \in Nat /\ ~(chunkToOut[t] < Len(chunks[t]))
      BY <1>5, <3>1 DEF Pending
    <3>3. chunkToOut[t] = Len(chunks[t])
      BY <3>1, <3>2
    <3> QED BY <3>3 DEF BytesOut
  <2>2. [t \in Tracks |-> BytesOut(t)] = [t \in Tracks |-> SumOver(ChunkBytes(t), 1, Len(chunks[t]))]
    BY <2>1
  <2> QED BY <2>2 DEF Payload, mdatSize
<1> QED BY <1>2, <1>3, <1>4, <1>5

(* Giving chunks their places changes no size.                              *)
LEMMA SizesStay ==
    ASSUME Kinds, \/ UNCHANGED chunks
                  \/ \E t \in Tracks : SameButOffset(t, chunkToOut[t] + 1)
    PROVE  /\ \A u \in Tracks : /\ Len(chunks'[u]) = Len(chunks[u])
                              /\ ChunkBytes(u)' = ChunkBytes(u)
           /\ mdatSize' = mdatSize /\ Header' = Header
<1>1. \A u \in Tracks : /\ Len(chunks'[u]) = Len(chunks[u])
                       /\ \A k \in 1..Len(chunks[u]) : BytesIn(chunks'[u][k]) = BytesIn(chunks[u][k])
  BY DEF SameButOffset
<1>2. \A u \in Tracks : ChunkBytes(u)' = ChunkBytes(u)
  BY <1>1 DEF ChunkBytes
<1>3. \A u \in Tracks : SumOver(ChunkBytes(u)', 1, Len(chunks'[u])) = SumOver(ChunkBytes(u), 1, Len(chunks[u]))
  BY <1>1, <1>2
<1>4. mdatSize' = mdatSize
  BY <1>3 DEF mdatSize
<1> QED BY <1>1, <1>2, <1>4 DEF Header

(* What one turn of the chunk loop has done.                                *)
LEMMA ChunkWritten ==
    ASSUME MdatInv, NextChunk
    PROVE  /\ phase = "chunks" /\ ret = "OK" /\ UNCHANGED <<phase, ret, mdat, co64>>
           /\ \E t \in Pending, k \in Nat, n \in Nat :
                 /\ t \in Tracks /\ k = chunkToOut[t] + 1 /\ k \in 1..Len(chunks[t])
                 /\ n = BytesIn(chunks[t][k])
                 /\ SameButOffset(t, k) /\ OneMore(t, k, n)
                 /\ chunkToOut' = [chunkToOut EXCEPT ![t] = k]
                 /\ chunks[t][k].place \in Nat
                 /\ spoolPos'[t] = chunks[t][k].place + n
                 /\ \A u \in Tracks : u # t => spoolPos'[u] = spoolPos[u]
                 /\ pos' = pos + n
<1>1. phase = "chunks" /\ UNCHANGED <<phase, ret, mdat, co64>>
  BY DEF NextChunk
<1>2. PICK t \in Tracks, d \in OutputTimes :
         /\ ChooseTrack(t, d) /\ WriteChunk(t)
         /\ chunkToOut' = [chunkToOut EXCEPT ![t] = @ + 1]
  BY DEF NextChunk
<1>3. t \in Pending
  BY <1>1, <1>2, Chosen
<1>4. Kinds /\ ret = "OK"
  BY <1>1 DEF MdatInv, Stages
<1> DEFINE k == chunkToOut[t] + 1
           n == BytesIn(chunks[t][k])
<1>5. /\ n \in Nat /\ k \in Nat /\ k \in 1..Len(chunks[t])
      /\ chunks[t][k].place \in Nat /\ chunkToOut[t] \in Nat
  BY <1>3, <1>4, NextChunkFacts
<1>6. Copy(t, n, n) /\ k = chunkToOut[t] + 1
  BY <1>2 DEF WriteChunk
<1>7. chunkToOut' = [chunkToOut EXCEPT ![t] = k]
  BY <1>2
<1>8. n = BytesIn(chunks[t][k])
  OBVIOUS
<1> HIDE DEF k, n
<1>9. n \in Int
  BY <1>5
<1>10. /\ SameButOffset(t, k) /\ OneMore(t, k, n)
       /\ spoolPos'[t] = chunks[t][k].place + n
       /\ \A u \in Tracks : u # t => spoolPos'[u] = spoolPos[u]
  BY <1>1, <1>3, <1>6, <1>9, Copied
<1>11. pos' = pos + n
  BY <1>6 DEF Copy
<1> QED BY <1>1, <1>3, <1>4, <1>5, <1>6, <1>7, <1>8, <1>10, <1>11

LEMMA NextChunkFills ==
    ASSUME FillInv, NextChunk
    PROVE  FillInv'
<1>1. MdatInv /\ MdatInv' /\ Kinds /\ Kinds' /\ Places /\ EndToEnd /\ Filling
  BY NextChunkKeeps DEF FillInv, MdatInv
<1>2. phase = "chunks" /\ ret = "OK" /\ UNCHANGED <<phase, ret, mdat, co64>>
  BY <1>1, ChunkWritten
<1>3. PICK t \in Pending, k \in Nat, n \in Nat :
         /\ t \in Tracks /\ k = chunkToOut[t] + 1 /\ k \in 1..Len(chunks[t])
         /\ n = BytesIn(chunks[t][k])
         /\ SameButOffset(t, k) /\ OneMore(t, k, n)
         /\ chunkToOut' = [chunkToOut EXCEPT ![t] = k]
         /\ chunks[t][k].place \in Nat
         /\ spoolPos'[t] = chunks[t][k].place + n
         /\ \A u \in Tracks : u # t => spoolPos'[u] = spoolPos[u]
         /\ pos' = pos + n
  BY <1>1, ChunkWritten
<1>4. Places'
  BY <1>1, <1>2, <1>3, SMTT(40), ZenonT(40) DEF Places
<1>5. /\ \A u \in Tracks : ChunkBytes(u)' = ChunkBytes(u)
      /\ mdatSize' = mdatSize /\ Header' = Header
  BY <1>1, <1>3, SizesStay
<1>6. pos \in Nat /\ Len(out) \in Nat /\ Len(out') = Len(out) + 1 /\ out' # << >>
  BY <1>1, <1>3 DEF Places, OneMore
<1>7. EndToEnd'
  <2>1. out'[Len(out) + 1].at = pos /\ out'[Len(out) + 1].bytes = n
    BY <1>3 DEF OneMore
  <2>2. \A i \in 1..Len(out) : /\ out'[i] = out[i] /\ out[i].at \in Nat
                               /\ out[i].at <= pos
    BY <1>1, <1>2, <1>3 DEF OneMore, Written, EndToEnd
  <2>3. ASSUME NEW i \in 1..(Len(out') - 1)
        PROVE  out'[i + 1].at = out'[i].at + out'[i].bytes
    <3>1. CASE i = Len(out)
      <4>1. out # << >>
        BY <1>6, <3>1
      <4>2. pos = out[i].at + out[i].bytes
        BY <4>1, <1>1, <1>2, <3>1 DEF EndToEnd
      <4> QED BY <4>2, <1>6, <2>1, <2>2, <3>1
    <3>2. CASE i # Len(out)
      <4>1. i \in 1..(Len(out) - 1) /\ i \in 1..Len(out) /\ i + 1 \in 1..Len(out)
        BY <1>6, <3>2
      <4> QED BY <4>1, <2>2, <1>1 DEF EndToEnd
    <3> QED BY <3>1, <3>2
  <2>4. pos' = out'[Len(out')].at + out'[Len(out')].bytes
    BY <1>3, <1>6, <2>1
  <2>5. \A i \in 1..Len(out') : out'[i].at <= pos'
    BY <1>3, <1>6, <2>1, <2>2, SMTT(40), ZenonT(40)
  <2> QED BY <1>2, <2>3, <2>4, <2>5 DEF EndToEnd
<1>8. Payload' = Payload + n
  <2> DEFINE v == [u \in Tracks |-> BytesOut(u)]
             w == [u \in Tracks |-> BytesOut(u)']
  <2>1. \A u \in Tracks : BytesOut(u) \in Nat
    BY <1>1, PayloadSums
  <2>2. \A u \in Tracks : u # t => BytesOut(u)' = BytesOut(u)
    BY <1>1, <1>3, <1>5 DEF BytesOut, Kinds
  <2>3. BytesOut(t)' = BytesOut(t) + n
    <3>1. chunkToOut'[t] = k /\ chunkToOut[t] = k - 1 /\ k \in Int /\ 1 <= k
      BY <1>1, <1>3 DEF Kinds
    <3>2. ChunkBytes(t)[k] = n
      BY <1>3 DEF ChunkBytes
    <3>3. SumOver(ChunkBytes(t), 1, k) = SumOver(ChunkBytes(t), 1, k - 1) + ChunkBytes(t)[k]
      BY <3>1, SumNext
    <3>4. BytesOut(t)' = SumOver(ChunkBytes(t), 1, k) /\ BytesOut(t) = SumOver(ChunkBytes(t), 1, k - 1)
      BY <1>3, <1>5, <3>1 DEF BytesOut
    <3> QED BY <3>2, <3>3, <3>4
  <2>4. NTracks \in Int /\ Tracks = 1..NTracks
    BY MdatWriterAssumption DEF Tracks
  <2>5. Payload = SumOver(v, 1, NTracks) /\ Payload' = SumOver(w, 1, NTracks)
    BY DEF Payload
  <2>6. /\ \A u \in Tracks : u # t => w[u] = v[u]
        /\ w[t] = v[t] + n
    BY <1>3, <2>2, <2>3
  <2>9. \A u \in Tracks : v[u] \in Nat /\ w[u] \in Nat
    <3>1. \A u \in Tracks : v[u] \in Nat
      BY <2>1
    <3> HIDE DEF v, w
    <3>2. w[t] \in Nat
      BY <1>3, <2>6, <3>1
    <3> QED BY <2>6, <3>1, <3>2
  <2> HIDE DEF v, w
  <2>7. n \in Int /\ 1 \in Int /\ t \in 1..NTracks
    BY <1>3, <2>4
  <2>8. SumOver(w, 1, NTracks) = SumOver(v, 1, NTracks) + n
    <3>1. /\ \A u \in 1..NTracks : v[u] \in Nat /\ w[u] \in Nat
          /\ \A u \in 1..NTracks : u # t => w[u] = v[u]
          /\ w[t] = v[t] + n
      BY <2>4, <2>6, <2>9
    <3>2. NTracks \in Int
      BY <2>4
    <3> QED BY ONLY <2>7, <3>1, <3>2, SumOneChanged
  <2> QED BY <2>5, <2>8
<1>9. Filling'
  <2>1. /\ mdat.size = mdatSize + Header
        /\ pos = mdat.start + Header + Payload
    BY <1>1, <1>2 DEF Filling, Opened
  <2>2. mdat.start \in Nat /\ Header \in Nat /\ Payload \in Nat
    BY <1>1, PayloadSums DEF Places, Header
  <2>3. pos' = mdat.start + Header + Payload'
    BY <1>3, <1>8, <2>1, <2>2
  <2> QED BY <1>2, <1>5, <2>1, <2>3 DEF Filling
<1> QED BY <1>1, <1>4, <1>7, <1>9 DEF FillInv

LEMMA FailChunkFills ==
    ASSUME FillInv, FailChunk
    PROVE  FillInv'
<1>1. /\ MdatInv /\ MdatInv' /\ Kinds /\ Places /\ EndToEnd /\ Filling /\ ret = "OK"
      /\ ret' \in {"READ_ERR", "WRITE_ERR"}
      /\ phase = "chunks" /\ phase' = "stco" /\ UNCHANGED <<mdat, co64>>
  BY FailChunkKeeps DEF FillInv, MdatInv, FailChunk
<1>2. PICK t \in Tracks, d \in OutputTimes : ChooseTrack(t, d) /\ WriteChunkFails(t)
  BY DEF FailChunk
<1>3. t \in Pending
  BY <1>1, <1>2, Chosen
<1> DEFINE k     == chunkToOut[t] + 1
           sizes == chunks[t][k].sizes
<1>4. PICK fault \in Faults : \E b \in Broken(fault, sizes) : Copy(t, b.read, b.written)
  BY <1>2 DEF WriteChunkFails
<1>5. PICK b \in Broken(fault, sizes) : Copy(t, b.read, b.written)
  BY <1>4
<1>6. k = chunkToOut[t] + 1 /\ k \in 1..Len(chunks[t]) /\ sizes \in Seq(Nat)
  <2>1. k \in 1..Len(chunks[t]) /\ IsSpooled(chunks[t])
    BY <1>1, <1>3, NextChunkFacts DEF Kinds
  <2> QED BY <2>1, SpooledBytes
<1> HIDE DEF k, sizes
<1>7. b.read \in Nat /\ b.written \in Nat
  <2> DEFINE upTo(i) == SumOver(sizes, 1, i)
  <2>1. Len(sizes) \in Nat /\ \A j \in 1..Len(sizes) : sizes[j] \in Nat
    BY <1>6, ElementOfSeq
  <2> DEFINE At(i) == {[read |-> IF fault = "read" THEN w ELSE upTo(i), written |-> w] :
                          w \in upTo(i - 1) .. (upTo(i) - 1)}
  <2>5. Broken(fault, sizes) = UNION {At(i) : i \in 1..Len(sizes)}
    BY DEF Broken
  <2> HIDE DEF At
  <2>6. PICK i \in 1..Len(sizes) : b \in At(i)
    BY <2>5
  <2>2. PICK w \in upTo(i - 1) .. (upTo(i) - 1) :
           b = [read |-> IF fault = "read" THEN w ELSE upTo(i), written |-> w]
    BY <2>6 DEF At
  <2>3. upTo(i - 1) \in Nat /\ upTo(i) \in Nat
    <3>1. /\ i - 1 \in Int /\ i \in Int
          /\ \A j \in 1..(i - 1) : sizes[j] \in Nat
          /\ \A j \in 1..i : sizes[j] \in Nat
      BY <2>1
    <3> QED BY <3>1, SumNat
  <2> HIDE DEF upTo
  <2>4. w \in Nat
    BY <2>3
  <2> QED BY <2>2, <2>3, <2>4
<1>8. /\ SameButOffset(t, k) /\ OneMore(t, k, b.written)
      /\ spoolPos'[t] = chunks[t][k].place + b.read
      /\ \A u \in Tracks : u # t => spoolPos'[u] = spoolPos[u]
  <2>1. b.written \in Int
    BY <1>7
  <2> QED BY <1>1, <1>3, <1>5, <1>6, <2>1, Copied
<1>9. /\ pos' = pos + b.written /\ chunks[t][k].place \in Nat
  BY <1>1, <1>3, <1>5, <1>6, NextChunkFacts DEF Copy
<1>10. Places'
  BY <1>1, <1>7, <1>8, <1>9 DEF Places
<1>11. EndToEnd'
  <2>1. Len(out) \in Nat /\ Len(out') = Len(out) + 1 /\ out'[Len(out) + 1].at = pos
    BY <1>8 DEF OneMore
  <2>2. \A i \in 1..Len(out) : out'[i] = out[i]
    BY <1>8 DEF OneMore
  <2>3. ASSUME NEW i \in 1..(Len(out') - 1)
        PROVE  out'[i + 1].at = out'[i].at + out'[i].bytes
    <3>1. CASE i = Len(out)
      <4>1. out # << >>
        BY <2>1, <3>1
      <4>2. pos = out[i].at + out[i].bytes
        BY <4>1, <1>1, <3>1 DEF EndToEnd
      <4> QED BY <4>2, <2>1, <2>2, <3>1
    <3>2. CASE i # Len(out)
      <4>1. i \in 1..(Len(out) - 1) /\ i \in 1..Len(out) /\ i + 1 \in 1..Len(out)
        BY <2>1, <3>2
      <4> QED BY <4>1, <2>2, <1>1 DEF EndToEnd
    <3> QED BY <3>1, <3>2
  <2> QED BY <1>1, <2>3 DEF EndToEnd
<1>12. Filling'
  <2>1. mdatSize' = mdatSize /\ Header' = Header
    BY <1>1, <1>6, <1>8, SizesStay
  <2> QED BY <1>1, <2>1 DEF Filling, Opened
<1> QED BY <1>1, <1>10, <1>11, <1>12 DEF FillInv

LEMMA ElsewhereFills ==
    ASSUME FillInv, MdatInv', [Next]_vars, ~NextChunk, ~FailChunk
    PROVE  FillInv'
<1>1. MdatInv /\ Kinds /\ Places /\ EndToEnd /\ Filling
  BY DEF FillInv, MdatInv
<1>2. mdatSize \in Nat /\ Header \in Nat
  BY <1>1, PayloadSums DEF Header
<1>3. ASSUME UNCHANGED <<chunks, chunkToOut, out>>
      PROVE  mdatSize' = mdatSize /\ Header' = Header /\ Payload' = Payload
  BY <1>3 DEF mdatSize, ChunkBytes, Header, Payload, BytesOut
<1>4. CASE WriteMoov
  <2>1. /\ phase = "moov" /\ phase' = "check" /\ ret' = ret /\ pos' \in Nat
        /\ co64' \in BOOLEAN /\ UNCHANGED <<spoolPos, mdat, out>>
    BY <1>1, <1>4, MdatWriterAssumption DEF WriteMoov, Places
  <2>2. out = << >>
    BY <1>1, <2>1 DEF EndToEnd
  <2>3. Len(out') = 0 /\ out' = << >>
    BY <2>1, <2>2
  <2> QED BY <1>1, <2>1, <2>3 DEF FillInv, Places, EndToEnd, Filling, Opened
<1>5. CASE CheckSelection
  <2>1. /\ phase = "check" /\ UNCHANGED <<spoolPos, pos, mdat, co64, out>>
        /\ (ret' = "PARAM_ERR" /\ phase' = "done") \/ (ret' = ret /\ phase' = "header")
    BY <1>5 DEF CheckSelection
  <2>2. out = << >>
    BY <1>1, <2>1 DEF EndToEnd
  <2>3. Len(out') = 0 /\ out' = << >>
    BY <2>1, <2>2
  <2> QED BY <1>1, <2>1, <2>3 DEF FillInv, Places, EndToEnd, Filling, Opened
<1>6. CASE WriteMdatHeader
  <2>1. /\ phase = "header" /\ phase' = "chunks" /\ ret' = ret
        /\ mdat' = [start |-> pos, size |-> mdatSize + Header] /\ pos' = pos + Header
        /\ UNCHANGED <<chunks, chunkToOut, spoolPos, co64, out>>
    BY <1>6 DEF WriteMdatHeader, Header
  <2>2. ret = "OK" /\ out = << >> /\ pos \in Nat
    BY <1>1, <2>1 DEF MdatInv, Stages, EndToEnd, Places
  <2>3. Len(out') = 0 /\ out' = << >>
    BY <2>1, <2>2
  <2>4. Payload = 0
    <3> DEFINE v == [t \in Tracks |-> BytesOut(t)]
    <3>1. \A t \in Tracks : chunkToOut[t] = 0
      <4> SUFFICES ASSUME NEW t \in Tracks, chunkToOut[t] # 0 PROVE FALSE
        OBVIOUS
      <4>1. chunkToOut[t] \in Nat /\ Accounts /\ Len(out) = 0
        BY <1>1, <2>2 DEF MdatInv, Kinds
      <4>2. 1 \in 1..chunkToOut[t]
        BY <4>1
      <4> QED BY <4>1, <4>2 DEF Accounts
    <3>2. \A t \in Tracks : v[t] = 0
      BY <3>1, SumEmpty DEF BytesOut
    <3>3. Payload = SumOver(v, 1, NTracks) /\ NTracks \in Int /\ Tracks = 1..NTracks
      BY MdatWriterAssumption DEF Payload, Tracks
    <3> HIDE DEF v
    <3> QED BY <3>2, <3>3, SumZero
  <2>5. Places'
    BY <1>1, <1>2, <2>1, <2>2 DEF Places
  <2>6. EndToEnd'
    BY <2>1, <2>3 DEF EndToEnd
  <2>7. Filling'
    <3>1. Header' = Header /\ mdatSize' = mdatSize /\ Payload' = 0
      BY <1>3, <2>1, <2>4
    <3> QED BY <1>2, <2>1, <2>2, <3>1 DEF Filling
  <2> QED BY <2>5, <2>6, <2>7 DEF FillInv
<1>7. CASE AllChunksWritten \/ ModifyStco
  <2>1. /\ phase \in {"chunks", "stco"} /\ phase' \in {"stco", "done"}
        /\ UNCHANGED <<chunks, chunkToOut, spoolPos, pos, mdat, co64, ret, out>>
    BY <1>7 DEF AllChunksWritten, ModifyStco
  <2> QED BY <1>1, <1>3, <2>1 DEF FillInv, Places, EndToEnd, Filling, Opened
<1>8. CASE UNCHANGED vars
  <2>1. UNCHANGED <<chunks, chunkToOut, spoolPos, pos, mdat, co64, phase, ret, out>>
    BY <1>8 DEF vars
  <2> QED BY <1>1, <1>3, <2>1 DEF FillInv, Places, EndToEnd, Filling, Opened
<1> QED BY <1>4, <1>5, <1>6, <1>7, <1>8 DEF Next

LEMMA FillInvariance == Spec => []FillInv
<1>1. Init => FillInv
  <2> SUFFICES ASSUME Init PROVE FillInv
    OBVIOUS
  <2>1. Len(out) = 0
    BY DEF Init
  <2> QED BY <2>1, InitMdatInv, MdatWriterAssumption
          DEF Init, FillInv, Places, EndToEnd, Filling, Opened
<1>2. FillInv /\ [Next]_vars => FillInv'
  BY NextChunkFills, FailChunkFills, MdatStep, ElsewhereFills DEF FillInv
<1> QED BY <1>1, <1>2, PTL DEF Spec

(* The payload of 'mdat' is the chunks end to end, and its header declares  *)
(* its size, whatever 'udta' does to the estimate.                          *)
THEOREM PayloadIsWhole == Spec => [](TypeOK /\ PayloadEndToEnd)
<1>1. FillInv => TypeOK
  <2> SUFFICES ASSUME FillInv PROVE TypeOK
    OBVIOUS
  <2>1. MdatInv /\ Kinds /\ Stages /\ Places
    BY DEF FillInv, MdatInv
  <2>2. ASSUME NEW t \in Tracks
        PROVE  /\ chunkToOut[t] \in 0..Len(chunks[t])
               /\ \A k \in 1..Len(chunks[t]) : chunks[t][k].offset \in Nat
    <3>1. chunks[t] \in Seq(Chunk) /\ chunkToOut[t] \in Nat /\ chunkToOut[t] <= Len(chunks[t])
      BY <2>1 DEF Kinds
    <3>2. Len(chunks[t]) \in Nat /\ \A k \in 1..Len(chunks[t]) : chunks[t][k] \in Chunk
      BY <3>1, ElementOfSeq
    <3> QED BY <3>1, <3>2 DEF Chunk
  <2>3. dtsOut \in Nat
    BY <2>1 DEF Kinds
  <2> QED BY <2>1, <2>2, <2>3 DEF TypeOK, Stages, Places
<1>2. FillInv => PayloadEndToEnd
  <2> SUFFICES ASSUME FillInv, phase = "done", ret = "OK" PROVE pos = mdat.start + mdat.size
    BY DEF PayloadEndToEnd, FillInv, EndToEnd
  <2>1. Kinds /\ Pending = {} /\ mdat.start \in Nat
    BY DEF FillInv, MdatInv, Stages, Places
  <2>2. Payload = mdatSize /\ mdatSize \in Nat /\ Header \in Nat
    BY <2>1, PayloadSums DEF Header
  <2>3. mdat.size = mdatSize + Header /\ pos = mdat.start + Header + Payload
    BY DEF FillInv, Filling, Opened
  <2> QED BY <2>1, <2>2, <2>3
<1> QED BY <1>1, <1>2, FillInvariance, PTL

LEMMA FitStep ==
    ASSUME FillInv, FillInv', FitInv, [Next]_vars
    PROVE  FitInv'
<1>1. /\ MdatInv /\ Kinds /\ pos \in Nat /\ co64 \in BOOLEAN
      /\ udta = 0 /\ moovSizeEst \in Nat
  BY DEF FillInv, MdatInv, Places, FitInv
<1>2. mdatSize \in Nat /\ MaxU32 \in Nat
  BY <1>1, PayloadSums, MdatWriterAssumption
<1>3. ASSUME UNCHANGED chunks PROVE mdatSize' = mdatSize
  BY <1>1, <1>3, SizesStay
<1>4. CASE WriteMoov
  <2>1. /\ phase = "moov" /\ phase' = "check" /\ UNCHANGED <<chunks, udta>>
        /\ co64' = (co64 \/ moovSizeEst + 16 + mdatSize > MaxU32)
        /\ moovSizeEst' = moovSizeEst + udta
    BY <1>4 DEF WriteMoov
  <2>2. moovSizeEst' = moovSizeEst
    BY <1>1, <2>1
  <2>3. ~co64' => moovSizeEst + 16 + mdatSize <= MaxU32
    <3> DEFINE Above == moovSizeEst + 16 + mdatSize > MaxU32
    <3>1. ~co64' => ~Above
      BY <2>1
    <3>2. ~Above => moovSizeEst + 16 + mdatSize <= MaxU32
      BY <1>1, <1>2
    <3> QED BY <3>1, <3>2
  <2> QED BY <1>1, <1>3, <2>1, <2>2, <2>3 DEF FitInv, Opened
<1>5. CASE CheckSelection
  <2>1. /\ phase = "check" /\ UNCHANGED <<chunks, udta, moovSizeEst, pos, co64>>
        /\ \/ SelectionRefused /\ phase' = "done" /\ ret' = "PARAM_ERR"
           \/ ~SelectionRefused /\ phase' = "header"
    BY <1>5 DEF CheckSelection
  <2>2. ~co64 => moovSizeEst + 16 + mdatSize <= MaxU32
    BY <2>1 DEF FitInv
  <2>3. ~SelectionRefused /\ ~co64 => pos + 16 + mdatSize <= MaxU32
    <3>1. ~SelectionRefused /\ ~co64 => ~(moovSizeEst < pos) \/ ~(pos + 16 + mdatSize > MaxU32)
      BY DEF SelectionRefused
    <3> QED BY <1>1, <1>2, <2>2, <3>1
  <2> QED BY <1>1, <1>3, <2>1, <2>2, <2>3 DEF FitInv, Opened
<1>6. CASE WriteMdatHeader
  <2>1. /\ phase = "header" /\ phase' = "chunks" /\ UNCHANGED <<chunks, udta, moovSizeEst, co64>>
        /\ mdat'.start = pos
    BY <1>6 DEF WriteMdatHeader
  <2> QED BY <1>1, <1>3, <2>1 DEF FitInv, Opened
<1>7. CASE NextChunk \/ FailChunk \/ AllChunksWritten
  <2>1. /\ phase = "chunks" /\ phase' \in {"chunks", "stco"}
        /\ UNCHANGED <<udta, moovSizeEst, co64, mdat>>
    BY <1>7 DEF NextChunk, FailChunk, AllChunksWritten
  <2>2. ret # "PARAM_ERR"
    BY <1>1, <2>1 DEF MdatInv, Stages
  <2>3. mdatSize' = mdatSize
    <3>1. CASE NextChunk
      BY <1>1, <3>1, ChunkWritten, SizesStay
    <3>2. CASE FailChunk
      BY <1>1, <3>2, FailChunkKeeps, SizesStay
    <3>3. CASE AllChunksWritten
      BY <1>3, <3>3 DEF AllChunksWritten
    <3> QED BY <1>7, <3>1, <3>2, <3>3
  <2> QED BY <1>1, <2>1, <2>2, <2>3 DEF FitInv, Opened
<1>8. CASE ModifyStco
  <2>1. /\ phase = "stco" /\ phase' = "done" /\ UNCHANGED <<chunks, udta, moovSizeEst, co64, mdat, ret>>
        /\ stco' = [t \in Tracks |-> Offsets(t)]
    BY <1>8 DEF ModifyStco
  <2>2. \A t \in Tracks : Offsets(t)' = Offsets(t)
    BY <2>1 DEF Offsets
  <2> QED BY <1>1, <1>3, <2>1, <2>2 DEF FitInv, Opened
<1>9. CASE UNCHANGED vars
  <2>1. UNCHANGED <<chunks, udta, moovSizeEst, pos, co64, mdat, phase, ret, stco>>
    BY <1>9 DEF vars
  <2>2. \A t \in Tracks : Offsets(t)' = Offsets(t)
    BY <2>1 DEF Offsets
  <2> QED BY <1>3, <2>1, <2>2 DEF FitInv, Opened
<1> QED BY <1>4, <1>5, <1>6, <1>7, <1>8, <1>9 DEF Next

(* A file without 'udta' has no offset too wide for its 'stco', and then    *)
(* 'mdat' is as it should be in every respect.                              *)
THEOREM MdatFilled ==
    ASSUME UdtaSizes = {0}
    PROVE  Spec => []MdatIsFilled
<1>1. Init => FitInv
  <2> SUFFICES ASSUME Init PROVE FitInv
    OBVIOUS
  <2>1. /\ udta = 0 /\ moovSizeEst \in Nat /\ phase = "moov"
    BY MdatWriterAssumption DEF Init
  <2> QED BY <2>1 DEF FitInv, Opened
<1>2. Spec => []FitInv
  BY <1>1, FitStep, FillInvariance, PTL DEF Spec
<1>3. FillInv /\ FitInv => OffsetsFit32
  <2> SUFFICES ASSUME FillInv, FitInv, phase = "done", ret = "OK", ~co64,
                      NEW t \in Tracks, NEW k \in 1..Len(stco[t])
               PROVE  stco[t][k] <= MaxU32
    BY DEF OffsetsFit32
  <2>1. /\ Kinds /\ Accounts /\ Pending = {} /\ mdat.start \in Nat /\ pos \in Nat
        /\ MaxU32 \in Nat
    BY MdatWriterAssumption DEF FillInv, MdatInv, Stages, Places
  <2>2. Payload = mdatSize /\ mdatSize \in Nat /\ Header \in Nat /\ Header <= 16
    BY <2>1, PayloadSums DEF Header
  <2>3. /\ pos = mdat.start + Header + Payload
        /\ mdat.start + 16 + mdatSize <= MaxU32
        /\ stco = [u \in Tracks |-> Offsets(u)]
    BY DEF FillInv, Filling, FitInv, Opened
  <2>4. pos <= MaxU32
    BY <2>1, <2>2, <2>3
  <2>5. /\ chunks[t] \in Seq(Chunk) /\ chunkToOut[t] \in Nat /\ chunkToOut[t] <= Len(chunks[t])
        /\ out \in Seq(Written)
    BY <2>1 DEF Kinds
  <2>6. Len(stco[t]) = Len(chunks[t]) /\ k \in 1..Len(chunks[t]) /\ stco[t][k] = chunks[t][k].offset
    BY <2>3, <2>5 DEF Offsets
  <2>7. k \in 1..chunkToOut[t]
    <3>1. Len(chunks[t]) \in Nat /\ ~(chunkToOut[t] < Len(chunks[t]))
      BY <2>1, <2>5 DEF Pending
    <3> QED BY <2>5, <2>6, <3>1
  <2>8. PICK i \in 1..Len(out) : Entry(i, t, k)
    BY <2>1, <2>7 DEF Accounts
  <2>9. out[i].at = stco[t][k] /\ out[i].at <= pos /\ out[i].at \in Nat
    <3>1. out[i].at = chunks[t][k].offset /\ out[i].at <= pos
      BY <2>1, <2>8 DEF Accounts, Entry, FillInv, EndToEnd
    <3>2. out[i] \in Written
      BY <2>5, ElementOfSeq
    <3> QED BY <2>6, <3>1, <3>2 DEF Written
  <2> QED BY <2>1, <2>4, <2>9
<1> QED BY <1>2, <1>3, FillInvariance, PayloadIsWhole, PTL DEF MdatIsFilled
-----------------------------------------------------------------------------
(* The refinement: what is left of a track, seen by ChunkMerge.             *)
LEMMA LeftFacts ==
    ASSUME Kinds, NEW t \in Tracks
    PROVE  /\ Left(t) \in Seq(Nat)
           /\ Len(Left(t)) = Len(chunks[t]) - chunkToOut[t]
           /\ \A j \in 1..Len(Left(t)) : Left(t)[j] = chunks[t][chunkToOut[t] + j].dts
           /\ Left(t) # << >> <=> t \in Pending
           /\ t \in Pending => Head(Left(t)) = NextDts(t)
<1> DEFINE n == Len(chunks[t]) - chunkToOut[t]
<1>1. /\ chunks[t] \in Seq(Chunk) /\ chunkToOut[t] \in Nat
      /\ Len(chunks[t]) \in Nat /\ chunkToOut[t] <= Len(chunks[t]) /\ n \in Nat
  <2>1. chunks[t] \in Seq(Chunk) /\ chunkToOut[t] \in Nat /\ chunkToOut[t] <= Len(chunks[t])
    BY DEF Kinds
  <2>2. Len(chunks[t]) \in Nat
    BY <2>1
  <2> QED BY <2>1, <2>2
<1>2. \A j \in 1..n : chunks[t][chunkToOut[t] + j].dts \in Nat
  <2> SUFFICES ASSUME NEW j \in 1..n PROVE chunks[t][chunkToOut[t] + j].dts \in Nat
    OBVIOUS
  <2>1. chunkToOut[t] + j \in 1..Len(chunks[t])
    BY <1>1
  <2>2. chunks[t][chunkToOut[t] + j] \in Chunk
    BY <1>1, <2>1, ElementOfSeq
  <2> QED BY <2>2 DEF Chunk
<1>3. Left(t) = [j \in 1..n |-> chunks[t][chunkToOut[t] + j].dts]
  BY DEF Left
<1> HIDE DEF n
<1>4. /\ Left(t) \in Seq(Nat) /\ Len(Left(t)) = n
      /\ \A j \in 1..n : Left(t)[j] = chunks[t][chunkToOut[t] + j].dts
  BY <1>1, <1>2, <1>3
<1>5. t \in Pending <=> n # 0
  BY <1>1 DEF Pending, n
<1>6. Left(t) # << >> <=> n # 0
  BY <1>1, <1>4, EmptySeq
<1>7. n # 0 => Head(Left(t)) = NextDts(t)
  <2>1. n # 0 => 1 \in 1..n
    BY <1>1
  <2>2. n # 0 => Head(Left(t)) = Left(t)[1]
    BY <1>4, <1>6, HeadTailProperties
  <2> QED BY <1>4, <2>1, <2>2 DEF NextDts
<1> QED BY <1>4, <1>5, <1>6, <1>7 DEF n

(* As long as the times and the counts of a track stay, so does what is     *)
(* left of it.                                                              *)
LEMMA LeftSame ==
    ASSUME Kinds, Kinds', NEW t \in Tracks,
           chunkToOut'[t] = chunkToOut[t], Len(chunks'[t]) = Len(chunks[t]),
           \A j \in 1..Len(chunks[t]) : chunks'[t][j].dts = chunks[t][j].dts
    PROVE  Left(t)' = Left(t)
<1>1. /\ chunkToOut[t] \in Nat /\ Len(chunks[t]) \in Nat
  <2>1. chunks[t] \in Seq(Chunk) /\ chunkToOut[t] \in Nat
    BY DEF Kinds
  <2> QED BY <2>1
<1>2. \A j \in 1..(Len(chunks[t]) - chunkToOut[t]) : chunkToOut[t] + j \in 1..Len(chunks[t])
  BY <1>1
<1> QED BY <1>2 DEF Left

(* A chunk written whole is a step of the merge.                            *)
LEMMA NextChunkMerges ==
    ASSUME MdatInv, NextChunk
    PROVE  Abs!MNext
<1>1. /\ phase = "chunks" /\ ret' = ret
  BY DEF NextChunk
<1>2. PICK t \in Tracks, d \in OutputTimes :
         /\ ChooseTrack(t, d) /\ WriteChunk(t)
         /\ chunkToOut' = [chunkToOut EXCEPT ![t] = @ + 1]
  BY DEF NextChunk
<1>3. /\ t \in Pending /\ d = NextDts(t)
      /\ \A u \in Pending : d <= NextDts(u)
      /\ \A u \in Pending : NextDts(u) = d => t <= u
  BY <1>1, <1>2, Chosen
<1> DEFINE k == chunkToOut[t] + 1
           n == BytesIn(chunks[t][k])
<1>4. Kinds /\ Kinds' /\ ret = "OK" /\ n \in Int
  BY <1>1, <1>3, NextChunkFacts, NextChunkKeeps DEF MdatInv, Stages
<1>5. SameButOffset(t, k) /\ OneMore(t, k, n)
  <2>1. Copy(t, n, n)
    BY <1>2 DEF WriteChunk
  <2>2. k = chunkToOut[t] + 1
    OBVIOUS
  <2> HIDE DEF k, n
  <2> QED BY <1>1, <1>3, <1>4, <2>1, <2>2, Copied
<1>6. /\ k = chunkToOut[t] + 1 /\ chunkToOut[t] \in Nat /\ chunkToOut'[t] = k
      /\ \A u \in Tracks : u # t => chunkToOut'[u] = chunkToOut[u]
  BY <1>2, <1>4 DEF Kinds
<1> HIDE DEF k, n
<1>7. \A u \in Tracks : u # t => Left(u)' = Left(u)
  <2> SUFFICES ASSUME NEW u \in Tracks, u # t PROVE Left(u)' = Left(u)
    OBVIOUS
  <2>1. /\ Len(chunks'[u]) = Len(chunks[u])
        /\ \A j \in 1..Len(chunks[u]) : chunks'[u][j].dts = chunks[u][j].dts
    BY <1>5 DEF SameButOffset
  <2>2. chunkToOut'[u] = chunkToOut[u]
    BY <1>6
  <2> QED BY <1>4, <2>1, <2>2, LeftSame
<1>8. Left(t)' = Tail(Left(t))
  <2>1. /\ Left(t) \in Seq(Nat) /\ Left(t) # << >>
        /\ Len(Left(t)) = Len(chunks[t]) - chunkToOut[t]
        /\ \A j \in 1..Len(Left(t)) : Left(t)[j] = chunks[t][chunkToOut[t] + j].dts
    BY <1>3, <1>4, LeftFacts
  <2>2. /\ Len(chunks'[t]) = Len(chunks[t]) /\ Len(chunks[t]) \in Nat
        /\ \A j \in 1..Len(chunks[t]) : chunks'[t][j].dts = chunks[t][j].dts
    <3>1. chunks[t] \in Seq(Chunk)
      BY <1>4 DEF Kinds
    <3> QED BY <1>5, <3>1 DEF SameButOffset
  <2> DEFINE m == Len(chunks[t]) - k
  <2>3. m \in Nat /\ Len(Left(t)) = m + 1
    <3>1. chunkToOut[t] < Len(chunks[t])
      BY <1>3 DEF Pending
    <3>2. /\ Len(chunks[t]) \in Nat /\ chunkToOut[t] \in Nat /\ k = chunkToOut[t] + 1
          /\ Len(Left(t)) = Len(chunks[t]) - chunkToOut[t]
      BY <1>6, <2>1, <2>2
    <3> QED BY <3>1, <3>2
  <2>4. Left(t)' = [j \in 1..m |-> chunks'[t][k + j].dts]
    BY <1>6, <2>2 DEF Left
  <2>5. ASSUME NEW j \in 1..m
        PROVE  chunks'[t][k + j].dts = Left(t)[j + 1] /\ Left(t)[j + 1] \in Nat
    <3>1. /\ k + j = chunkToOut[t] + (j + 1)
          /\ chunkToOut[t] + (j + 1) \in 1..Len(chunks[t]) /\ j + 1 \in 1..Len(Left(t))
      <4>1. /\ chunkToOut[t] \in Nat /\ k = chunkToOut[t] + 1
            /\ Len(chunks[t]) \in Nat /\ Len(Left(t)) = m + 1
        BY <1>6, <2>2, <2>3
      <4>2. j \in Nat /\ 1 <= j /\ j <= Len(chunks[t]) - k
        BY <4>1
      <4> HIDE DEF m
      <4>3. k + j = chunkToOut[t] + (j + 1)
        BY <4>1, <4>2
      <4>4. k + j \in 1..Len(chunks[t])
        BY <4>1, <4>2
      <4>5. j + 1 \in 1..(m + 1)
        BY <2>3
      <4> QED BY <4>1, <4>3, <4>4, <4>5
    <3>2. Left(t)[j + 1] \in Nat
      BY <2>1, <3>1, ElementOfSeq
    <3> QED BY <3>1, <3>2, <2>1, <2>2
  <2> HIDE DEF m
  <2>6. /\ Left(t)' \in Seq(Nat) /\ Len(Left(t)') = m
        /\ \A j \in 1..m : Left(t)'[j] = Left(t)[j + 1]
    BY SMTT(30), <2>3, <2>4, <2>5
  <2>7. /\ Tail(Left(t)) \in Seq(Nat) /\ Len(Tail(Left(t))) = m
        /\ \A j \in 1..m : Tail(Left(t))[j] = Left(t)[j + 1]
    BY <2>1, <2>3, HeadTailProperties
  <2> QED BY <2>6, <2>7, SeqEqual
<1>9. Lefts' = [Lefts EXCEPT ![t] = Tail(@)]
  BY <1>7, <1>8 DEF Lefts
<1>10. Merged' = Append(Merged, t)
  <2>1. Whole = Len(out) /\ Whole' = Len(out) + 1
    BY <1>1, <1>4, <1>5 DEF Whole, OneMore
  <2>2. /\ Len(out) \in Nat /\ out'[Len(out) + 1].track = t
        /\ \A i \in 1..Len(out) : out'[i] = out[i] /\ out[i].track \in Tracks
    <3>1. \A o \in Written : o.track \in Tracks
      BY DEF Written
    <3> QED BY <1>5, <3>1 DEF OneMore
  <2> DEFINE m == Len(out)
  <2> HIDE DEF m
  <2>3. m \in Nat /\ Merged = [i \in 1..m |-> out[i].track]
        /\ Merged' = [i \in 1..(m + 1) |-> out'[i].track]
    BY <2>1, <2>2 DEF Merged, m
  <2>4. Merged \in Seq(Tracks) /\ Len(Merged) = m
    BY <2>2, <2>3 DEF m
  <2>5. /\ Append(Merged, t) \in Seq(Tracks) /\ Len(Append(Merged, t)) = m + 1
        /\ \A i \in 1..m : Append(Merged, t)[i] = Merged[i]
        /\ Append(Merged, t)[m + 1] = t
    BY <2>4, AppendProperties
  <2>6. \A i \in 1..(m + 1) : out'[i].track = IF i = m + 1 THEN t ELSE Merged[i]
    BY <2>2, <2>3 DEF m
  <2>7. /\ Merged' \in Seq(Tracks) /\ Len(Merged') = m + 1
        /\ \A i \in 1..(m + 1) : Merged'[i] = IF i = m + 1 THEN t ELSE Merged[i]
    <3>1. \A i \in 1..(m + 1) : out'[i].track \in Tracks
      <4>1. \A i \in 1..m : Merged[i] \in Tracks
        BY <2>4, ElementOfSeq
      <4> QED BY SMTT(30), <2>3, <2>6, <4>1
    <3>2. Merged' \in Seq(Tracks) /\ Len(Merged') = m + 1
      BY <2>3, <3>1
    <3> QED BY <2>3, <2>6, <3>2
  <2> QED BY <2>5, <2>7, SeqEqual
<1>11. Abs!NextInOrder(t)
  <2>1. \A u \in Tracks : /\ Lefts[u] # << >> <=> u \in Pending
                          /\ u \in Pending => Head(Lefts[u]) = NextDts(u)
    <3> SUFFICES ASSUME NEW u \in Tracks
                 PROVE  /\ Lefts[u] # << >> <=> u \in Pending
                        /\ u \in Pending => Head(Lefts[u]) = NextDts(u)
      OBVIOUS
    <3>1. Lefts[u] = Left(u)
      BY DEF Lefts
    <3> QED BY <1>4, <3>1, LeftFacts
  <2>2. Pending \subseteq Tracks /\ Abs!Unfinished = Pending
    <3>1. Pending \subseteq Tracks
      BY DEF Pending
    <3>2. Abs!Unfinished = {u \in Tracks : Lefts[u] # << >>}
      BY DEF Abs!Unfinished
    <3> QED BY <2>1, <3>1, <3>2
  <2>3. ASSUME NEW u \in Pending \ {t}
        PROVE  NextDts(t) < NextDts(u) \/ (NextDts(t) = NextDts(u) /\ t < u)
    <3>1. NextDts(t) \in Nat /\ NextDts(u) \in Nat /\ t \in Nat /\ u \in Nat
      BY <1>3, <1>4, NextChunkFacts, MdatWriterAssumption DEF Tracks
    <3>2. NextDts(t) <= NextDts(u) /\ (NextDts(u) = NextDts(t) => t <= u)
      BY <1>3
    <3> QED BY <3>1, <3>2
  <2>4. \A u \in Pending : Head(Lefts[u]) = NextDts(u)
    BY <2>1, <2>2
  <2> QED BY <1>3, <2>2, <2>3, <2>4 DEF Abs!NextInOrder
<1> QED BY <1>9, <1>10, <1>11 DEF Abs!MNext

(* Every other step is none of the merge, that of a failed chunk included.  *)
LEMMA OthersDoNotMerge ==
    ASSUME MdatInv, [Next]_vars, ~NextChunk
    PROVE  Lefts' = Lefts /\ Merged' = Merged
<1>1. CASE FailChunk
  <2>1. PICK t \in Tracks, written \in Int :
           SameButOffset(t, chunkToOut[t] + 1) /\ OneMore(t, chunkToOut[t] + 1, written)
    BY <1>1, FailChunkKeeps
  <2>2. Kinds /\ Kinds' /\ ret = "OK" /\ ret' \in {"READ_ERR", "WRITE_ERR"}
    BY <1>1, FailChunkKeeps DEF MdatInv
  <2>3. chunkToOut' = chunkToOut
    BY <1>1 DEF FailChunk
  <2>4. \A u \in Tracks : Left(u)' = Left(u)
    <3> SUFFICES ASSUME NEW u \in Tracks PROVE Left(u)' = Left(u)
      OBVIOUS
    <3>1. /\ Len(chunks'[u]) = Len(chunks[u])
          /\ \A j \in 1..Len(chunks[u]) : chunks'[u][j].dts = chunks[u][j].dts
      BY <2>1 DEF SameButOffset
    <3> QED BY <2>2, <2>3, <3>1, LeftSame
  <2>5. Whole = Len(out) /\ Whole' = Len(out)
    BY <2>1, <2>2 DEF Whole, OneMore
  <2>6. \A i \in 1..Len(out) : out'[i] = out[i]
    BY <2>1 DEF OneMore
  <2> QED BY <2>4, <2>5, <2>6 DEF Lefts, Merged
<1>2. CASE ~FailChunk
  <2>1. /\ UNCHANGED <<chunks, chunkToOut, out>>
        /\ ret' = ret \/ (ret = "OK" /\ ret' = "PARAM_ERR")
    <3>1. CASE UNCHANGED vars
      BY <3>1 DEF vars
    <3>2. CASE ~UNCHANGED vars
      <4>1. Elsewhere
        BY <1>2, <3>2, OtherSteps DEF Next
      <4> QED BY <4>1 DEF Elsewhere
    <3> QED BY <3>1, <3>2
  <2>2. Whole' = Whole
    BY <2>1 DEF Whole
  <2>3. \A t \in Tracks : Left(t)' = Left(t)
    BY <2>1 DEF Left
  <2> QED BY <2>1, <2>2, <2>3 DEF Lefts, Merged
<1> QED BY <1>1, <1>2

(* write_mdat_box keeps the promise of ChunkMerge: for any number of tracks *)
(* the chunks in the file are the merge of the tracks by decode time, a tie *)
(* going to the track added first, up to the chunk that breaks off.         *)
THEOREM ChunksAreMerged == Spec => ImplementsChunkMerge
<1>1. Init => Abs!MInit
  <2> SUFFICES ASSUME Init PROVE Merged = << >>
    BY DEF Abs!MInit
  <2>1. Whole = 0
    BY DEF Init, Whole
  <2> QED BY <2>1 DEF Merged
<1>2. MdatInv /\ [Next]_vars => [Abs!MNext]_(Abs!mvars)
  BY NextChunkMerges, OthersDoNotMerge DEF Abs!mvars
<1>3. Spec => Abs!MSpec
  BY <1>1, <1>2, MdatInvariance, PTL DEF Spec, Abs!MSpec
<1> QED BY <1>3 DEF ImplementsChunkMerge
=============================================================================
