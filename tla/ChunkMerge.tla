----------------------------- MODULE ChunkMerge -----------------------------
(***************************************************************************)
(* What write_mdat_box promises of the order of chunks in the file: the    *)
(* chunks of the tracks merged by decode time, a tie going to the track    *)
(* that was added first.  It does not speak of a current output time.      *)
(***************************************************************************)
EXTENDS Integers, Sequences

CONSTANT Tracks     \* 1..n, in the order they were added

VARIABLES
    left,       \* for each track the decode times of its chunks not written
    merged      \* the track of each chunk written

mvars == <<left, merged>>

Unfinished == {t \in Tracks : left[t] # << >>}

NextInOrder(t) ==
    /\ t \in Unfinished
    /\ \A u \in Unfinished \ {t} :
         \/ Head(left[t]) < Head(left[u])
         \/ Head(left[t]) = Head(left[u]) /\ t < u

MInit == merged = << >>

MNext == \E t \in Tracks :
    /\ NextInOrder(t)
    /\ merged' = Append(merged, t)
    /\ left' = [left EXCEPT ![t] = Tail(@)]

MSpec == MInit /\ [][MNext]_mvars
=============================================================================
