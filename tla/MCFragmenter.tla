---------------------------- MODULE MCFragmenter ----------------------------
(* Instances of Fragmenter for TLC.                                         *)
EXTENDS Fragmenter

(* All tracks of 1 to n samples whose lengths are among Steps.              *)
TracksOf(n, Steps, Stpp, FirstSync) ==
    UNION {
        LET Dur(f, k) == LET sum[i \in 0..k] == IF i = 0 THEN 0 ELSE sum[i - 1] + f[i]
                         IN  sum[k]
        IN  {[dts      |-> [i \in 1..m |-> Dur(f, i - 1)],
              duration |-> Dur(f, m),
              sync     |-> y,
              sds      |-> IF d = 0 THEN <<0>> ELSE <<0, d>>,
              stpp     |-> p] :
                f \in [1..m -> Steps],
                y \in {z \in SUBSET (0..(m - 1)) : FirstSync => 0 \in z},
                d \in 0..(m - 1), p \in Stpp} : m \in 1..n}

MCTracks      == {t \in TracksOf(5, {1, 2}, {FALSE}, FALSE)
                           \cup TracksOf(3, {1, 6}, {TRUE}, TRUE) : IsTrack(t)}
MCSyncTracks  == {t \in TracksOf(5, {1, 2}, {FALSE}, TRUE) : IsTrack(t)}
MCLongTracks  == {t \in TracksOf(3, {1, 4}, {FALSE}, TRUE) : IsTrack(t)}

MCBoth        == {TRUE, FALSE}
MCYes         == {TRUE}
MCNo          == {FALSE}

MCRanges      == {[max |-> 4, min |-> 2], [max |-> 3, min |-> 1], [max |-> 2, min |-> 2]}
MCSyncRanges  == {[max |-> 4, min |-> 1], [max |-> 3, min |-> 0]}
MCOneRange    == {[max |-> 3, min |-> 0]}
=============================================================================
