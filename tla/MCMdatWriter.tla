---------------------------- MODULE MCMdatWriter ----------------------------
(* Instances of MdatWriter for TLC.  A finished file is where the model     *)
(* stops.                                                                   *)
EXTENDS MdatWriter

(* Lists of one to three chunks in order of decode time.  Between them they *)
(* tie, overtake one another and leave a track waiting; with two or more of *)
(* the one-chunk lists 'mdat' needs a 64-bit size.                          *)
List(dts, sizes) ==
    LET place[k \in 1..Len(dts)] ==
            IF k = 1 THEN 0 ELSE place[k - 1] + SumOver(sizes[k - 1], 1, Len(sizes[k - 1]))
    IN  [k \in 1..Len(dts) |->
            [dts |-> dts[k], sizes |-> sizes[k], place |-> place[k], offset |-> place[k]]]

MCChunkLists ==
    {List(<<1>>, << <<15>> >>)}
    \cup {List(p, << <<1, 2>>, <<1>> >>) : p \in (0..1) \X (1..2)}
    \cup {List(<<0, p[1], p[2]>>, << <<1>>, <<1>>, <<3>> >>) : p \in (0..1) \X (1..2)}

MCShortLists == {List(<<0>>, << <<2>> >>), List(<<0, 1>>, << <<1, 2>>, <<1>> >>)}

MCNoFaults == {}
MCFaults   == {"read", "write"}
MCNo       == {FALSE}
MCBoth     == {TRUE, FALSE}
MCFewEsts  == {7, 9, 29}
MCEsts     == 10..30
MCUdtas    == {0, 20}
MCNoUdta   == {0}
MCEnds     == {8, 16, 22, 28}
=============================================================================
