--------------------------- MODULE MCTrackIntake ---------------------------
(* Instances of TrackIntake for TLC.  A track with MaxSamples samples is    *)
(* where the model stops.                                                   *)
EXTENDS TrackIntake

MCSizes      == {0, 1, 2}
MCFirstDts   == {0}
MCSteps      == {1, 2, 5}
MCOffsets    == {0, 1}
MCDurations  == {1}
MCBoth       == {TRUE, FALSE}
MCYes        == {TRUE}
=============================================================================
