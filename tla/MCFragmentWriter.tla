-------------------------- MODULE MCFragmentWriter --------------------------
(* Instances of FragmentWriter for TLC.                                     *)
EXTENDS FragmentWriter

(* The decode times and the duration of tracks of 1 to 3 samples.           *)
Times == {[dts |-> <<0>>,       duration |-> 2], [dts |-> <<0, 1>>,    duration |-> 2],
          [dts |-> <<0, 1, 3>>, duration |-> 4], [dts |-> <<0, 2, 3>>, duration |-> 6]}

(* Fragments that end at the sample numbers of stops.                       *)
PlanOf(stops) ==
    [k \in 1..Cardinality(stops) |->
        LET stop == CHOOSE i \in stops : Cardinality({j \in stops : j < i}) = k - 1
        IN  [start |-> Max({0} \cup {j \in stops : j < stop}), stop |-> stop]]

SizesOf(n) == {<<[count |-> n, value |-> 3]>>} \cup
    IF n = 1 THEN {}
    ELSE {<<[count |-> n - 1, value |-> 2], [count |-> 1, value |-> 5]>>}

TracksOf(Syncs(_), Scales) == UNION {
    {[dts |-> f.dts, duration |-> f.duration, sync |-> y, scale |-> c,
      sizes |-> z, plan |-> PlanOf(q \cup {Len(f.dts)}),
      sds |-> IF q = {} \/ ~two THEN <<0>> ELSE <<0, Max(q)>>] :
        y \in Syncs(Len(f.dts)), z \in SizesOf(Len(f.dts)),
        q \in SUBSET (1..(Len(f.dts) - 1)), two \in BOOLEAN, c \in Scales} : f \in Times}

AnySyncs(n) == SUBSET (0..(n - 1))
AllSync(n)  == {0..(n - 1)}

MCMovies == {<<t>> : t \in TracksOf(AnySyncs, {1})}
       \cup {<<t, u>> : t \in TracksOf(AllSync, {1}), u \in TracksOf(AllSync, {3})}
MCConfigs == {c \in [ccff : BOOLEAN, byId : BOOLEAN, forceTfra : BOOLEAN, oneTfra : BOOLEAN] :
                 ~c.ccff => c.byId}
=============================================================================
