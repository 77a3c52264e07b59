----------------------------- MODULE ParamSets ------------------------------
(***************************************************************************)
(* The lists of parameter sets that parser_avc.c and parser_hevc.c collect *)
(* for the sample descriptions: ps_list_is_there_collision, ps_list_update *)
(* and the clone_dsi functions, which are the same in both files.          *)
(* A list is a sequence of entries [id, c]: an identifier and a content.   *)
(***************************************************************************)
EXTENDS Integers, Sequences, FiniteSets

Positions(list, id) == {i \in 1..Len(list) : list[i].id = id}

Earliest(S) == CHOOSE i \in S : \A j \in S : i <= j

(* ps_list_is_there_collision: the first entry of the id differs.           *)
Collides(list, id, c) ==
    /\ Positions(list, id) # {}
    /\ list[Earliest(Positions(list, id))].c # c

(* ps_list_update: the first entry of the id is overwritten, a new id is    *)
(* added; IsNews says whether a new sample description is asked for.        *)
MutUpdated(list, id, c) ==
    IF Positions(list, id) = {} THEN Append(list, [id |-> id, c |-> c]) ELSE list

Updated(list, id, c) ==
    IF Positions(list, id) = {} THEN Append(list, [id |-> id, c |-> c])
    ELSE [list EXCEPT ![Earliest(Positions(list, id))].c = c]

IsNews(list, id, c) == Positions(list, id) = {} \/ Collides(list, id, c)

(* clone_dsi: as many entries as the list has, but the iterator is set to   *)
(* its head before each.                                                    *)
Cloned(list) == [i \in 1..Len(list) |-> list[1]]

(* The description a sample gets: its new-description flags are counted     *)
(* (mp4_muxer_input_sample), and the last record serves those beyond the    *)
(* records there are (build_stsd_entries).                                  *)
FlagsUpTo(out, k) == Cardinality({i \in 1..k : out[i].newSd})

DescriptionIdx(out, k, dsis) ==
    LET n == FlagsUpTo(out, k) IN IF n < Len(dsis) THEN n ELSE Len(dsis)

(* The content a decoder given the list uses for an id is the one expected. *)
Gives(list, id, c) ==
    /\ Positions(list, id) # {}
    /\ \A i \in Positions(list, id) : list[i].c = c

(* Comments in both files, on why the record is cloned: "all other sets     *)
(* would stay the same and just one set has to be updated".                 *)
Identifiers(list) == {list[i].id : i \in 1..Len(list)}
=============================================================================
