------------------------------ MODULE EsParser ------------------------------
(***************************************************************************)
(* What a parser promises whoever calls get_sample (mux_es_parsing, which  *)
(* hands each sample to mp4_muxer_input_sample): samples one by one, then  *)
(* the end of the stream or an error, and nothing after it.  The first     *)
(* sample is at time 0 and opens a sample description; each of the others  *)
(* starts when the one before it has ended.  A call may also answer that   *)
(* the configuration is missing: that sample is passed over, its time is a *)
(* gap, and the flag that opens a description may have been its.           *)
(***************************************************************************)
EXTENDS Integers, Sequences

VARIABLES
    out,        \* the samples delivered
    status,     \* "open", or the code get_sample returned in the end
    skipped     \* a sample was passed over

Newest(s) == s[Len(s)]

DtsAfter(s) == IF s = << >> THEN 0 ELSE Newest(s).dts + Newest(s).duration

Init == out = << >> /\ status = "open" /\ ~skipped

Deliver ==
    /\ status = "open" /\ status' = status
    /\ out' # << >> /\ out = SubSeq(out', 1, Len(out') - 1)
    /\ \/ Newest(out').dts = DtsAfter(out)
       \/ skipped /\ Newest(out').dts > DtsAfter(out)
    /\ out = << >> /\ ~skipped => Newest(out').newSd
    /\ UNCHANGED skipped

Skip ==
    /\ status = "open" /\ skipped'
    /\ UNCHANGED <<out, status>>

Stop ==
    /\ status' # status /\ status' # "open"
    /\ UNCHANGED <<out, skipped>>

Next == Deliver \/ Skip \/ Stop

Spec == Init /\ [][Next]_<<out, status, skipped>>
=============================================================================
