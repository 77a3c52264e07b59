---------------------------- MODULE DisplayOrder ----------------------------
(***************************************************************************)
(* What the AU reordering of parser_avc_dpb.c promises, without its arrays:*)
(* access units are accepted one at a time and shown one at a time; at most*)
(* limit of them are kept waiting; the one shown is the next in display    *)
(* order among those waiting; a new sequence starts only when nothing of   *)
(* the old one waits.                                                      *)
(***************************************************************************)
EXTENDS Integers, Sequences, FiniteSets

VARIABLES
    stream,     \* sequence number and POC of each AU accepted, from 0
    limit,      \* AUs that may be kept waiting
    shown       \* the AUs shown, in order

avars == <<stream, limit, shown>>

ShownSet(s)   == {s[p] : p \in 1..Len(s)}
Waiting(st, s) == DOMAIN st \ ShownSet(s)

(* d is before e in display order; decoding order breaks ties.              *)
Before(st, d, e) ==
    \/ st[d].seq < st[e].seq
    \/ st[d].seq = st[e].seq /\ st[d].poc < st[e].poc
    \/ st[d].seq = st[e].seq /\ st[d].poc = st[e].poc /\ d < e

ShowsNext(st, s, t) ==
    \E d \in Waiting(st, s) :
        /\ \A e \in Waiting(st, s) \ {d} : Before(st, d, e)
        /\ t = Append(s, d)

AInit ==
    /\ stream = [i \in 0..-1 |-> 0]
    /\ limit \in Nat
    /\ shown = << >>

Show ==
    /\ ShowsNext(stream, shown, shown')
    /\ UNCHANGED <<stream, limit>>

Accept ==
    /\ LET n == Cardinality(DOMAIN stream)
       IN  /\ DOMAIN stream' = 0..n
           /\ \A d \in 0..(n - 1) : stream'[d] = stream[d]
           /\ \/ limit' = limit
              \/ Waiting(stream, shown) = {}
    /\ \/ shown' = shown
       \/ ShowsNext(stream', shown, shown')
    /\ Cardinality(Waiting(stream', shown')) <= limit'

ANext == Show \/ Accept

ASpec == AInit /\ [][ANext]_avars
=============================================================================
