------------------------------- MODULE Resync -------------------------------
(***************************************************************************)
(* Looking for headers byte by byte, as the AAC and AC-4 parsers do.  Some *)
(* bytes swallow the one after them: the search goes on two bytes further. *)
(* Where it comes by then depends on where it began.                       *)
(***************************************************************************)
EXTENDS Integers

(* A search from a position comes by the position j: of a run of bytes that *)
(* swallow the next one every second one is swallowed itself.               *)
Reached(swallowing, from, j) ==
    \E r \in from..j :
        /\ (j - r) % 2 = 0 /\ \A k \in r..(j - 1) : k \in swallowing
        /\ r = from \/ r - 1 \notin swallowing
=============================================================================
