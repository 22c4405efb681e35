------------------------------ MODULE LineSet ------------------------------
(***************************************************************************)
(* What a cache directory promises: it is a set of lines.  A line brought  *)
(* in costs another line of its set only when the set is full; an          *)
(* invalidation removes what it names and nothing else.                    *)
(***************************************************************************)
EXTENDS Naturals, FiniteSets

CONSTANTS Lines, NSets, NWays

VARIABLE present

Mates(l) == {m \in present : m % NSets = l % NSets}

Init == present = {}

Bring(l) ==
    /\ l \notin present
    /\ \/ present' = present \union {l}
       \/ /\ Cardinality(Mates(l)) = NWays
          /\ \E v \in Mates(l) : present' = (present \ {v}) \union {l}

Remove(l) == present' = present \ {l}

Clear == present' = {}

Next == \/ \E l \in Lines : Bring(l) \/ Remove(l)
        \/ Clear

Spec == Init /\ [][Next]_present
=============================================================================
