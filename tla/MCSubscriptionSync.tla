------------------------- MODULE MCSubscriptionSync -------------------------
(***************************************************************************)
(* A provider with two endpoints and two names.                            *)
(***************************************************************************)
EXTENDS SubscriptionSync, TLC

CONSTANTS f1, f2, a, b

Link(fingerprint, name) == [fingerprint |-> fingerprint, name |-> name]

\* Unreachable, two nodes, one of them moved to the other name.
ShortFeeds == {<<>>, <<Link(f1, a), Link(f2, b)>>, <<Link(f2, a)>>}

\* And the same link twice.
DoubledFeeds == ShortFeeds \union {<<Link(f1, a), Link(f1, a)>>}

\* A name that the provider uses for another node.
Collisions == {Link(f2, b)}

Symmetry == Permutations(Rows)
=============================================================================
