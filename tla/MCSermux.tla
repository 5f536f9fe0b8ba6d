------------------------------ MODULE MCSermux ------------------------------
(* Two services; a plain byte, a byte that must be escaped, and the plain  *)
(* byte that one is escaped to.  The services are interchangeable.         *)
EXTENDS Sermux

CONSTANTS s1, s2, p, s1x, s2x, px, escx, forcex

TwoServices == {s1, s2}
ThreeBytes == {p, FORCE, forcex}

Pairs == {<<s1, s1x>>, <<s2, s2x>>, <<p, px>>, <<ESC, escx>>, <<FORCE, forcex>>}

Flip(b) == (CHOOSE q \in {x[2] : x \in {y \in Pairs : y[1] = b}}
                         \cup {x[1] : x \in {y \in Pairs : y[2] = b}} : TRUE)

\* Services are compared with each other only.  (No user sends a service ID,
\* so what it would be escaped to is in no state.)
Swap == Permutations(TwoServices)
=============================================================================
