---------------------------- MODULE MCNeighborhood ----------------------------
(* Neighborhood on small instances.                                          *)
EXTENDS Neighborhood

CONSTANTS a, b, m, t

\* Routers with one interface each.
MCOneEach == {<<x, x>> : x \in Addrs}
\* One router with two interfaces, m and b, of which m is the main one.
MCTwoInterfaces == {<<m, m>>, <<b, m>>}
\* ... and a neighbour a that hears both.
MCHeardBy == MCTwoInterfaces \cup {<<a, a>>}
MCAlias == {<<b, m>>}
MCNone == {}
=============================================================================
