--------------------------------- MODULE MCMpr ---------------------------------
(* Mpr on small instances. *)
EXTENDS Mpr

\* All three neighbours may reach 4, and 1 may reach its fellow neighbour 3.
MCStar == {<<1, 4>>, <<2, 4>>, <<3, 4>>, <<1, 3>>}
MCMixed == <<{0, 3}, {3, 7}, {3}>>
================================================================================
