------------------------------- MODULE MCTcSet -------------------------------
(* TcSet on a small instance.  Numbers start just below the wrap of a       *)
(* 16-value range.                                                          *)
EXTENDS TcSet

MCFirstNumbers == {<<14, 15>>}
\* Reboots that land below, inside and above the window of the old numbers.
MCRebootJumps == {<<j, k>> : j \in {8, 14}, k \in {8, 15}}

MCNoBoot == boots = [o \in Originators |-> 0]
MCNoPrefix ==
    \A o \in tc_tree \ {myself} : prefix_tree[o] = {o} /\ tc[o].validity_timer
MCAlone == sent[3] = 0 /\ EdgeTree(myself) = {} /\ MCNoPrefix

\* Two originators and our own edges, with a few messages; ...
MCGraph ==
    /\ sent[2] + sent[3] <= IF EdgeTree(myself) = {} THEN 3 ELSE 2
    /\ sent[3] <= 1
    /\ MCNoBoot /\ MCNoPrefix
\* ... the same with prefixes hooked to the entries; ...
MCHooked == sent[2] <= 1 /\ sent[3] = 0 /\ MCNoBoot /\ EdgeTree(myself) = {}
\* ... one originator whose messages overtake each other; ...
MCOrder ==
    /\ MCAlone /\ MCNoBoot
    /\ sent[2] <= 3 \/ (sent[2] = 4 /\ \A m \in InFlight(2) : Whole(m))
\* ... or one that reboots.
MCReboot ==
    /\ MCAlone
    /\ boots[2] = 0 => sent[2] <= 1
    /\ sent[2] <= 5
    /\ \A m \in InFlight(2) : m.nbrs = {1} /\ Whole(m)

MCScenarios == MCGraph \/ MCHooked \/ MCOrder \/ MCReboot
=============================================================================
