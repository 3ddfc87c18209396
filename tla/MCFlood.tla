------------------------------ MODULE MCFlood ------------------------------
(* Two networks.  The first has six routers in four rows: a, then p and q,  *)
(* then r and s, then e.  Both routers of a row hear both of the next, p    *)
(* and q may choose different relays to e, and q and s are joined by an     *)
(* ethernet.  A MID is flooded.  The second network is a line x, y, z, with *)
(* an ethernet as a second link between y and z; z hears x, but x does not  *)
(* hear z.  Two MIDs are flooded, or two TCs, which overtake each other on  *)
(* the links between y and z.                                               *)
EXTENDS Flood

MCOwner ==
    [a1 |-> "a", p1 |-> "p", q1 |-> "q", q2 |-> "q", r1 |-> "r", s1 |-> "s", s2 |-> "s",
     e1 |-> "e", x1 |-> "x", y1 |-> "y", y2 |-> "y", z1 |-> "z", z2 |-> "z"]

MCInterfaces == DOMAIN MCOwner

Both(i, j) == {<<i, j>>, <<j, i>>}

MCHears == Both("a1", "p1") \cup Both("a1", "q1") \cup Both("p1", "r1") \cup Both("p1", "s1")
            \cup Both("q1", "r1") \cup Both("q2", "s2") \cup Both("r1", "e1") \cup Both("s1", "e1")
            \cup Both("x1", "y1") \cup Both("y1", "z1") \cup Both("y2", "z2")
            \cup {<<"x1", "z1">>}

MCMprSets == [a : {{"p", "q"}}, p : {{"r"}}, q : {{"r"}, {"s"}},
              r : {{"q"}}, s : {{"p"}}, e : {{"r"}},
              x : {{"y"}}, y : {{"z"}}, z : {{"y"}}] \cup {SymNeighbors}

Message(type, i, n, ttl, size) ==
    [type |-> type, via |-> i, seqno |-> n, ttl |-> ttl, size |-> size]

MCMessageSets == {{Message("MID", "a1", 1, 18, 2)},
                  {Message("MID", "x1", 1, 18, 2), Message("MID", "x1", 3, 2, 1)},
                  {Message("TC", "x1", 4, 18, 2), Message("TC", "x1", 5, 18, 1)}}

\* In the first network q chooses its relay; there, and for the TCs, the originator is known.  (A
\* router never enters its own messages: its entry for itself is as it was at the start.)  All
\* routers choose all their neighbours only for the TCs.
MCScenarios ==
    LET flooded == todo \cup sent
    IN  CASE \A m \in flooded : m.via = "a1" -> mpr # SymNeighbors /\ dup["a"]["a"].known
          [] \A m \in flooded : m.type = "TC" -> mpr["q"] # {"s"} /\ dup["a"]["a"].known
          [] OTHER -> mpr["q"] = {"r"}

\* y has too little room for both messages in one packet.
MCMaxSize == [i \in MCInterfaces |-> IF MCOwner[i] = "y" THEN 2 ELSE 3]

ASSUME MCWellConnected == WellConnected

=============================================================================
