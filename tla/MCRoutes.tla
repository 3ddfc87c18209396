------------------------------- MODULE MCRoutes -------------------------------
(* Routes on small networks.                                                 *)
EXTENDS Routes, TLC

\* Two neighbours on an interface each, and a node 3 behind both.
MCWires == {[nbr |-> 1, inter |-> "i1", gw |-> 1], [nbr |-> 2, inter |-> "i2", gw |-> 2]}
MCTriangle == {<<1, 0 :> 1 @@ 2 :> 1>>, <<2, 0 :> 1 @@ 1 :> 1>>}
MCSquare == {<<1, 0 :> 1 @@ 2 :> 1 @@ 3 :> c>> : c \in Costs}
       \cup {<<2, 0 :> 1 @@ 1 :> 3 @@ 3 :> 1>>, <<3, 1 :> 3 @@ 2 :> 1>>}
MCAdverts == MCTriangle \cup MCSquare
\* The default route is announced by both neighbours.
MCHnas == {<<1, 9>>, <<2, 9>>}

\* One neighbour, which announces the default route.
MCWire == {[nbr |-> 1, inter |-> "i1", gw |-> 1]}
MCPair == {<<1, 0 :> 1>>}
MCHna == {<<1, 9>>}

\* Without faults the topology varies, with them the networks do.
MCScenarios ==
    /\ <<cnf.fault, cnf.ip_version, cnf.fib_metric>> \in
          {<<"none", 4, "flat">>, <<"refuse", 4, "flat">>, <<"refuse", 6, "flat">>,
           <<"prompt", 4, "flat">>, <<"prompt", 6, "correct">>, <<"late", 6, "flat">>,
           <<"carrier", 4, "flat">>, <<"carrier", 6, "flat">>, <<"carrier", 4, "correct">>}
    /\ cnf.fault = "none" => prefix_tree \cap MCHnas = {}
    /\ cnf.fault # "none" =>
          /\ cnf.lq_level = 0 <=> cnf.fault = "refuse" /\ cnf.ip_version = 6
          /\ \A n \in Nodes : edge[<<n, 3>>] = NoEdge /\ edge[<<3, n>>] = NoEdge
    /\ cnf.fault = "refuse" => events < MAX_EVENTS
    /\ cnf.fault = "refuse" \/ cnf.ip_version = 6 \/ cnf.fib_metric = "correct" =>
          \A w \in Wires : linkcost[w] # 3
=============================================================================
