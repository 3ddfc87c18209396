----------------------------- MODULE MCGateway -----------------------------
(* Gateway with two gateways for both families, or for IPv4 alone.        *)
EXTENDS Gateway

MCBoth == {{"v4", "v6"}, {"v4", "nat", "v6"}}
MCHnas == <<2, 1>>
MCOne == <<1, 1>>
\* The kernel refuses a tunnel, or interfaces go down, or gateway 1 announces
\* a change while gateway 2 has no NAT.
MCScenarios ==
    /\ down # {} => failures = 0
    /\ Len(announced[1]) = 2 =>
        failures = 0 /\ down = {} /\ announced[2] \in {<<>>, <<Families>>}
MCPlain == {{"v4"}}
=============================================================================
