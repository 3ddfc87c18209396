---------------------------- MODULE GatewayProofs ----------------------------
(***************************************************************************)
(* Proofs about the smart gateway client for every set of gateways, every  *)
(* choice of address families and every number of refused tunnels: users   *)
(* of tunnels and routes are exact, no selected gateway is dangling, and   *)
(* the loss of a gateway is pursued.                                       *)
(***************************************************************************)
EXTENDS Gateway, NumberFacts, FiniteSetTheorems, TLAPS

(* States as the handlers pass them on.                                    *)

Entries == [known : BOOLEAN, flags : SUBSET (Families \cup {"nat"}), seqno : Nat,
            cleanup_timer : BOOLEAN]

Selections == [current : [AllFamilies -> Gateways \cup {None}],
               tunnel : [AllFamilies -> Gateways \cup {None}],
               finished : [AllFamilies -> BOOLEAN], timer : BOOLEAN,
               nodecount : 0 .. Cardinality(Gateways),
               stablecount : 0 .. GW_DEFAULT_STABLE_COUNT, null : BOOLEAN]

Paths == Costs \cup {NewCost, ROUTE_COST_BROKEN, NoTc}

States == [gw : [Gateways -> Entries], sel : Selections, usage : [Gateways -> Nat],
           route : [AllFamilies -> Gateways \cup {None}], path : [Gateways -> Paths],
           down : SUBSET Gateways, ok : BOOLEAN, null : BOOLEAN]

\* How often family f uses the tunnel to g.
Uses(s, f, g) == IF s.sel.current[f] = g THEN 1 ELSE 0

\* The route of a family leads into the tunnel of its gateway.  Without a gateway
\* there is none, unless a tunnel was refused (in this step or, if broke, before)
\* and the other family still uses the tunnel it leads into.
RouteOK(s, broke, f) ==
    IF s.sel.current[f] = None
    THEN s.route[f] # None => (broke \/ ~s.ok) /\ s.usage[s.route[f]] = 1
    ELSE s.route[f] = IF s.sel.current[f] \in s.down THEN None ELSE s.sel.current[f]

TunnelsOK(s, broke) ==
    /\ \A g \in Gateways : s.usage[g] = Uses(s, "v4", g) + Uses(s, "v6", g)
    /\ s.sel.tunnel = s.sel.current
    /\ \A g \in s.down : s.usage[g] > 0
    /\ \A f \in AllFamilies : s.route[f] \notin s.down /\ RouteOK(s, broke, f)

\* An entry to be cleaned up serves no family and is not selected.
EntriesOK(s) ==
    /\ \A g \in Gateways : s.gw[g].cleanup_timer => s.gw[g].flags = {}
    /\ \A f \in AllFamilies :
          /\ s.sel.current[f] # None =>
                f \in Families /\ s.gw[s.sel.current[f]].known /\ ~s.gw[s.sel.current[f]].cleanup_timer
          /\ f \notin Families => s.sel.finished[f]
    /\ ~s.null

Sound(s, broke) == s \in States /\ TunnelsOK(s, broke) /\ EntriesOK(s)

LEMMA FamilyFacts ==
    /\ \A f \in AllFamilies : f = "v4" \/ f = "v6"
    /\ "v4" \in AllFamilies /\ "v6" \in AllFamilies /\ "v4" # "v6"
    /\ Families \subseteq AllFamilies /\ None \notin Gateways
BY GatewayAssumption DEF AllFamilies, None

\* What the operations on tunnels leave alone.
SameBut(s, u) ==
    /\ u \in States
    /\ u.gw = s.gw /\ u.path = s.path /\ u.ok = s.ok /\ u.null = s.null
    /\ u.sel.finished = s.sel.finished /\ u.sel.timer = s.sel.timer

LEMMA DelTunnel ==
    ASSUME NEW s \in States, NEW g \in Gateways, NEW u, u = olsr_os_del_ipip_tunnel(s, g)
    PROVE  /\ SameBut(s, u) /\ u.sel = s.sel
           /\ u.usage = [s.usage EXCEPT ![g] = IF @ = 0 THEN 0 ELSE @ - 1]
           /\ s.usage[g] # 1 => u.route = s.route /\ u.down = s.down
           /\ s.usage[g] = 1 => u.route = Without(s.route, g) /\ u.down = s.down \ {g}
<1>1. s.usage[g] \in Nat /\ s.usage \in [Gateways -> Nat]
  BY DEF States
<1>2. CASE s.usage[g] = 0
  <2>1. u = s
    BY <1>2 DEF olsr_os_del_ipip_tunnel
  <2> QED BY <1>1, <1>2, <2>1 DEF SameBut
<1>3. CASE s.usage[g] > 1
  <2>1. u = [s EXCEPT !.usage = [s.usage EXCEPT ![g] = @ - 1]]
    BY <1>1, <1>3 DEF olsr_os_del_ipip_tunnel
  <2>2. [s.usage EXCEPT ![g] = @ - 1] \in [Gateways -> Nat]
    BY <1>1, <1>3
  <2> QED BY <1>1, <1>3, <2>1, <2>2 DEF SameBut, States
<1>4. CASE s.usage[g] = 1
  <2>1. u = [s EXCEPT !.usage = [s.usage EXCEPT ![g] = 0], !.route = Without(s.route, g), !.down = s.down \ {g}]
    BY <1>4 DEF olsr_os_del_ipip_tunnel
  <2>2. [s.usage EXCEPT ![g] = 0] \in [Gateways -> Nat]
    BY <1>1
  <2>3. Without(s.route, g) \in [AllFamilies -> Gateways \cup {None}] /\ s.down \ {g} \in SUBSET Gateways
    BY DEF Without, States
  <2> DEFINE us == [s.usage EXCEPT ![g] = 0]
             ro == Without(s.route, g)
             dn == s.down \ {g}
  <2>4. us = [s.usage EXCEPT ![g] = IF @ = 0 THEN 0 ELSE @ - 1]
    BY <1>1, <1>4
  <2> HIDE DEF us, ro, dn
  <2>5. u = [s EXCEPT !.usage = us, !.route = ro, !.down = dn]
    BY <2>1 DEF us, ro, dn
  <2>6. /\ us \in [Gateways -> Nat] /\ ro \in [AllFamilies -> Gateways \cup {None}]
        /\ dn \in SUBSET Gateways
    BY <2>2, <2>3 DEF us, ro, dn
  <2>7. /\ u \in States /\ u.usage = us /\ u.route = ro /\ u.down = dn /\ u.sel = s.sel
        /\ u.gw = s.gw /\ u.path = s.path /\ u.ok = s.ok /\ u.null = s.null
    BY <2>5, <2>6 DEF States
  <2> QED BY <1>4, <2>4, <2>7 DEF SameBut, ro, dn
<1> QED BY <1>1, <1>2, <1>3, <1>4

\* The first half of a change: the new tunnel is built, or none is selected.
Built(s, f, g) ==
    IF CanTunnel(s, g)
    THEN [olsr_os_add_ipip_tunnel(s, g) EXCEPT
             !.sel.current[f] = g, !.sel.tunnel[f] = g,
             !.route[f] = IF g \in s.down THEN @ ELSE g]
    ELSE [s EXCEPT !.sel.current[f] = None, !.sel.tunnel[f] = None]

\* What the first half does: with a tunnel to g, or without.
BuiltWith(s, f, g, n) ==
    /\ n.usage = [s.usage EXCEPT ![g] = @ + 1]
    /\ n.sel.current = [s.sel.current EXCEPT ![f] = g]
    /\ n.sel.tunnel = [s.sel.tunnel EXCEPT ![f] = g]
    /\ n.route = [s.route EXCEPT ![f] = IF g \in s.down THEN @ ELSE g]

BuiltWithout(s, f, n) ==
    /\ n.usage = s.usage /\ n.route = s.route
    /\ n.sel.current = [s.sel.current EXCEPT ![f] = None]
    /\ n.sel.tunnel = [s.sel.tunnel EXCEPT ![f] = None]

LEMMA BuiltFacts ==
    ASSUME NEW s \in States, NEW g \in Gateways, NEW f \in AllFamilies, NEW n, n = Built(s, f, g)
    PROVE  /\ SameBut(s, n) /\ n.down = s.down
           /\ CanTunnel(s, g) => BuiltWith(s, f, g, n)
           /\ ~CanTunnel(s, g) => BuiltWithout(s, f, n)
<1>1. /\ s.usage \in [Gateways -> Nat] /\ s.route \in [AllFamilies -> Gateways \cup {None}]
      /\ s.sel \in Selections
      /\ s.sel.current \in [AllFamilies -> Gateways \cup {None}]
      /\ s.sel.tunnel \in [AllFamilies -> Gateways \cup {None}]
  BY DEF States, Selections
<1> DEFINE sel1(x) == [[s.sel EXCEPT !.current = [s.sel.current EXCEPT ![f] = x]] EXCEPT
                          !.tunnel = [s.sel.tunnel EXCEPT ![f] = x]]
<1>2. ASSUME NEW x \in Gateways \cup {None}
      PROVE  /\ sel1(x) \in Selections
             /\ sel1(x).current = [s.sel.current EXCEPT ![f] = x]
             /\ sel1(x).tunnel = [s.sel.tunnel EXCEPT ![f] = x]
             /\ sel1(x).finished = s.sel.finished /\ sel1(x).timer = s.sel.timer
  BY <1>1 DEF Selections
<1>3. CASE CanTunnel(s, g)
  <2> DEFINE us == [s.usage EXCEPT ![g] = @ + 1]
             ro == [s.route EXCEPT ![f] = IF g \in s.down THEN @ ELSE g]
  <2>1. n = [s EXCEPT !.usage = us, !.sel = sel1(g), !.route = ro]
    <3> DEFINE a == [s EXCEPT !.usage = us]
    <3>1. a.sel = s.sel /\ a.route = s.route /\ a \in States /\ a.sel \in Selections
      BY <1>1 DEF States
    <3>2. n = [a EXCEPT !.sel.current[f] = g, !.sel.tunnel[f] = g,
                        !.route[f] = IF g \in s.down THEN @ ELSE g]
      BY <1>3 DEF Built, olsr_os_add_ipip_tunnel
    <3> HIDE DEF a
    <3>3. n = [[a EXCEPT !.sel = sel1(g)] EXCEPT !.route = ro]
      <4> DEFINE b == [a EXCEPT !.sel.current[f] = g]
                 c == [b EXCEPT !.sel.tunnel[f] = g]
      <4>1. b = [a EXCEPT !.sel = [s.sel EXCEPT !.current = [s.sel.current EXCEPT ![f] = g]]]
        BY <3>1
      <4>2. b.sel = [s.sel EXCEPT !.current = [s.sel.current EXCEPT ![f] = g]] /\ b.route = s.route
        BY <3>1, <4>1 DEF States
      <4>3. b.sel.tunnel = s.sel.tunnel
        BY <1>1, <4>2 DEF Selections
      <4>4. c = [b EXCEPT !.sel = sel1(g)] /\ n = [c EXCEPT !.route[f] = IF g \in s.down THEN @ ELSE g]
        <5>1. c = [b EXCEPT !.sel = [b.sel EXCEPT !.tunnel = [b.sel.tunnel EXCEPT ![f] = g]]]
          OBVIOUS
        <5>2. n = [c EXCEPT !.route[f] = IF g \in s.down THEN @ ELSE g]
          BY <3>2
        <5> QED BY <4>2, <4>3, <5>1, <5>2
      <4>5. c = [a EXCEPT !.sel = sel1(g)]
        BY <4>1, <4>4
      <4>6. c.route = s.route
        BY <3>1, <4>5 DEF States
      <4> QED BY <4>4, <4>5, <4>6
    <3> QED BY <3>3 DEF a
  <2>2. us \in [Gateways -> Nat] /\ ro \in [AllFamilies -> Gateways \cup {None}]
    BY <1>1
  <2>3. /\ sel1(g) \in Selections
        /\ sel1(g).current = [s.sel.current EXCEPT ![f] = g]
        /\ sel1(g).tunnel = [s.sel.tunnel EXCEPT ![f] = g]
        /\ sel1(g).finished = s.sel.finished /\ sel1(g).timer = s.sel.timer
    BY <1>2
  <2> HIDE DEF us, ro, sel1
  <2>4. /\ n \in States /\ n.sel = sel1(g) /\ n.usage = us /\ n.route = ro
        /\ n.gw = s.gw /\ n.path = s.path /\ n.ok = s.ok /\ n.null = s.null /\ n.down = s.down
    BY <2>1, <2>2, <2>3 DEF States
  <2> QED BY <1>3, <2>3, <2>4 DEF SameBut, BuiltWith, us, ro
<1>4. CASE ~CanTunnel(s, g)
  <2>1. n = [s EXCEPT !.sel = sel1(None)]
    BY <1>1, <1>4 DEF Built, States
  <2>2. /\ sel1(None) \in Selections
        /\ sel1(None).current = [s.sel.current EXCEPT ![f] = None]
        /\ sel1(None).tunnel = [s.sel.tunnel EXCEPT ![f] = None]
        /\ sel1(None).finished = s.sel.finished /\ sel1(None).timer = s.sel.timer
    BY <1>2
  <2> HIDE DEF sel1
  <2>3. /\ n \in States /\ n.sel = sel1(None) /\ n.usage = s.usage /\ n.route = s.route
        /\ n.gw = s.gw /\ n.path = s.path /\ n.ok = s.ok /\ n.null = s.null /\ n.down = s.down
    BY <2>1, <2>2 DEF States
  <2> QED BY <1>4, <2>2, <2>3 DEF SameBut, BuiltWithout
<1> QED BY <1>3, <1>4

\* A family changes to a gateway that may be used for it.
LEMMA SwitchOK ==
    ASSUME NEW s, NEW broke \in BOOLEAN, Sound(s, broke), NEW f \in Families, NEW g \in Gateways,
           Valid(s, g, f), NEW u, u = Switch(s, f, g)
    PROVE  /\ Sound(u, broke) /\ SameBut(s, u)
           /\ u.sel.current[f] \in {g, None}
           /\ \A h \in AllFamilies : h # f => u.sel.current[h] = s.sel.current[h]
<1> DEFINE old == s.sel.current[f]
           n == Built(s, f, g)
<1>1. /\ s \in States /\ TunnelsOK(s, broke) /\ EntriesOK(s)
      /\ s.usage \in [Gateways -> Nat] /\ s.route \in [AllFamilies -> Gateways \cup {None}]
      /\ s.sel.current \in [AllFamilies -> Gateways \cup {None}]
      /\ s.sel.tunnel \in [AllFamilies -> Gateways \cup {None}]
      /\ s.down \subseteq Gateways /\ s.ok \in BOOLEAN
  BY DEF Sound, States, Selections
<1>2. f \in AllFamilies /\ g # None /\ (f = "v4" \/ f = "v6")
  BY FamilyFacts
<1>3. CASE old = g
  <2>1. u = s
    BY <1>3 DEF Switch
  <2> QED BY <1>1, <1>3, <2>1 DEF SameBut
<1>4. CASE old # g
  <2>1. u = IF old = None THEN n ELSE olsr_os_del_ipip_tunnel(n, old)
    BY <1>4 DEF Switch, Built
  <2>new. n = Built(s, f, g) /\ s \in States /\ f \in AllFamilies
    BY <1>1, <1>2
  <2> HIDE DEF n
  <2>2. /\ SameBut(s, n) /\ n.down = s.down
        /\ CanTunnel(s, g) =>
              /\ n.usage = [s.usage EXCEPT ![g] = @ + 1]
              /\ n.sel.current = [s.sel.current EXCEPT ![f] = g]
              /\ n.sel.tunnel = [s.sel.tunnel EXCEPT ![f] = g]
              /\ n.route = [s.route EXCEPT ![f] = IF g \in s.down THEN @ ELSE g]
        /\ ~CanTunnel(s, g) =>
              /\ n.usage = s.usage /\ n.route = s.route
              /\ n.sel.current = [s.sel.current EXCEPT ![f] = None]
              /\ n.sel.tunnel = [s.sel.tunnel EXCEPT ![f] = None]
    <3>1. /\ SameBut(s, n) /\ n.down = s.down
          /\ CanTunnel(s, g) => BuiltWith(s, f, g, n)
          /\ ~CanTunnel(s, g) => BuiltWithout(s, f, n)
      BY <2>new, BuiltFacts
    <3> QED BY <3>1 DEF BuiltWith, BuiltWithout
  <2>3. /\ SameBut(s, u) /\ u.sel = n.sel
        /\ old = None => u.usage = n.usage /\ u.route = n.route /\ u.down = n.down
        /\ old # None =>
              /\ u.usage = [n.usage EXCEPT ![old] = IF @ = 0 THEN 0 ELSE @ - 1]
              /\ n.usage[old] # 1 => u.route = n.route /\ u.down = n.down
              /\ n.usage[old] = 1 => u.route = Without(n.route, old) /\ u.down = n.down \ {old}
    <3>1. CASE old = None
      BY <2>1, <2>2, <3>1
    <3>2. CASE old # None
      <4>1. old \in Gateways /\ n \in States /\ u = olsr_os_del_ipip_tunnel(n, old)
        BY <1>1, <1>2, <2>1, <2>2, <3>2 DEF SameBut
      <4>2. /\ SameBut(n, u) /\ u.sel = n.sel
            /\ u.usage = [n.usage EXCEPT ![old] = IF @ = 0 THEN 0 ELSE @ - 1]
            /\ n.usage[old] # 1 => u.route = n.route /\ u.down = n.down
            /\ n.usage[old] = 1 => u.route = Without(n.route, old) /\ u.down = n.down \ {old}
        BY <4>1, DelTunnel
      <4> QED BY <2>2, <3>2, <4>2 DEF SameBut
    <3> QED BY <3>1, <3>2
  <2>4. PICK h \in AllFamilies : h # f /\ {f, h} = {"v4", "v6"} /\ AllFamilies = {f, h}
    BY <1>2 DEF AllFamilies
  <2>5. \A x \in Gateways : /\ s.usage[x] = Uses(s, f, x) + Uses(s, h, x)
                            /\ Uses(u, "v4", x) + Uses(u, "v6", x) = Uses(u, f, x) + Uses(u, h, x)
    <3>1. \A x \in Gateways : s.usage[x] = Uses(s, "v4", x) + Uses(s, "v6", x)
      BY <1>1 DEF TunnelsOK
    <3>2. (f = "v4" /\ h = "v6") \/ (f = "v6" /\ h = "v4")
      BY <2>4
    <3> QED BY <3>1, <3>2 DEF Uses
  <2>6. /\ u.sel.current = [s.sel.current EXCEPT ![f] = IF CanTunnel(s, g) THEN g ELSE None]
        /\ u.sel.tunnel = u.sel.current
    BY <1>1, <2>2, <2>3 DEF TunnelsOK
  <2>7. u.sel.current[f] = (IF CanTunnel(s, g) THEN g ELSE None) /\ u.sel.current[h] = s.sel.current[h]
    BY <1>1, <1>2, <2>4, <2>6
  <2>8. EntriesOK(u)
    <3>1. u.gw = s.gw /\ u.sel.finished = s.sel.finished /\ u.null = s.null
      BY <2>3 DEF SameBut
    <3>2. s.gw[g].known /\ s.gw[g].flags # {}
      BY DEF Valid
    <3>3. ~s.gw[g].cleanup_timer
      BY <1>1, <3>2 DEF EntriesOK
    <3> QED BY <1>1, <2>4, <2>7, <3>1, <3>2, <3>3 DEF EntriesOK
  <2>9. ASSUME NEW x \in Gateways PROVE u.usage[x] = Uses(u, "v4", x) + Uses(u, "v6", x)
    <3>1. n.usage[x] = s.usage[x] + (IF CanTunnel(s, g) /\ x = g THEN 1 ELSE 0)
      BY <1>1, <2>2
    <3>2. u.usage[x] = n.usage[x] - (IF x = old THEN 1 ELSE 0)
      <4>1. CASE old = None
        BY <1>1, <1>2, <2>3, <3>1, <4>1, FamilyFacts
      <4>2. CASE old # None
        <5>1. old \in Gateways /\ n.usage \in [Gateways -> Nat]
          BY <1>1, <1>2, <2>2, <4>2
        <5>2. x = old => s.usage[x] > 0
          BY <2>5 DEF Uses
        <5> QED BY <1>1, <2>3, <3>1, <4>2, <5>1, <5>2
      <4> QED BY <4>1, <4>2
    <3>3. /\ s.usage[x] = Uses(s, f, x) + Uses(s, h, x) /\ Uses(u, h, x) = Uses(s, h, x)
          /\ Uses(s, f, x) = (IF x = old THEN 1 ELSE 0)
          /\ Uses(u, f, x) = (IF CanTunnel(s, g) /\ x = g THEN 1 ELSE 0)
          /\ Uses(s, h, x) \in Nat
      BY <1>2, <2>5, <2>7, FamilyFacts DEF Uses
    <3>4. u.usage[x] = Uses(u, f, x) + Uses(u, h, x)
      BY <1>4, <3>1, <3>2, <3>3
    <3> QED BY <2>5, <3>4
  <2>10. ASSUME NEW x \in u.down PROVE u.usage[x] > 0
    <3>1. x \in s.down /\ x \in Gateways /\ s.usage[x] > 0
      BY <1>1, <2>2, <2>3, <2>10 DEF TunnelsOK
    <3>2. CASE x = old
      <4>1. n.usage[old] # 1 /\ n.usage[old] = s.usage[old]
        BY <1>1, <1>2, <1>4, <2>2, <2>3, <2>10, <3>1, <3>2, FamilyFacts
      <4> QED BY <1>1, <1>2, <2>2, <2>3, <3>1, <3>2, <4>1, FamilyFacts
    <3>3. CASE x # old
      BY <1>1, <2>2, <2>3, <3>1, <3>3
    <3> QED BY <3>2, <3>3
  <2> DEFINE alone == old # None /\ s.sel.current[h] # old
  <2>last. old # None => (n.usage[old] = 1 <=> s.sel.current[h] # old)
    <3> SUFFICES ASSUME old # None PROVE n.usage[old] = 1 <=> s.sel.current[h] # old
      OBVIOUS
    <3>1. old \in Gateways
      BY <1>1, <1>2
    <3>2. n.usage[old] = s.usage[old]
      BY <1>1, <1>4, <2>2, <3>1
    <3> QED BY <2>5, <3>1, <3>2 DEF Uses
  <2>11. \A x \in AllFamilies : u.route[x] = IF alone /\ n.route[x] = old THEN None ELSE n.route[x]
    BY <2>3, <2>last DEF Without
  <2>12. u.down = IF alone THEN s.down \ {old} ELSE s.down
    BY <2>2, <2>3, <2>last
  <2>13. /\ n.route[h] = s.route[h]
         /\ n.route[f] = IF CanTunnel(s, g) /\ g \notin s.down THEN g ELSE s.route[f]
    BY <1>1, <1>2, <2>2, <2>4
  <2>14. RouteOK(s, broke, f) /\ RouteOK(s, broke, h) /\ s.route[f] \notin s.down /\ s.route[h] \notin s.down
    BY <1>1, <1>2, <2>4 DEF TunnelsOK
  <2>15. None \notin Gateways /\ s.route[f] \in Gateways \cup {None} /\ s.route[h] \in Gateways \cup {None}
         /\ s.sel.current[h] \in Gateways \cup {None} /\ old \in Gateways \cup {None}
    BY <1>1, <1>2, <2>4, FamilyFacts
  <2>16. \A x \in AllFamilies : u.route[x] \notin u.down
    BY <1>1, <2>4, <2>11, <2>12, <2>13, <2>14, <2>15
  <2>17. RouteOK(u, broke, h)
    <3>1. CASE s.sel.current[h] = None
      <4>1. ASSUME s.route[h] # None PROVE s.route[h] = old /\ alone
        <5>1. s.usage[s.route[h]] = 1 /\ s.route[h] \in Gateways
          BY <2>14, <2>15, <3>1, <4>1 DEF RouteOK
        <5> QED BY <2>5, <2>15, <3>1, <5>1 DEF Uses
      <4> QED BY <2>7, <2>11, <2>13, <3>1, <4>1 DEF RouteOK
    <3>2. CASE s.sel.current[h] # None
      BY <2>7, <2>11, <2>12, <2>13, <2>14, <2>15, <3>2 DEF RouteOK
    <3> QED BY <3>1, <3>2
  <2>18. RouteOK(u, broke, f)
    <3>1. CASE CanTunnel(s, g) /\ g \notin s.down
      BY <1>2, <1>4, <2>7, <2>11, <2>12, <2>13, <3>1 DEF RouteOK
    <3>2. CASE CanTunnel(s, g) /\ g \in s.down
      <4>1. s.usage[g] > 0
        BY <1>1, <3>2 DEF TunnelsOK
      <4>2. s.sel.current[h] = g
        BY <1>4, <2>5, <4>1 DEF Uses
      <4>3. CASE old = None
        <5>1. s.route[f] = None
          <6> SUFFICES ASSUME s.route[f] # None PROVE FALSE
            OBVIOUS
          <6>1. s.usage[s.route[f]] = 1 /\ s.route[f] \in Gateways
            BY <2>14, <2>15, <4>3 DEF RouteOK
          <6>2. s.route[f] = g
            BY <2>5, <2>15, <4>2, <4>3, <6>1 DEF Uses
          <6> QED BY <2>14, <3>2, <6>2
        <5> QED BY <1>2, <2>7, <2>11, <2>12, <2>13, <3>2, <4>3, <5>1 DEF RouteOK
      <4>4. CASE old # None
        <5>1. s.route[f] \in {None, old} /\ alone
          BY <1>4, <2>14, <4>2, <4>4 DEF RouteOK
        <5>2. u.route[f] = None /\ g \in u.down
          BY <1>2, <1>4, <2>11, <2>12, <2>13, <3>2, <5>1
        <5> QED BY <1>2, <2>7, <3>2, <5>2 DEF RouteOK
      <4> QED BY <4>3, <4>4
    <3>3. CASE ~CanTunnel(s, g)
      <4>1. ~s.ok /\ u.ok = s.ok
        BY <2>3, <3>3 DEF CanTunnel, SameBut
      <4>2. u.sel.current[f] = None
        BY <2>7, <3>3
      <4>3. ASSUME u.route[f] # None PROVE u.usage[u.route[f]] = 1
        <5>1. u.route[f] = s.route[f]
          BY <1>2, <2>11, <2>13, <3>3, <4>3
        <5>2. CASE old = None
          <6>1. s.usage[s.route[f]] = 1
            BY <2>14, <4>3, <5>1, <5>2 DEF RouteOK
          <6> QED BY <2>2, <2>3, <3>3, <5>1, <5>2, <6>1
        <5>3. CASE old # None
          <6>1. s.route[f] = old /\ s.sel.current[h] = old
            BY <1>2, <2>11, <2>13, <2>14, <3>3, <4>3, <5>1, <5>3 DEF RouteOK
          <6>2. u.usage[old] = Uses(u, f, old) + Uses(u, h, old)
            BY <2>5, <2>9, <2>15, <5>3
          <6> QED BY <2>7, <4>2, <5>1, <5>3, <6>1, <6>2 DEF Uses
        <5> QED BY <5>2, <5>3
      <4> QED BY <4>1, <4>2, <4>3 DEF RouteOK
    <3> QED BY <3>1, <3>2, <3>3
  <2>19. TunnelsOK(u, broke)
    <3>1. \A x \in AllFamilies : RouteOK(u, broke, x)
      BY <2>4, <2>17, <2>18
    <3> QED BY <2>6, <2>9, <2>10, <2>16, <3>1 DEF TunnelsOK
  <2> QED BY <2>3, <2>4, <2>7, <2>8, <2>19 DEF Sound, SameBut
<1> QED BY <1>3, <1>4

\* A gateway that serves the families fs is set for them.
LEMMA SetGatewayOK ==
    ASSUME NEW s, NEW broke \in BOOLEAN, Sound(s, broke), NEW g \in Gateways, NEW fs,
           \A f \in fs \cap Families : Valid(s, g, f), NEW u, u = olsr_set_inet_gateway(s, g, fs)
    PROVE  /\ Sound(u, broke) /\ SameBut(s, u)
           /\ \A f \in AllFamilies : IF f \in fs \cap Families THEN u.sel.current[f] \in {g, None}
                                     ELSE u.sel.current[f] = s.sel.current[f]
<1> DEFINE s4 == IF "v4" \in fs \cap Families THEN SetFamily(s, g, "v4") ELSE s
<1>1. s \in States /\ SameBut(s, s)
  BY DEF Sound, SameBut
<1>2. /\ Sound(s4, broke) /\ SameBut(s, s4)
      /\ s4.sel.current["v6"] = s.sel.current["v6"]
      /\ IF "v4" \in fs \cap Families THEN s4.sel.current["v4"] \in {g, None}
         ELSE s4.sel.current["v4"] = s.sel.current["v4"]
  <2>1. CASE "v4" \in fs \cap Families
    <3>1. s4 = Switch(s, "v4", g) /\ Valid(s, g, "v4") /\ "v4" \in Families
      BY <2>1 DEF SetFamily
    <3> HIDE DEF s4
    <3>2. /\ Sound(s4, broke) /\ SameBut(s, s4) /\ s4.sel.current["v4"] \in {g, None}
          /\ \A h \in AllFamilies : h # "v4" => s4.sel.current[h] = s.sel.current[h]
      BY <3>1, SwitchOK
    <3> QED BY <2>1, <3>2, FamilyFacts
  <2>2. CASE "v4" \notin fs \cap Families
    BY <1>1, <2>2
  <2> QED BY <2>1, <2>2
<1>3. u = IF "v6" \in fs \cap Families THEN SetFamily(s4, g, "v6") ELSE s4
  BY DEF olsr_set_inet_gateway
<1>4. "v6" \in fs \cap Families => Valid(s4, g, "v6")
  BY <1>2 DEF SameBut, Valid
<1> HIDE DEF s4
<1>5. CASE "v6" \in fs \cap Families
  <2>1. u = Switch(s4, "v6", g) /\ Valid(s4, g, "v6") /\ "v6" \in Families
    BY <1>3, <1>4, <1>5 DEF SetFamily
  <2>2. /\ Sound(u, broke) /\ SameBut(s4, u) /\ u.sel.current["v6"] \in {g, None}
        /\ \A h \in AllFamilies : h # "v6" => u.sel.current[h] = s4.sel.current[h]
    BY <1>2, <2>1, SwitchOK
  <2>3. SameBut(s, u)
    BY <1>2, <2>2 DEF SameBut
  <2> QED BY <1>2, <1>5, <2>2, <2>3, FamilyFacts
<1>6. CASE "v6" \notin fs \cap Families
  BY <1>2, <1>3, <1>6, FamilyFacts
<1> QED BY <1>5, <1>6

-----------------------------------------------------------------------------
(* The default handler.                                                    *)

LEMMA CostFacts ==
    /\ ROUTE_COST_BROKEN \in Nat /\ \A c \in Costs : c \in Nat /\ c < ROUTE_COST_BROKEN
    /\ NoTc \in Nat /\ NoTc >= ROUTE_COST_BROKEN /\ NoTc # ROUTE_COST_BROKEN
    /\ NewCost < ROUTE_COST_BROKEN
    /\ Paths \subseteq Nat
<1>1. \E c \in Costs : \A d \in Costs : c >= d
  BY CostAssumption
<1>2. Max(Costs) \in Costs /\ \A d \in Costs : Max(Costs) >= d
  BY <1>1 DEF Max
<1>3. Costs \subseteq Nat
  BY GatewayAssumption
<1>4. ROUTE_COST_BROKEN \in Nat /\ \A c \in Costs : c \in Nat /\ c < ROUTE_COST_BROKEN
  <2> DEFINE M == Max(Costs)
  <2>1. M \in Nat /\ \A d \in Costs : d \in Nat /\ M >= d
    BY <1>2, <1>3
  <2>2. ROUTE_COST_BROKEN = 1 + M
    BY DEF ROUTE_COST_BROKEN
  <2> HIDE DEF M
  <2> QED BY <2>1, <2>2
<1>5. NewCost < ROUTE_COST_BROKEN
  BY <1>1, <1>4 DEF NewCost
<1> QED BY <1>3, <1>4, <1>5 DEF NoTc, Paths, NewCost

\* A set of gateways has a nearest one, the first of the tree among equals.
LEMMA Nearest ==
    ASSUME NEW s \in States, NEW S \in SUBSET Gateways, S # {}
    PROVE  \E g \in S : \A h \in S : s.path[g] < s.path[h] \/ (s.path[g] = s.path[h] /\ g <= h)
<1>1. \A g \in S : s.path[g] \in Nat /\ g \in Nat
  BY CostFacts, GatewayAssumption DEF States
<1> DEFINE P == {s.path[g] : g \in S}
<1>2. P \in SUBSET Nat /\ P # {}
  BY <1>1
<1>3. PICK p \in P : \A q \in P : p <= q
  <2> HIDE DEF P
  <2> QED BY <1>2, LeastNumber
<1> DEFINE G == {g \in S : s.path[g] = p}
<1>4. G \in SUBSET Nat /\ G # {}
  BY <1>1, <1>3
<1>5. PICK g \in G : \A h \in G : g <= h
  <2> HIDE DEF G
  <2> QED BY <1>4, LeastNumber
<1>6. ASSUME NEW h \in S PROVE s.path[g] < s.path[h] \/ (s.path[g] = s.path[h] /\ g <= h)
  <2>1. s.path[h] \in P /\ s.path[g] = p /\ p <= s.path[h]
    BY <1>3, <1>5
  <2>2. CASE s.path[h] = p
    BY <1>5, <2>1, <2>2
  <2>3. CASE s.path[h] # p
    BY <1>1, <1>5, <2>1, <2>3
  <2> QED BY <2>2, <2>3
<1> QED BY <1>5, <1>6

\* What is chosen may be used and is in reach.
LEMMA BestFacts ==
    ASSUME NEW s \in States, NEW f \in AllFamilies, NEW b, b = Best(s, f), b # None
    PROVE  /\ b \in Gateways /\ ~s.sel.finished[f] /\ s.path[b] < ROUTE_COST_BROKEN
           /\ Suits(s, b, f) /\ Valid(s, b, f)
<1> DEFINE suit == {g \in Gateways : /\ ~s.sel.finished[f]
                                     /\ Suits(s, g, f)
                                     /\ s.path[g] < ROUTE_COST_BROKEN}
<1>1. suit # {}
  BY DEF Best
<1>2. b = CHOOSE g \in suit : \A h \in suit :
                s.path[g] < s.path[h] \/ (s.path[g] = s.path[h] /\ g <= h)
  BY <1>1 DEF Best
<1>3. \E g \in suit : \A h \in suit :
                s.path[g] < s.path[h] \/ (s.path[g] = s.path[h] /\ g <= h)
  <2>1. suit \in SUBSET Gateways
    OBVIOUS
  <2> HIDE DEF suit
  <2> QED BY <1>1, <2>1, Nearest
<1>4. b \in suit
  <2> HIDE DEF suit
  <2> QED BY <1>2, <1>3
<1>5. Valid(s, b, f)
  BY <1>4, GatewayAssumption DEF Suits, Valid
<1> QED BY <1>4, <1>5

\* Everything but the progress of the search is as before.
SearchOnly(s, u) ==
    /\ u \in States
    /\ u.gw = s.gw /\ u.usage = s.usage /\ u.route = s.route /\ u.path = s.path
    /\ u.down = s.down /\ u.ok = s.ok /\ u.null = s.null
    /\ u.sel.current = s.sel.current /\ u.sel.tunnel = s.sel.tunnel

LEMMA SearchSound ==
    ASSUME NEW s, NEW u, NEW broke \in BOOLEAN, Sound(s, broke), SearchOnly(s, u),
           \A f \in AllFamilies : f \notin Families => u.sel.finished[f]
    PROVE  Sound(u, broke)
<1>1. TunnelsOK(u, broke)
  BY DEF Sound, TunnelsOK, SearchOnly, RouteOK, Uses
<1>2. EntriesOK(u)
  BY DEF Sound, EntriesOK, SearchOnly
<1> QED BY <1>1, <1>2 DEF Sound, SearchOnly

WithFinished(s, F) == [s EXCEPT !.sel.finished = F]

LEMMA SetFinished ==
    ASSUME NEW s \in States, NEW F \in [AllFamilies -> BOOLEAN], NEW u, u = WithFinished(s, F)
    PROVE  SearchOnly(s, u) /\ u.sel.finished = F /\ u.sel.timer = s.sel.timer
<1> DEFINE sel1 == [s.sel EXCEPT !.finished = F]
<1>1. u = [s EXCEPT !.sel = sel1]
  BY DEF WithFinished
<1>2. /\ sel1 \in Selections /\ sel1.finished = F /\ sel1.timer = s.sel.timer
      /\ sel1.current = s.sel.current /\ sel1.tunnel = s.sel.tunnel
  BY DEF States, Selections
<1> HIDE DEF sel1
<1> QED BY <1>1, <1>2 DEF SearchOnly, States

LEMMA StopTimer ==
    ASSUME NEW s \in States, NEW u, u = [s EXCEPT !.sel.timer = FALSE]
    PROVE  SearchOnly(s, u) /\ u.sel.finished = s.sel.finished /\ ~u.sel.timer
<1> DEFINE sel1 == [s.sel EXCEPT !.timer = FALSE]
<1>1. u = [s EXCEPT !.sel = sel1]
  OBVIOUS
<1>2. /\ sel1 \in Selections /\ sel1.finished = s.sel.finished /\ ~sel1.timer
      /\ sel1.current = s.sel.current /\ sel1.tunnel = s.sel.tunnel
  BY DEF States, Selections
<1> HIDE DEF sel1
<1> QED BY <1>1, <1>2 DEF SearchOnly, States

\* The gateway of f is out of reach.
OutOfReach(s, f) == s.sel.current[f] # None /\ s.path[s.sel.current[f]] >= ROUTE_COST_BROKEN

\* A gateway out of reach is still being replaced.
Unfinished(s) == \A f \in AllFamilies : OutOfReach(s, f) => ~s.sel.finished[f]

\* The outcome u of a search that started in s.
Searched(s, u, broke) ==
    /\ Sound(u, broke) /\ Unfinished(u)
    /\ u.gw = s.gw /\ u.path = s.path /\ u.ok = s.ok
    /\ \A f \in AllFamilies : OutOfReach(u, f) => OutOfReach(s, f)
    /\ u.sel.timer = s.sel.timer \/ Finished(u)

\* Gateway b, if there is one, may be used for f.
MayUse(s, b, f) == b # None => b \in Gateways /\ Valid(s, b, f) /\ f \in Families

\* The gateway of f is b now or none, if a tunnel was refused.
Changed(s, u, b, f) ==
    IF b = None THEN u.sel.current[f] = s.sel.current[f] ELSE u.sel.current[f] \in {b, None}

\* The nearest gateways are set for their families.
LEMMA SetBestOK ==
    ASSUME NEW s, NEW broke \in BOOLEAN, Sound(s, broke),
           NEW b4, MayUse(s, b4, "v4"), NEW b6, MayUse(s, b6, "v6"),
           NEW u, u = SetBest(s, b4, b6)
    PROVE  /\ Sound(u, broke) /\ SameBut(s, u)
           /\ Changed(s, u, b4, "v4") /\ Changed(s, u, b6, "v6")
<1> USE DEF MayUse, Changed
<1> DEFINE fs == IF b4 = b6 THEN AllFamilies ELSE {"v4"}
           s2 == IF b4 = None THEN s ELSE olsr_set_inet_gateway(s, b4, fs)
<1>1. u = IF b6 = None \/ b4 = b6 THEN s2 ELSE olsr_set_inet_gateway(s2, b6, {"v6"})
  BY DEF SetBest
<1>2. SameBut(s, s)
  BY DEF Sound, SameBut
<1>3. /\ Sound(s2, broke) /\ SameBut(s, s2)
      /\ IF b4 = None THEN s2.sel.current["v4"] = s.sel.current["v4"]
         ELSE s2.sel.current["v4"] \in {b4, None}
      /\ IF b4 # None /\ b4 = b6 THEN s2.sel.current["v6"] \in {b6, None}
         ELSE s2.sel.current["v6"] = s.sel.current["v6"]
  <2>1. CASE b4 = None
    BY <1>2, <2>1
  <2>2. CASE b4 # None
    <3>1. s2 = olsr_set_inet_gateway(s, b4, fs) /\ b4 \in Gateways
      BY <2>2
    <3>2. \A f \in fs \cap Families : Valid(s, b4, f)
      BY <2>2, FamilyFacts
    <3> HIDE DEF s2
    <3>3. /\ "v4" \in fs \cap Families /\ (b4 = b6 => "v6" \in fs \cap Families)
          /\ (b4 # b6 => "v6" \notin fs \cap Families)
      BY <2>2, FamilyFacts
    <3> HIDE DEF fs
    <3>4. /\ Sound(s2, broke) /\ SameBut(s, s2)
          /\ \A f \in AllFamilies : IF f \in fs \cap Families THEN s2.sel.current[f] \in {b4, None}
                                    ELSE s2.sel.current[f] = s.sel.current[f]
      BY <3>1, <3>2, SetGatewayOK
    <3> QED BY <2>2, <3>3, <3>4, FamilyFacts
  <2> QED BY <2>1, <2>2
<1> HIDE DEF s2
<1>4. CASE b6 = None \/ b4 = b6
  BY <1>1, <1>3, <1>4
<1>5. CASE ~(b6 = None \/ b4 = b6)
  <2>1. u = olsr_set_inet_gateway(s2, b6, {"v6"}) /\ b6 \in Gateways
    BY <1>1, <1>5
  <2>2. \A f \in {"v6"} \cap Families : Valid(s2, b6, f)
    BY <1>3, <1>5 DEF Valid, SameBut
  <2>3. /\ Sound(u, broke) /\ SameBut(s2, u)
        /\ \A f \in AllFamilies : IF f \in {"v6"} \cap Families THEN u.sel.current[f] \in {b6, None}
                                  ELSE u.sel.current[f] = s2.sel.current[f]
    BY <1>3, <2>1, <2>2, SetGatewayOK
  <2>4. SameBut(s, u)
    BY <1>3, <2>3 DEF SameBut
  <2> QED BY <1>3, <1>5, <2>3, <2>4, FamilyFacts
<1> QED BY <1>4, <1>5

LEMMA ChooseOK ==
    ASSUME NEW s, NEW broke \in BOOLEAN, Sound(s, broke), Unfinished(s), NEW u,
           u = gw_default_choose_gateway(s)
    PROVE  Searched(s, u, broke)
<1> DEFINE b4 == Best(s, "v4")
           b6 == Best(s, "v6")
           F == [f \in AllFamilies |-> s.sel.finished[f] \/ Best(s, f) # None]
           s1 == WithFinished(s, F)
           s3 == SetBest(s1, b4, b6)
<1>1. s \in States /\ s.sel.finished \in [AllFamilies -> BOOLEAN]
      /\ \A f \in AllFamilies : f \notin Families => s.sel.finished[f]
  BY DEF Sound, States, Selections, EntriesOK
<1>2. u = IF Finished(s3) THEN [s3 EXCEPT !.sel.timer = FALSE] ELSE s3
  BY DEF gw_default_choose_gateway, WithFinished
<1>3. b4 # None => /\ b4 \in Gateways /\ ~s.sel.finished["v4"] /\ s.path[b4] < ROUTE_COST_BROKEN
                   /\ Valid(s, b4, "v4") /\ "v4" \in Families
  BY <1>1, BestFacts, FamilyFacts
<1>4. b6 # None => /\ b6 \in Gateways /\ ~s.sel.finished["v6"] /\ s.path[b6] < ROUTE_COST_BROKEN
                   /\ Valid(s, b6, "v6") /\ "v6" \in Families
  BY <1>1, BestFacts, FamilyFacts
<1>5. /\ F \in [AllFamilies -> BOOLEAN] /\ \A f \in AllFamilies : f \notin Families => F[f]
      /\ F["v4"] = (s.sel.finished["v4"] \/ b4 # None)
      /\ F["v6"] = (s.sel.finished["v6"] \/ b6 # None)
  BY <1>1, FamilyFacts
<1>6. s1 = WithFinished(s, F) /\ s3 = SetBest(s1, b4, b6)
  OBVIOUS
<1>new. s \in States /\ F \in [AllFamilies -> BOOLEAN]
  BY <1>1, <1>5
<1> HIDE DEF F, b4, b6, s1, s3
<1>7. SearchOnly(s, s1) /\ s1.sel.finished = F /\ s1.sel.timer = s.sel.timer
  BY <1>6, <1>new, SetFinished
<1>8. Sound(s1, broke)
  BY <1>5, <1>7, SearchSound
<1>9. /\ s1.gw = s.gw /\ s1.path = s.path /\ s1.ok = s.ok /\ s1.sel.current = s.sel.current
  BY <1>7 DEF SearchOnly
<1>10. /\ Sound(s3, broke) /\ SameBut(s1, s3)
       /\ IF b4 = None THEN s3.sel.current["v4"] = s.sel.current["v4"]
          ELSE s3.sel.current["v4"] \in {b4, None}
       /\ IF b6 = None THEN s3.sel.current["v6"] = s.sel.current["v6"]
          ELSE s3.sel.current["v6"] \in {b6, None}
  <2>1. MayUse(s1, b4, "v4") /\ MayUse(s1, b6, "v6")
    BY <1>3, <1>4, <1>9 DEF Valid, MayUse
  <2>2. /\ Sound(s3, broke) /\ SameBut(s1, s3)
        /\ Changed(s1, s3, b4, "v4") /\ Changed(s1, s3, b6, "v6")
    BY <1>6, <1>8, <2>1, SetBestOK
  <2> QED BY <1>9, <2>2 DEF Changed
<1>11. /\ s3.gw = s.gw /\ s3.path = s.path /\ s3.ok = s.ok /\ s3.sel.finished = F
       /\ s3.sel.timer = s.sel.timer /\ s3 \in States
  BY <1>7, <1>9, <1>10 DEF SameBut
<1>12. ASSUME NEW f \in AllFamilies, OutOfReach(s3, f)
       PROVE  OutOfReach(s, f) /\ ~s3.sel.finished[f]
  <2>0. s3.sel.current[f] # None /\ s3.path[s3.sel.current[f]] >= ROUTE_COST_BROKEN
    BY <1>12 DEF OutOfReach
  <2>1. CASE f = "v4"
    <3>1. b4 = None
      <4> SUFFICES ASSUME b4 # None PROVE FALSE
        OBVIOUS
      <4>1. s3.sel.current["v4"] = b4 /\ s.path[b4] < ROUTE_COST_BROKEN /\ s.path[b4] \in Nat
        BY <1>1, <1>3, <1>10, <2>0, <2>1, CostFacts DEF States
      <4> QED BY <1>11, <2>0, <2>1, <4>1, CostFacts
    <3>2. OutOfReach(s, f)
      BY <1>10, <1>11, <2>0, <2>1, <3>1 DEF OutOfReach
    <3> QED BY <1>5, <1>11, <2>1, <3>1, <3>2 DEF Unfinished
  <2>2. CASE f = "v6"
    <3>1. b6 = None
      <4> SUFFICES ASSUME b6 # None PROVE FALSE
        OBVIOUS
      <4>1. s3.sel.current["v6"] = b6 /\ s.path[b6] < ROUTE_COST_BROKEN /\ s.path[b6] \in Nat
        BY <1>1, <1>4, <1>10, <2>0, <2>2, CostFacts DEF States
      <4> QED BY <1>11, <2>0, <2>2, <4>1, CostFacts
    <3>2. OutOfReach(s, f)
      BY <1>10, <1>11, <2>0, <2>2, <3>1 DEF OutOfReach
    <3> QED BY <1>5, <1>11, <2>2, <3>1, <3>2 DEF Unfinished
  <2> QED BY <2>1, <2>2, FamilyFacts
<1>13. CASE ~Finished(s3)
  <2>1. u = s3
    BY <1>2, <1>13
  <2> QED BY <1>10, <1>11, <1>12, <2>1 DEF Searched, Unfinished
<1>14. CASE Finished(s3)
  <2>1. u = [s3 EXCEPT !.sel.timer = FALSE]
    BY <1>2, <1>14
  <2>2. SearchOnly(s3, u) /\ u.sel.finished = s3.sel.finished
    BY <1>11, <2>1, StopTimer
  <2>3. Sound(u, broke)
    BY <1>5, <1>10, <1>11, <2>2, SearchSound
  <2>4. \A f \in AllFamilies : OutOfReach(u, f) => OutOfReach(s3, f)
    BY <2>2 DEF OutOfReach, SearchOnly
  <2>5. Finished(u)
    BY <1>14, <2>2 DEF Finished
  <2> QED BY <1>11, <1>12, <2>2, <2>3, <2>4, <2>5 DEF Searched, Unfinished, SearchOnly
<1> QED BY <1>13, <1>14

\* A search that starts anew for the families fs.
LEMMA LookupOK ==
    ASSUME NEW s, NEW broke \in BOOLEAN, Sound(s, broke), NEW fs \in SUBSET AllFamilies,
           \A f \in AllFamilies \ fs : OutOfReach(s, f) => ~s.sel.finished[f],
           NEW u, u = olsr_gw_default_lookup_gateway(s, fs)
    PROVE  Searched(s, u, broke)
<1> DEFINE F == [f \in AllFamilies |-> IF f \in fs THEN f \notin Families ELSE s.sel.finished[f]]
           s1 == WithFinished(s, F)
<1>1. s \in States /\ s.sel.finished \in [AllFamilies -> BOOLEAN]
      /\ \A f \in AllFamilies : /\ f \notin Families => s.sel.finished[f]
                                /\ s.sel.current[f] # None => f \in Families
  BY DEF Sound, States, Selections, EntriesOK
<1>2. u = IF Finished(s1) THEN s1 ELSE gw_default_choose_gateway(s1)
  BY DEF olsr_gw_default_lookup_gateway, WithFinished
<1>3. F \in [AllFamilies -> BOOLEAN] /\ s \in States /\ s1 = WithFinished(s, F)
  BY <1>1
<1>4. /\ \A f \in AllFamilies : f \notin Families => F[f]
      /\ \A f \in AllFamilies : OutOfReach(s, f) => ~F[f]
  BY <1>1 DEF OutOfReach
<1> HIDE DEF F, s1
<1>5. SearchOnly(s, s1) /\ s1.sel.finished = F /\ s1.sel.timer = s.sel.timer
  BY <1>3, SetFinished
<1>6. Sound(s1, broke)
  BY <1>4, <1>5, SearchSound
<1>7. \A f \in AllFamilies : OutOfReach(s1, f) => OutOfReach(s, f)
  BY <1>5 DEF OutOfReach, SearchOnly
<1>8. Unfinished(s1)
  BY <1>4, <1>5, <1>7 DEF Unfinished
<1>9. s1.gw = s.gw /\ s1.path = s.path /\ s1.ok = s.ok
  BY <1>5 DEF SearchOnly
<1>10. CASE Finished(s1)
  BY <1>2, <1>5, <1>6, <1>7, <1>8, <1>9, <1>10 DEF Searched
<1>11. CASE ~Finished(s1)
  <2>1. u = gw_default_choose_gateway(s1)
    BY <1>2, <1>11
  <2>2. Searched(s1, u, broke)
    BY <1>6, <1>8, <2>1, ChooseOK
  <2> QED BY <1>5, <1>7, <1>9, <2>2 DEF Searched
<1> QED BY <1>10, <1>11

\* A gateway that is out of reach is looked for by the timer.
Pursued(s) == \A f \in AllFamilies : OutOfReach(s, f) => s.sel.timer /\ ~s.sel.finished[f]

\* No entry has a number its gateway did not send.
Within(s, n) == \A g \in Gateways : s.gw[g].seqno <= n[g]

\* What holds before and after every handler.
Kept(s, broke, n) == Sound(s, broke) /\ Pursued(s) /\ Within(s, n)

LEMMA SearchedKept ==
    ASSUME NEW s, NEW u, NEW broke, NEW n, Searched(s, u, broke), Within(s, n),
           \A f \in AllFamilies : OutOfReach(s, f) => s.sel.timer
    PROVE  Kept(u, broke, n) /\ u.ok = s.ok /\ u.gw = s.gw
BY DEF Searched, Kept, Pursued, Within, Unfinished, Finished

LEMMA HandlersOK ==
    ASSUME NEW s, NEW broke \in BOOLEAN, NEW n, Kept(s, broke, n), NEW fs \in SUBSET AllFamilies,
           NEW u, u = IF fs = {} THEN s ELSE olsr_gw_default_lookup_gateway(s, fs)
    PROVE  Kept(u, broke, n) /\ u.ok = s.ok /\ u.gw = s.gw
<1>1. CASE fs = {}
  BY <1>1
<1>2. CASE fs # {}
  <2>1. u = olsr_gw_default_lookup_gateway(s, fs)
    BY <1>2
  <2>2. /\ Sound(s, broke) /\ Within(s, n)
        /\ \A f \in AllFamilies : OutOfReach(s, f) => s.sel.timer
        /\ \A f \in AllFamilies \ fs : OutOfReach(s, f) => ~s.sel.finished[f]
    BY DEF Kept, Pursued
  <2>3. Searched(s, u, broke)
    BY <2>1, <2>2, LookupOK
  <2> QED BY <2>2, <2>3, SearchedKept
<1> QED BY <1>1, <1>2

LEMMA UpdateHandlerOK ==
    ASSUME NEW s, NEW broke \in BOOLEAN, NEW n, Kept(s, broke, n), NEW g \in Gateways,
           NEW u, u = gw_default_update_handler(s, g)
    PROVE  Kept(u, broke, n) /\ u.ok = s.ok /\ u.gw = s.gw
<1> DEFINE fs == {f \in AllFamilies : s.sel.current[f] = g /\ ~Valid(s, g, f)}
<1>1. fs \in SUBSET AllFamilies /\ u = IF fs = {} THEN s ELSE olsr_gw_default_lookup_gateway(s, fs)
  BY DEF gw_default_update_handler
<1> HIDE DEF fs
<1> QED BY <1>1, HandlersOK

LEMMA DeleteHandlerOK ==
    ASSUME NEW s, NEW broke \in BOOLEAN, NEW n, Kept(s, broke, n), NEW g \in Gateways,
           NEW u, u = gw_default_delete_handler(s, g)
    PROVE  Kept(u, broke, n) /\ u.ok = s.ok /\ u.gw = s.gw
<1> DEFINE fs == {f \in AllFamilies : s.sel.current[f] = g}
<1>1. fs \in SUBSET AllFamilies /\ u = IF fs = {} THEN s ELSE olsr_gw_default_lookup_gateway(s, fs)
  BY DEF gw_default_delete_handler
<1> HIDE DEF fs
<1> QED BY <1>1, HandlersOK

LEMMA CountFacts ==
    ASSUME NEW s PROVE tc_count(s) \in 0 .. Cardinality(Gateways)
<1> DEFINE S == {g \in Gateways : s.path[g] # NoTc}
<1>1. IsFiniteSet(Gateways) /\ S \subseteq Gateways
  BY GatewayAssumption
<1> HIDE DEF S
<1>2. IsFiniteSet(S) /\ Cardinality(S) <= Cardinality(Gateways)
  BY <1>1, FS_Subset
<1>3. Cardinality(S) \in Nat /\ Cardinality(Gateways) \in Nat
  BY <1>1, <1>2, FS_CardinalityType
<1> QED BY <1>2, <1>3 DEF tc_count, S

\* The search by the timer starts.
LEMMA StartupOK ==
    ASSUME NEW s, NEW broke \in BOOLEAN, Sound(s, broke), NEW u, u = gw_default_startup_handler(s)
    PROVE  Sound(u, broke) /\ Pursued(u) /\ u.gw = s.gw /\ u.ok = s.ok
<1> DEFINE F == [f \in AllFamilies |-> f \notin Families]
           c == tc_count(s)
           sel1 == [[[[s.sel EXCEPT !.nodecount = c] EXCEPT !.stablecount = 0] EXCEPT !.finished = F]
                       EXCEPT !.timer = TRUE]
<1>1. s \in States /\ s.sel \in Selections /\ EntriesOK(s)
  BY DEF Sound, States
<1>2. u = [s EXCEPT !.sel = sel1]
  <2>1. u = [s EXCEPT !.sel.nodecount = c, !.sel.stablecount = 0, !.sel.finished = F, !.sel.timer = TRUE]
    BY DEF gw_default_startup_handler
  <2> DEFINE a1 == [s EXCEPT !.sel.nodecount = c]
             a2 == [a1 EXCEPT !.sel.stablecount = 0]
             a3 == [a2 EXCEPT !.sel.finished = F]
  <2>2. u = [a3 EXCEPT !.sel.timer = TRUE]
    BY <2>1
  <2>3. a1.sel = [s.sel EXCEPT !.nodecount = c]
    BY <1>1 DEF States
  <2>4. a2 = [s EXCEPT !.sel = [a1.sel EXCEPT !.stablecount = 0]]
    BY <1>1, <2>3 DEF States
  <2>5. a2.sel = [a1.sel EXCEPT !.stablecount = 0]
    BY <1>1, <2>4 DEF States
  <2>6. a3 = [s EXCEPT !.sel = [a2.sel EXCEPT !.finished = F]]
    <3> HIDE DEF a1, F
    <3>1. a3 = [a2 EXCEPT !.sel = [a2.sel EXCEPT !.finished = F]]
      OBVIOUS
    <3> HIDE DEF a2, a3
    <3> QED BY <3>1, <2>4, <2>5
  <2>7. a3.sel = [a2.sel EXCEPT !.finished = F]
    <3> HIDE DEF a2, a3, F
    <3> QED BY <1>1, <2>6 DEF States
  <2>8. u = [s EXCEPT !.sel = [a3.sel EXCEPT !.timer = TRUE]]
    <3> HIDE DEF a2, a3, F
    <3>1. u = [a3 EXCEPT !.sel = [a3.sel EXCEPT !.timer = TRUE]]
      BY <2>2
    <3> QED BY <3>1, <2>6, <2>7
  <2> HIDE DEF a1, a2, a3, F
  <2> QED BY <2>3, <2>5, <2>7, <2>8
<1>3. c \in 0 .. Cardinality(Gateways) /\ 0 \in 0 .. GW_DEFAULT_STABLE_COUNT
  BY CountFacts, GatewayAssumption
<1>4. F \in [AllFamilies -> BOOLEAN] /\ \A f \in AllFamilies : F[f] <=> f \notin Families
  OBVIOUS
<1> HIDE DEF F, c
<1>5. /\ sel1 \in Selections /\ sel1.finished = F /\ sel1.timer
      /\ sel1.current = s.sel.current /\ sel1.tunnel = s.sel.tunnel
  BY <1>1, <1>3, <1>4 DEF Selections
<1> HIDE DEF sel1
<1>6. SearchOnly(s, u) /\ u.sel = sel1
  BY <1>1, <1>2, <1>5 DEF SearchOnly, States
<1>7. Sound(u, broke)
  BY <1>4, <1>5, <1>6, SearchSound
<1>8. Pursued(u)
  BY <1>4, <1>5, <1>6, <1>7 DEF Pursued, OutOfReach, Sound, EntriesOK
<1> QED BY <1>6, <1>7, <1>8 DEF SearchOnly

LEMMA ChoosegwOK ==
    ASSUME NEW s, NEW broke \in BOOLEAN, NEW n, Sound(s, broke), Within(s, n),
           NEW fs \in SUBSET AllFamilies, \A f \in AllFamilies \ fs : ~OutOfReach(s, f),
           NEW u, u = gw_default_choosegw_handler(s, fs)
    PROVE  Kept(u, broke, n) /\ u.ok = s.ok
<1> DEFINE s1 == olsr_gw_default_lookup_gateway(s, fs)
<1>1. u = IF Finished(s1) THEN s1 ELSE gw_default_startup_handler(s1)
  BY DEF gw_default_choosegw_handler
<1>2. s1 = olsr_gw_default_lookup_gateway(s, fs)
  OBVIOUS
<1> HIDE DEF s1
<1>3. Searched(s, s1, broke)
  BY <1>2, LookupOK
<1>4. Sound(s1, broke) /\ Unfinished(s1) /\ s1.gw = s.gw /\ s1.ok = s.ok
  BY <1>3 DEF Searched
<1>5. CASE Finished(s1)
  BY <1>1, <1>4, <1>5 DEF Kept, Pursued, Unfinished, Finished, Within
<1>6. CASE ~Finished(s1)
  <2>1. u = gw_default_startup_handler(s1)
    BY <1>1, <1>6
  <2>2. Sound(u, broke) /\ Pursued(u) /\ u.gw = s1.gw /\ u.ok = s1.ok
    BY <1>4, <2>1, StartupOK
  <2> QED BY <1>4, <2>2 DEF Kept, Within
<1> QED BY <1>5, <1>6

-----------------------------------------------------------------------------
(* The table of gateways.                                                  *)

WithEntry(s, g, e) == [s EXCEPT !.gw[g] = e]

\* An entry that may stand in the table: it is not cleaned up while in use.
MayStand(s, g, e, n) ==
    /\ e \in Entries /\ e.seqno <= n[g]
    /\ e.cleanup_timer => e.flags = {}
    /\ (\E f \in AllFamilies : s.sel.current[f] = g) => e.known /\ ~e.cleanup_timer

LEMMA WithEntryOK ==
    ASSUME NEW s, NEW broke \in BOOLEAN, NEW n, Kept(s, broke, n), NEW g \in Gateways,
           NEW e, MayStand(s, g, e, n), NEW u, u = WithEntry(s, g, e)
    PROVE  /\ Kept(u, broke, n) /\ u.ok = s.ok /\ u.sel = s.sel
           /\ u.gw[g] = e
<1> DEFINE t == [s.gw EXCEPT ![g] = e]
<1>1. s \in States /\ s.gw \in [Gateways -> Entries] /\ e \in Entries
      /\ s.sel.current \in [AllFamilies -> Gateways \cup {None}]
  BY DEF Kept, Sound, States, Selections, MayStand
<1>2. u = [s EXCEPT !.gw = t]
  BY DEF WithEntry
<1>3. t \in [Gateways -> Entries] /\ t[g] = e /\ \A h \in Gateways : h # g => t[h] = s.gw[h]
  BY <1>1
<1> HIDE DEF t
<1>4. /\ u \in States /\ u.gw = t /\ u.sel = s.sel /\ u.usage = s.usage /\ u.route = s.route
      /\ u.path = s.path /\ u.down = s.down /\ u.ok = s.ok /\ u.null = s.null
  BY <1>1, <1>2, <1>3 DEF States
<1>5. TunnelsOK(u, broke)
  BY <1>4 DEF Kept, Sound, TunnelsOK, RouteOK, Uses
<1>6. EntriesOK(u)
  <2>1. \A h \in Gateways : u.gw[h].cleanup_timer => u.gw[h].flags = {}
    BY <1>3, <1>4 DEF Kept, Sound, EntriesOK, MayStand
  <2>2. ASSUME NEW f \in AllFamilies, u.sel.current[f] # None
        PROVE  /\ f \in Families /\ u.gw[u.sel.current[f]].known
               /\ ~u.gw[u.sel.current[f]].cleanup_timer
    <3>1. s.sel.current[f] = u.sel.current[f] /\ s.sel.current[f] \in Gateways
      BY <1>1, <1>4, <2>2
    <3> QED BY <1>3, <1>4, <2>2, <3>1 DEF Kept, Sound, EntriesOK, MayStand
  <2> QED BY <1>4, <2>1, <2>2 DEF Kept, Sound, EntriesOK
<1>7. Pursued(u)
  BY <1>4 DEF Kept, Pursued, OutOfReach
<1>8. Within(u, n)
  BY <1>3, <1>4 DEF Kept, Within, MayStand
<1> QED BY <1>4, <1>5, <1>6, <1>3, <1>7, <1>8 DEF Kept, Sound

LEMMA UpdateEntryOK ==
    ASSUME NEW s, NEW broke \in BOOLEAN, NEW n, Kept(s, broke, n), NEW g \in Gateways,
           NEW flags \in SUBSET (Families \cup {"nat"}), NEW k \in Nat, k <= n[g],
           NEW u, u = olsr_update_gateway_entry(s, g, flags, k)
    PROVE  Kept(u, broke, n) /\ u.ok = s.ok
<1> DEFINE e == [known |-> TRUE, flags |-> flags, seqno |-> k, cleanup_timer |-> FALSE]
           s1 == WithEntry(s, g, e)
<1>1. CASE s.gw[g].known /\ k <= s.gw[g].seqno
  BY <1>1 DEF olsr_update_gateway_entry
<1>2. CASE ~(s.gw[g].known /\ k <= s.gw[g].seqno)
  <2>1. u = gw_default_update_handler(s1, g) /\ s1 = WithEntry(s, g, e)
    BY <1>2 DEF olsr_update_gateway_entry, WithEntry
  <2>2. MayStand(s, g, e, n)
    BY DEF MayStand, Entries
  <2> HIDE DEF s1, e
  <2>3. Kept(s1, broke, n) /\ s1.ok = s.ok /\ s1.sel = s.sel /\ s1.gw[g] = e
    BY <2>1, <2>2, WithEntryOK
  <2>4. Kept(u, broke, n) /\ u.ok = s1.ok /\ u.gw = s1.gw
    BY <2>1, <2>3, UpdateHandlerOK
  <2> QED BY <2>3, <2>4
<1> QED BY <1>1, <1>2

\* No family but f changes its gateway.
OnlyFamily(s, u, f) == \A h \in AllFamilies : h # f => u.sel.current[h] = s.sel.current[h]

\* A family gives up gateway g.
LEMMA DropOK ==
    ASSUME NEW s, NEW broke \in BOOLEAN, NEW n, Kept(s, broke, n), NEW g \in Gateways,
           NEW f \in AllFamilies, NEW u, u = Drop(s, f, g)
    PROVE  /\ Kept(u, broke, n) /\ u.ok = s.ok /\ u.gw = s.gw
           /\ u.sel.current[f] # g /\ OnlyFamily(s, u, f)
<1>1. /\ s \in States /\ TunnelsOK(s, broke) /\ EntriesOK(s)
      /\ s.usage \in [Gateways -> Nat] /\ s.route \in [AllFamilies -> Gateways \cup {None}]
      /\ s.sel \in Selections
      /\ s.sel.current \in [AllFamilies -> Gateways \cup {None}]
      /\ s.sel.tunnel \in [AllFamilies -> Gateways \cup {None}] /\ s.down \subseteq Gateways
  BY DEF Kept, Sound, States, Selections
<1>2. CASE s.sel.current[f] # g
  BY <1>2 DEF Drop, OnlyFamily
<1>3. CASE s.sel.current[f] = g
  <2> DEFINE ro == [s.route EXCEPT ![f] = None]
             a == [s EXCEPT !.route = ro]
             b == olsr_os_del_ipip_tunnel(a, g)
  <2>1. u = [b EXCEPT !.sel.current[f] = None, !.sel.tunnel[f] = None]
    BY <1>3 DEF Drop
  <2>2. /\ a \in States /\ a.route = ro /\ a.usage = s.usage /\ a.sel = s.sel /\ a.down = s.down
        /\ a.gw = s.gw /\ a.path = s.path /\ a.ok = s.ok /\ a.null = s.null
        /\ ro \in [AllFamilies -> Gateways \cup {None}]
    <3>1. ro \in [AllFamilies -> Gateways \cup {None}]
      BY <1>1
    <3> HIDE DEF ro
    <3> QED BY <1>1, <3>1 DEF States
  <2>3. b = olsr_os_del_ipip_tunnel(a, g)
    OBVIOUS
  <2> HIDE DEF a, b
  <2>4. /\ SameBut(a, b) /\ b.sel = a.sel
        /\ b.usage = [a.usage EXCEPT ![g] = IF @ = 0 THEN 0 ELSE @ - 1]
        /\ a.usage[g] # 1 => b.route = a.route /\ b.down = a.down
        /\ a.usage[g] = 1 => b.route = Without(a.route, g) /\ b.down = a.down \ {g}
    BY <2>2, <2>3, DelTunnel
  <2> DEFINE cu == [s.sel.current EXCEPT ![f] = None]
             tu == [s.sel.tunnel EXCEPT ![f] = None]
             sel1 == [[s.sel EXCEPT !.current = cu] EXCEPT !.tunnel = tu]
  <2>5. u = [b EXCEPT !.sel = sel1]
    <3>1. b \in States /\ b.sel = s.sel /\ b.sel \in Selections
      BY <1>1, <2>2, <2>4 DEF SameBut
    <3> DEFINE d == [b EXCEPT !.sel.current[f] = None]
    <3>2. d = [b EXCEPT !.sel = [s.sel EXCEPT !.current = cu]]
      BY <3>1
    <3>3. d.sel = [s.sel EXCEPT !.current = cu]
      BY <3>1, <3>2 DEF States
    <3>4. d.sel.tunnel = s.sel.tunnel
      BY <1>1, <3>3 DEF Selections
    <3>5. u = [d EXCEPT !.sel = [d.sel EXCEPT !.tunnel = [d.sel.tunnel EXCEPT ![f] = None]]]
      BY <2>1
    <3> HIDE DEF d
    <3> QED BY <3>2, <3>3, <3>4, <3>5
  <2>6. cu \in [AllFamilies -> Gateways \cup {None}] /\ tu \in [AllFamilies -> Gateways \cup {None}]
    BY <1>1
  <2>7. cu = tu /\ cu[f] = None /\ \A h \in AllFamilies : h # f => cu[h] = s.sel.current[h]
    BY <1>1 DEF TunnelsOK
  <2> HIDE DEF cu, tu
  <2>8. /\ sel1 \in Selections /\ sel1.current = cu /\ sel1.tunnel = tu
        /\ sel1.finished = s.sel.finished /\ sel1.timer = s.sel.timer
    BY <1>1, <2>6 DEF Selections
  <2> HIDE DEF sel1
  <2>9. /\ u \in States /\ u.sel = sel1 /\ u.usage = b.usage /\ u.route = b.route /\ u.down = b.down
        /\ u.gw = s.gw /\ u.path = s.path /\ u.ok = s.ok /\ u.null = s.null
    BY <2>2, <2>4, <2>5, <2>8 DEF States, SameBut
  <2>10. PICK h \in AllFamilies : h # f /\ {f, h} = {"v4", "v6"} /\ AllFamilies = {f, h}
    BY FamilyFacts DEF AllFamilies
  <2>11. (f = "v4" /\ h = "v6") \/ (f = "v6" /\ h = "v4")
    BY <2>10
  <2>12. \A x \in Gateways : s.usage[x] = Uses(s, f, x) + Uses(s, h, x)
    BY <1>1, <2>11 DEF TunnelsOK, Uses
  <2>13. u.sel.current = cu /\ u.sel.tunnel = cu
    BY <2>7, <2>8, <2>9
  <2>14. g # None /\ s.usage[g] \in Nat \ {0} /\ (s.usage[g] = 1 <=> s.sel.current[h] # g)
    BY <1>1, <1>3, <2>12, FamilyFacts DEF Uses
  <2>15. u.usage = [s.usage EXCEPT ![g] = @ - 1]
    BY <1>1, <2>2, <2>4, <2>9, <2>14
  <2>16. ASSUME NEW x \in Gateways PROVE u.usage[x] = Uses(u, "v4", x) + Uses(u, "v6", x)
    <3>1. /\ Uses(u, h, x) = Uses(s, h, x) /\ Uses(u, f, x) = 0 /\ Uses(s, h, x) \in Nat
          /\ Uses(s, f, x) = (IF x = g THEN 1 ELSE 0)
      BY <1>3, <2>7, <2>10, <2>13, FamilyFacts DEF Uses
    <3>2. u.usage[x] = s.usage[x] - (IF x = g THEN 1 ELSE 0)
      BY <1>1, <2>15
    <3>3. u.usage[x] = Uses(u, f, x) + Uses(u, h, x)
      BY <2>12, <3>1, <3>2
    <3> QED BY <2>11, <3>1, <3>3
  <2>17. /\ s.usage[g] # 1 => u.route = ro /\ u.down = s.down
         /\ s.usage[g] = 1 => u.route = Without(ro, g) /\ u.down = s.down \ {g}
    BY <2>2, <2>4, <2>9
  <2>18. ASSUME NEW x \in u.down PROVE u.usage[x] > 0
    <3>1. x \in s.down /\ x \in Gateways /\ s.usage[x] > 0
      BY <1>1, <2>17, <2>14 DEF TunnelsOK
    <3> QED BY <1>1, <2>14, <2>15, <2>17, <3>1
  <2>19. ASSUME NEW i \in AllFamilies PROVE u.route[i] \notin u.down /\ RouteOK(u, broke, i)
    <3>1. ro[f] = None /\ ro[h] = s.route[h]
      BY <1>1, <2>10
    <3>2. s.route[h] \notin s.down /\ RouteOK(s, broke, h) /\ None \notin s.down
      BY <1>1, FamilyFacts DEF TunnelsOK
    <3>3. CASE i = f
      <4>1. u.route[f] = None
        BY <2>17, <3>1 DEF Without
      <4> QED BY <2>7, <2>13, <2>17, <3>2, <3>3, <4>1 DEF RouteOK
    <3>4. CASE i = h
      <4>1. u.sel.current[h] = s.sel.current[h]
        BY <2>7, <2>10, <2>13
      <4>2. CASE s.usage[g] # 1
        <5>1. u.route[h] = s.route[h] /\ u.down = s.down /\ s.sel.current[h] = g
          BY <2>14, <2>17, <3>1, <4>2
        <5> QED BY <2>14, <3>2, <3>4, <4>1, <5>1 DEF RouteOK
      <4>3. CASE s.usage[g] = 1
        <5>1. /\ u.route[h] = (IF s.route[h] = g THEN None ELSE s.route[h])
              /\ u.down = s.down \ {g} /\ s.sel.current[h] # g
          BY <2>14, <2>17, <3>1, <4>3 DEF Without
        <5>2. s.route[h] \in Gateways /\ s.route[h] # g => u.usage[s.route[h]] = s.usage[s.route[h]]
          BY <1>1, <2>15
        <5>3. CASE s.sel.current[h] = None
          BY <1>1, <2>9, <3>2, <3>4, <4>1, <5>1, <5>2, <5>3 DEF RouteOK
        <5>4. CASE s.sel.current[h] # None
          BY <1>1, <2>14, <3>2, <3>4, <4>1, <5>1, <5>4 DEF RouteOK
        <5> QED BY <5>3, <5>4
      <4> QED BY <4>2, <4>3
    <3> QED BY <2>10, <3>3, <3>4
  <2>20. TunnelsOK(u, broke)
    BY <2>13, <2>16, <2>18, <2>19 DEF TunnelsOK
  <2>21. EntriesOK(u)
    BY <1>1, <2>7, <2>8, <2>9, <2>13 DEF EntriesOK
  <2>22. Pursued(u)
    BY <2>7, <2>8, <2>9, <2>13 DEF Kept, Pursued, OutOfReach
  <2>23. Within(u, n)
    BY <2>9 DEF Kept, Within
  <2> QED BY <2>7, <2>9, <2>13, <2>14, <2>20, <2>21, <2>22, <2>23 DEF Kept, Sound, OnlyFamily
<1> QED BY <1>2, <1>3

LEMMA DropAllOK ==
    ASSUME NEW s, NEW broke \in BOOLEAN, NEW n, Kept(s, broke, n), NEW g \in Gateways,
           NEW u, u = DropAll(s, g)
    PROVE  /\ Kept(u, broke, n) /\ u.ok = s.ok /\ u.gw = s.gw
           /\ \A f \in AllFamilies : u.sel.current[f] # g
<1> DEFINE s1 == Drop(s, "v4", g)
<1>1. u = Drop(s1, "v6", g) /\ s1 = Drop(s, "v4", g) /\ "v4" \in AllFamilies /\ "v6" \in AllFamilies
  BY FamilyFacts DEF DropAll
<1> HIDE DEF s1
<1>2. /\ Kept(s1, broke, n) /\ s1.ok = s.ok /\ s1.gw = s.gw /\ s1.sel.current["v4"] # g
  BY <1>1, DropOK
<1>3. /\ Kept(u, broke, n) /\ u.ok = s1.ok /\ u.gw = s1.gw /\ u.sel.current["v6"] # g
      /\ OnlyFamily(s1, u, "v6")
  BY <1>1, <1>2, DropOK
<1> QED BY <1>2, <1>3, FamilyFacts DEF OnlyFamily

LEMMA DeleteEntryOK ==
    ASSUME NEW s, NEW broke \in BOOLEAN, NEW n, Kept(s, broke, n), NEW g \in Gateways, NEW fs,
           NEW u, u = olsr_delete_gateway_entry(s, g, fs)
    PROVE  /\ Kept(u, broke, n) /\ u.ok = s.ok
           /\ fs = AllFamilies => \A f \in AllFamilies : u.sel.current[f] # g
<1> DEFINE entry == s.gw[g]
           flags == entry.flags \ (fs \cup (IF "v4" \in fs THEN {"nat"} ELSE {}))
           gone  == fs = AllFamilies \/ Uplinks(flags) = {}
           left  == IF gone THEN {} ELSE flags
           e     == [entry EXCEPT !.flags = left]
           s1    == WithEntry(s, g, e)
           idle  == ~entry.known \/ (entry.cleanup_timer /\ Uplinks(entry.flags) = {})
<1>1. /\ s \in States /\ EntriesOK(s) /\ entry \in Entries /\ entry.seqno <= n[g]
      /\ s.sel.current \in [AllFamilies -> Gateways \cup {None}]
  BY DEF Kept, Sound, States, Selections, Within
<1>2. [s EXCEPT !.gw[g].flags = left] = s1
  BY DEF WithEntry
<1>3. left \in SUBSET (Families \cup {"nat"}) /\ (entry.flags = {} => left = {})
  BY <1>1 DEF Entries
<1>4. CASE idle
  <2>1. u = s
    BY <1>4 DEF olsr_delete_gateway_entry
  <2>2. ASSUME NEW f \in AllFamilies, s.sel.current[f] = g PROVE FALSE
    BY <1>1, <1>4, <2>2, FamilyFacts DEF EntriesOK
  <2> QED BY <2>1, <2>2
<1>5. CASE ~idle
  <2>1. /\ e \in Entries /\ e.flags = left /\ e.known = entry.known /\ e.seqno = entry.seqno
        /\ e.cleanup_timer = entry.cleanup_timer
    <3> HIDE DEF left, entry
    <3> QED BY <1>1, <1>3 DEF Entries
  <2>2. MayStand(s, g, e, n) /\ s1 = WithEntry(s, g, e)
    <3>1. entry.cleanup_timer => entry.flags = {}
      BY <1>1 DEF EntriesOK
    <3>2. (\E f \in AllFamilies : s.sel.current[f] = g) => entry.known /\ ~entry.cleanup_timer
      BY <1>1, FamilyFacts DEF EntriesOK
    <3> HIDE DEF entry, e, left
    <3> QED BY <1>1, <1>3, <2>1, <3>1, <3>2 DEF MayStand, s1
  <2>3. CASE gone
    <3> DEFINE s2 == gw_default_delete_handler(s1, g)
               s3 == DropAll(s2, g)
               e3 == [s3.gw[g] EXCEPT !.cleanup_timer = TRUE]
    <3>1. u = [s3 EXCEPT !.gw[g].cleanup_timer = TRUE]
      BY <1>2, <1>5, <2>3 DEF olsr_delete_gateway_entry
    <3>2. u = WithEntry(s3, g, e3)
      <4> HIDE DEF s3
      <4> QED BY <3>1 DEF WithEntry
    <3>3. left = {}
      BY <2>3
    <3>4. s2 = gw_default_delete_handler(s1, g) /\ s3 = DropAll(s2, g)
      OBVIOUS
    <3> HIDE DEF s1, s2, s3, e, entry, left, gone, idle
    <3>5. Kept(s1, broke, n) /\ s1.ok = s.ok /\ s1.sel = s.sel /\ s1.gw[g] = e
      BY <2>2, WithEntryOK
    <3>6. Kept(s2, broke, n) /\ s2.ok = s1.ok /\ s2.gw = s1.gw
      BY <3>4, <3>5, DeleteHandlerOK
    <3>7. /\ Kept(s3, broke, n) /\ s3.ok = s2.ok /\ s3.gw = s2.gw
          /\ \A f \in AllFamilies : s3.sel.current[f] # g
      BY <3>4, <3>6, DropAllOK
    <3>8. MayStand(s3, g, e3, n)
      <4>1. s3.gw[g] = e
        BY <3>5, <3>6, <3>7
      <4>2. e3 \in Entries /\ e3.flags = {} /\ e3.seqno = entry.seqno
        BY <2>1, <3>3, <4>1 DEF Entries
      <4> HIDE DEF e3
      <4> QED BY <1>1, <3>7, <4>2 DEF MayStand
    <3> HIDE DEF e3
    <3>9. Kept(u, broke, n) /\ u.ok = s3.ok /\ u.sel = s3.sel /\ u.gw[g] = e3
      BY <3>2, <3>7, <3>8, WithEntryOK
    <3> QED BY <3>5, <3>6, <3>7, <3>9
  <2>4. CASE ~gone
    <3>1. u = gw_default_update_handler(s1, g) \/ u = s1
      BY <1>2, <1>5, <2>4 DEF olsr_delete_gateway_entry
    <3>2. fs # AllFamilies
      BY <2>4
    <3> HIDE DEF s1, e, entry, left, gone, idle
    <3>3. Kept(s1, broke, n) /\ s1.ok = s.ok /\ s1.sel = s.sel /\ s1.gw[g] = e
      BY <2>2, WithEntryOK
    <3>4. CASE u = gw_default_update_handler(s1, g)
      <4>1. Kept(u, broke, n) /\ u.ok = s1.ok /\ u.gw = s1.gw
        BY <3>3, <3>4, UpdateHandlerOK
      <4> QED BY <3>2, <3>3, <4>1
    <3> QED BY <3>1, <3>2, <3>3, <3>4
  <2> QED BY <2>3, <2>4
<1> QED BY <1>4, <1>5

-----------------------------------------------------------------------------
(* Path costs.                                                             *)

WithPath(s, g, c) == [s EXCEPT !.path[g] = c]

OnlyPath(s, u, g, c) == u.path[g] = c /\ \A h \in Gateways : h # g => u.path[h] = s.path[h]

LEMMA NewPathsOK ==
    ASSUME NEW s, NEW broke \in BOOLEAN, NEW n, Sound(s, broke), Within(s, n),
           NEW p \in [Gateways -> Paths], NEW u, u = [s EXCEPT !.path = p]
    PROVE  /\ Sound(u, broke) /\ Within(u, n) /\ u.ok = s.ok /\ u.sel = s.sel /\ u.path = p
<1>1. s \in States
  BY DEF Sound
<1>2. /\ u \in States /\ u.path = p /\ u.sel = s.sel /\ u.usage = s.usage /\ u.route = s.route
      /\ u.gw = s.gw /\ u.down = s.down /\ u.ok = s.ok /\ u.null = s.null
  BY <1>1 DEF States
<1>3. TunnelsOK(u, broke)
  BY <1>2 DEF Sound, TunnelsOK, RouteOK, Uses
<1>4. EntriesOK(u)
  BY <1>2 DEF Sound, EntriesOK
<1> QED BY <1>2, <1>3, <1>4 DEF Sound, Within

LEMMA WithPathOK ==
    ASSUME NEW s, NEW broke \in BOOLEAN, NEW n, Sound(s, broke), Within(s, n), NEW g \in Gateways,
           NEW c \in Paths, NEW u, u = WithPath(s, g, c)
    PROVE  /\ Sound(u, broke) /\ Within(u, n) /\ u.ok = s.ok /\ u.sel = s.sel
           /\ OnlyPath(s, u, g, c)
<1> DEFINE p == [s.path EXCEPT ![g] = c]
<1>1. s \in States /\ s.path \in [Gateways -> Paths]
  BY DEF Sound, States
<1>2. u = [s EXCEPT !.path = p]
  BY DEF WithPath
<1>3. p \in [Gateways -> Paths] /\ p[g] = c /\ \A h \in Gateways : h # g => p[h] = s.path[h]
  BY <1>1
<1> HIDE DEF p
<1>4. Sound(u, broke) /\ Within(u, n) /\ u.ok = s.ok /\ u.sel = s.sel /\ u.path = p
  BY <1>2, <1>3, NewPathsOK
<1> QED BY <1>3, <1>4 DEF OnlyPath

\* An HNA is received: the handler of olsr_input_hna.
HnaReceived(s, g, flags, k) ==
    [olsr_update_gateway_entry(s, g, flags, k) EXCEPT
        !.path[g] = IF @ = NoTc THEN NewCost ELSE @]

LEMMA InputHnaOK ==
    ASSUME NEW s, NEW broke \in BOOLEAN, NEW n, Kept(s, broke, n), NEW g \in Gateways,
           NEW flags \in SUBSET (Families \cup {"nat"}), NEW k \in Nat, k <= n[g],
           NEW u, u = HnaReceived(s, g, flags, k)
    PROVE  Kept(u, broke, n) /\ u.ok = s.ok
<1> DEFINE s1 == olsr_update_gateway_entry(s, g, flags, k)
           c == IF s1.path[g] = NoTc THEN NewCost ELSE s1.path[g]
<1>1. s1 = olsr_update_gateway_entry(s, g, flags, k) /\ u = WithPath(s1, g, c)
  BY DEF WithPath, HnaReceived
<1> HIDE DEF s1
<1>2. Kept(s1, broke, n) /\ s1.ok = s.ok
  BY <1>1, UpdateEntryOK
<1>3. /\ Sound(s1, broke) /\ Within(s1, n) /\ Pursued(s1) /\ s1.path \in [Gateways -> Paths]
      /\ s1.sel.current \in [AllFamilies -> Gateways \cup {None}]
  BY <1>2 DEF Kept, Sound, States, Selections
<1>4. c \in Paths /\ (c >= ROUTE_COST_BROKEN => s1.path[g] >= ROUTE_COST_BROKEN)
  BY <1>3, CostFacts DEF Paths
<1> HIDE DEF c
<1>5. /\ Sound(u, broke) /\ Within(u, n) /\ u.ok = s1.ok /\ u.sel = s1.sel
      /\ OnlyPath(s1, u, g, c)
  <2>1. Sound(s1, broke) /\ Within(s1, n) /\ c \in Paths /\ u = WithPath(s1, g, c)
    BY <1>1, <1>3, <1>4
  <2> QED BY <2>1, WithPathOK
<1>6. ASSUME NEW f \in AllFamilies, OutOfReach(u, f) PROVE OutOfReach(s1, f)
  <2>1. u.sel.current[f] = s1.sel.current[f] /\ s1.sel.current[f] \in Gateways
    BY <1>3, <1>5, <1>6 DEF OutOfReach
  <2> QED BY <1>4, <1>5, <1>6, <2>1 DEF OutOfReach, OnlyPath
<1>7. Pursued(u)
  BY <1>3, <1>5, <1>6 DEF Pursued
<1> QED BY <1>2, <1>5, <1>7 DEF Kept

\* A tc entry goes, and the gateway with it: the handler of olsr_delete_tc_entry.
TcDeleted(s, g) == [olsr_delete_gateway_entry(s, g, AllFamilies) EXCEPT !.path[g] = NoTc]

LEMMA DeleteTcOK ==
    ASSUME NEW s, NEW broke \in BOOLEAN, NEW n, Kept(s, broke, n), NEW g \in Gateways,
           NEW u, u = TcDeleted(s, g)
    PROVE  Kept(u, broke, n) /\ u.ok = s.ok
<1> DEFINE s1 == olsr_delete_gateway_entry(s, g, AllFamilies)
<1>1. s1 = olsr_delete_gateway_entry(s, g, AllFamilies) /\ u = WithPath(s1, g, NoTc)
  BY DEF WithPath, TcDeleted
<1> HIDE DEF s1
<1>2. Kept(s1, broke, n) /\ s1.ok = s.ok /\ \A f \in AllFamilies : s1.sel.current[f] # g
  BY <1>1, DeleteEntryOK
<1>3. /\ Sound(s1, broke) /\ Within(s1, n) /\ Pursued(s1) /\ NoTc \in Paths
      /\ s1.sel.current \in [AllFamilies -> Gateways \cup {None}]
  BY <1>2 DEF Kept, Sound, States, Selections, Paths
<1>5. /\ Sound(u, broke) /\ Within(u, n) /\ u.ok = s1.ok /\ u.sel = s1.sel
      /\ OnlyPath(s1, u, g, NoTc)
  BY <1>1, <1>3, WithPathOK
<1>6. ASSUME NEW f \in AllFamilies, OutOfReach(u, f) PROVE OutOfReach(s1, f)
  <2>1. /\ u.sel.current[f] = s1.sel.current[f] /\ s1.sel.current[f] \in Gateways
        /\ s1.sel.current[f] # g
    BY <1>2, <1>3, <1>5, <1>6 DEF OutOfReach
  <2> QED BY <1>5, <1>6, <2>1 DEF OutOfReach, OnlyPath
<1>7. Pursued(u)
  BY <1>3, <1>5, <1>6 DEF Pursued
<1> QED BY <1>2, <1>5, <1>7 DEF Kept

\* The SPF run: the handler of olsr_calculate_routing_table.
LEMMA SpfOK ==
    ASSUME NEW s, NEW broke \in BOOLEAN, NEW n, Kept(s, broke, n),
           NEW costs \in [Gateways -> Costs \cup {ROUTE_COST_BROKEN}],
           NEW s1, s1 = Computed(s, costs),
           NEW u, u = IF Lost(s1) = {} THEN s1 ELSE gw_default_choosegw_handler(s1, Lost(s1))
    PROVE  Kept(u, broke, n) /\ u.ok = s.ok
<1> DEFINE p == [g \in Gateways |-> IF s.path[g] = NoTc THEN NoTc ELSE costs[g]]
<1>1. /\ Sound(s, broke) /\ Within(s, n) /\ p \in [Gateways -> Paths]
      /\ s1 = [s EXCEPT !.path = p]
  BY DEF Kept, Paths, Computed
<1> HIDE DEF p
<1>2. Sound(s1, broke) /\ Within(s1, n) /\ s1.ok = s.ok
  BY <1>1, NewPathsOK
<1>3. Lost(s1) \in SUBSET AllFamilies /\ \A f \in AllFamilies \ Lost(s1) : ~OutOfReach(s1, f)
  BY DEF Lost, OutOfReach
<1>4. CASE Lost(s1) = {}
  BY <1>2, <1>3, <1>4 DEF Kept, Pursued
<1>5. CASE Lost(s1) # {}
  <2>1. u = gw_default_choosegw_handler(s1, Lost(s1))
    BY <1>5
  <2>2. Kept(u, broke, n) /\ u.ok = s1.ok
    BY <1>2, <1>3, <2>1, ChoosegwOK
  <2> QED BY <1>2, <2>2
<1> QED BY <1>4, <1>5

\* The timer: the counts change, and gateways may be chosen.
WithCounts(s, c, d) == [s EXCEPT !.sel.nodecount = c, !.sel.stablecount = d]

LEMMA TimerOK ==
    ASSUME NEW s, NEW broke \in BOOLEAN, NEW n, Kept(s, broke, n),
           NEW c \in 0 .. Cardinality(Gateways), NEW d \in 0 .. GW_DEFAULT_STABLE_COUNT,
           NEW s1, s1 = WithCounts(s, c, d), NEW u, u = s1 \/ u = gw_default_choose_gateway(s1)
    PROVE  Kept(u, broke, n) /\ u.ok = s.ok
<1> DEFINE sel1 == [[s.sel EXCEPT !.nodecount = c] EXCEPT !.stablecount = d]
<1>1. s \in States /\ s.sel \in Selections /\ Sound(s, broke) /\ EntriesOK(s)
  BY DEF Kept, Sound, States
<1>2. s1 = [s EXCEPT !.sel = sel1]
  <2> DEFINE a == [s EXCEPT !.sel.nodecount = c]
  <2>1. a = [s EXCEPT !.sel = [s.sel EXCEPT !.nodecount = c]]
    OBVIOUS
  <2>2. a.sel = [s.sel EXCEPT !.nodecount = c]
    BY <1>1, <2>1 DEF States
  <2>3. s1 = [a EXCEPT !.sel = [a.sel EXCEPT !.stablecount = d]]
    BY DEF WithCounts
  <2> HIDE DEF a
  <2> QED BY <2>1, <2>2, <2>3
<1>3. /\ sel1 \in Selections /\ sel1.finished = s.sel.finished /\ sel1.timer = s.sel.timer
      /\ sel1.current = s.sel.current /\ sel1.tunnel = s.sel.tunnel
  BY <1>1 DEF Selections
<1> HIDE DEF sel1
<1>4. SearchOnly(s, s1) /\ s1.sel = sel1
  BY <1>1, <1>2, <1>3 DEF SearchOnly, States
<1>5. Sound(s1, broke)
  BY <1>1, <1>3, <1>4, SearchSound DEF EntriesOK
<1>6. Kept(s1, broke, n) /\ s1.ok = s.ok
  BY <1>3, <1>4, <1>5 DEF Kept, Pursued, OutOfReach, Within, SearchOnly
<1>7. CASE u = gw_default_choose_gateway(s1)
  <2>1. Unfinished(s1) /\ Within(s1, n) /\ \A f \in AllFamilies : OutOfReach(s1, f) => s1.sel.timer
    BY <1>6 DEF Kept, Pursued, Unfinished
  <2>2. Searched(s1, u, broke)
    BY <1>5, <1>7, <2>1, ChooseOK
  <2>3. Kept(u, broke, n) /\ u.ok = s1.ok /\ u.gw = s1.gw
    BY <2>1, <2>2, SearchedKept
  <2> QED BY <1>6, <2>3
<1> QED BY <1>6, <1>7

-----------------------------------------------------------------------------
(* Steps.                                                                  *)

\* u is the state s seen from another step: refusals are remembered.
SeenAgain(s, u, broke, broke2) ==
    /\ u \in States
    /\ u.gw = s.gw /\ u.usage = s.usage /\ u.route = s.route /\ u.path = s.path /\ u.down = s.down
    /\ u.sel.current = s.sel.current /\ u.sel.tunnel = s.sel.tunnel
    /\ u.sel.finished = s.sel.finished /\ u.sel.timer = s.sel.timer
    /\ ~u.null
    /\ broke \/ ~s.ok => broke2 \/ ~u.ok

LEMMA SeenAgainOK ==
    ASSUME NEW s, NEW u, NEW broke \in BOOLEAN, NEW broke2 \in BOOLEAN, NEW n, Kept(s, broke, n),
           SeenAgain(s, u, broke, broke2)
    PROVE  Kept(u, broke2, n)
<1>1. TunnelsOK(u, broke2)
  BY DEF Kept, Sound, TunnelsOK, RouteOK, Uses, SeenAgain
<1>2. EntriesOK(u)
  BY DEF Kept, Sound, EntriesOK, SeenAgain
<1>3. Pursued(u) /\ Within(u, n)
  BY DEF Kept, Pursued, OutOfReach, Within, SeenAgain
<1> QED BY <1>1, <1>2, <1>3 DEF Kept, Sound, SeenAgain

LEMMA StateFacts ==
    ASSUME NEW ok \in BOOLEAN
    PROVE  /\ State(ok).gw = gw /\ State(ok).sel = sel /\ State(ok).usage = usage
           /\ State(ok).route = route /\ State(ok).path = path /\ State(ok).down = down
           /\ State(ok).ok = ok /\ State(ok).null = FALSE
           /\ State(ok) \in States <=>
                 /\ gw \in [Gateways -> Entries] /\ sel \in Selections /\ usage \in [Gateways -> Nat]
                 /\ route \in [AllFamilies -> Gateways \cup {None}] /\ path \in [Gateways -> Paths]
                 /\ down \in SUBSET Gateways
BY DEF State, States

\* The state of a step that may meet refusals.
LEMMA StartOK ==
    ASSUME NEW broke \in BOOLEAN, NEW n, Kept(State(TRUE), broke, n), NEW ok \in BOOLEAN
    PROVE  Kept(State(ok), broke, n) /\ State(ok).ok = ok
<1>1. State(TRUE) \in States
  BY DEF Kept, Sound
<1>2. SeenAgain(State(TRUE), State(ok), broke, broke)
  BY <1>1, StateFacts DEF SeenAgain
<1> DEFINE s == State(TRUE)
           u == State(ok)
<1>3. Kept(u, broke, n)
  <2>1. Kept(s, broke, n) /\ SeenAgain(s, u, broke, broke)
    BY <1>2
  <2> HIDE DEF s, u
  <2> QED BY <2>1, SeenAgainOK
<1> QED BY <1>3, StateFacts

\* A step that ends with the outcome of a handler.
LEMMA HandleOK ==
    ASSUME NEW n, NEW outcome, failures \in Nat, Handle(outcome),
           \A ok \in BOOLEAN : Kept(outcome[ok], failures > 0, n) /\ outcome[ok].ok = ok
    PROVE  Kept(State(TRUE)', failures' > 0, n) /\ failures' \in Nat /\ ~sel'.null
<1>1. PICK ok \in BOOLEAN : /\ Become(outcome[ok])
                            /\ failures' = IF ok THEN failures ELSE failures + 1
  BY DEF Handle
<1> DEFINE s == outcome[ok]
           v == State(TRUE)'
           sel1 == [s.sel EXCEPT !.null = s.null]
<1>2. Kept(s, failures > 0, n) /\ s.ok = ok /\ s \in States /\ s.sel \in Selections /\ s.null = FALSE
  BY <1>1 DEF Kept, Sound, States, EntriesOK
<1>3. /\ sel1 \in Selections /\ sel1.finished = s.sel.finished /\ sel1.timer = s.sel.timer
      /\ sel1.current = s.sel.current /\ sel1.tunnel = s.sel.tunnel /\ sel1.null = FALSE
  BY <1>2 DEF Selections
<1>4. /\ gw' = s.gw /\ usage' = s.usage /\ route' = s.route /\ path' = s.path /\ down' = s.down
      /\ sel' = sel1
  BY <1>1 DEF Become
<1>5. v = [gw |-> s.gw, sel |-> sel1, usage |-> s.usage, route |-> s.route, path |-> s.path,
           down |-> s.down, ok |-> TRUE, null |-> FALSE]
  BY <1>4 DEF State
<1>6. failures' \in Nat /\ (failures > 0) \in BOOLEAN /\ (failures' > 0) \in BOOLEAN
      /\ (failures > 0 \/ ~s.ok => failures' > 0)
  <2>1. s.ok = ok /\ failures' = IF ok THEN failures ELSE failures + 1
    BY <1>1, <1>2
  <2> HIDE DEF s
  <2>2. CASE ok
    BY <2>1, <2>2
  <2>3. CASE ~ok
    BY <2>1, <2>3
  <2> QED BY <2>2, <2>3
<1> HIDE DEF s, v, sel1
<1>7. SeenAgain(s, v, failures > 0, failures' > 0)
  BY <1>2, <1>3, <1>5, <1>6 DEF SeenAgain, States
<1> DEFINE broke == failures > 0
           broke2 == failures' > 0
<1>8. Kept(v, broke2, n)
  <2>1. /\ broke \in BOOLEAN /\ broke2 \in BOOLEAN /\ Kept(s, broke, n)
        /\ SeenAgain(s, v, broke, broke2)
    BY <1>2, <1>6, <1>7
  <2> HIDE DEF broke, broke2
  <2> QED BY <2>1, SeenAgainOK
<1> QED BY <1>3, <1>4, <1>6, <1>8 DEF v

\* How many HNAs every gateway has sent.
Sent == [g \in Gateways |-> Len(announced[g])]

\* The inductive invariant.
GatewayInv ==
    /\ Kept(State(TRUE), failures > 0, Sent)
    /\ failures \in Nat
    /\ ~sel.null
    /\ hna \subseteq Gateways \X Families
    /\ announced \in [Gateways -> Seq(SUBSET (Families \cup {"nat"}))]

LEMMA InitGateway == Init => GatewayInv
<1> SUFFICES ASSUME Init PROVE GatewayInv
  OBVIOUS
<1> DEFINE s == State(TRUE)
<1>1. /\ s.gw = [g \in Gateways |-> Free] /\ s.usage = [g \in Gateways |-> 0]
      /\ s.route = [f \in AllFamilies |-> None] /\ s.path = [g \in Gateways |-> NoTc] /\ s.down = {}
      /\ s.null = FALSE
      /\ s.sel = [current |-> [f \in AllFamilies |-> None], tunnel |-> [f \in AllFamilies |-> None],
                  finished |-> [f \in AllFamilies |-> f \notin Families],
                  timer |-> TRUE, nodecount |-> 0, stablecount |-> 0, null |-> FALSE]
  BY StateFacts DEF Init
<1>2. 0 \in 0 .. Cardinality(Gateways) /\ 0 \in 0 .. GW_DEFAULT_STABLE_COUNT
  <2>1. Cardinality(Gateways) \in Nat
    BY GatewayAssumption, FS_CardinalityType
  <2> QED BY <2>1, GatewayAssumption
<1>3. Free \in Entries /\ NoTc \in Paths
  BY DEF Free, Entries, Paths
<1>4. s \in States
  <2>1. sel \in Selections
    BY <1>2 DEF Init, Selections
  <2>2. /\ gw \in [Gateways -> Entries] /\ usage \in [Gateways -> Nat]
        /\ route \in [AllFamilies -> Gateways \cup {None}] /\ path \in [Gateways -> Paths]
        /\ down \in SUBSET Gateways
    BY <1>3 DEF Init
  <2> QED BY <2>1, <2>2, StateFacts
<1> HIDE DEF s
<1>5. TunnelsOK(s, failures > 0)
  BY <1>1, FamilyFacts DEF TunnelsOK, RouteOK, Uses
<1>6. EntriesOK(s)
  <2>1. \A g \in Gateways : s.gw[g].cleanup_timer = FALSE
    BY <1>1 DEF Free
  <2>2. /\ \A f \in AllFamilies : s.sel.current[f] = None
        /\ \A f \in AllFamilies : f \notin Families => s.sel.finished[f]
    <3>1. /\ s.sel.current = [f \in AllFamilies |-> None]
          /\ s.sel.finished = [f \in AllFamilies |-> f \notin Families]
      BY <1>1
    <3> QED BY <3>1
  <2> QED BY <1>1, <2>1, <2>2 DEF EntriesOK
<1>7. Pursued(s)
  BY <1>1 DEF Pursued, OutOfReach
<1>8. announced \in [Gateways -> Seq(SUBSET (Families \cup {"nat"}))]
  BY DEF Init
<1>9. Within(s, Sent)
  BY <1>1 DEF Within, Sent, Free, Init
<1> QED BY <1>4, <1>5, <1>6, <1>7, <1>8, <1>9 DEF GatewayInv, Kept, Sound, Init, s

\* The interface of a tunnel goes down or comes up again.
InterfaceChange(s, u, g) ==
    /\ u \in States /\ u.gw = s.gw /\ u.sel = s.sel /\ u.usage = s.usage /\ u.path = s.path
    /\ u.ok = s.ok /\ u.null = s.null
    /\ \/ /\ s.usage[g] > 0 /\ g \notin s.down
          /\ u.down = s.down \cup {g} /\ u.route = Without(s.route, g)
       \/ /\ g \in s.down /\ u.down = s.down \ {g}
          /\ u.route = [f \in AllFamilies |->
                           IF s.sel.current[f] # None /\ s.sel.tunnel[f] = g THEN g ELSE s.route[f]]

LEMMA InterfaceOK ==
    ASSUME NEW s, NEW broke \in BOOLEAN, NEW n, Kept(s, broke, n), NEW g \in Gateways,
           NEW u, InterfaceChange(s, u, g)
    PROVE  Kept(u, broke, n)
<1> USE DEF InterfaceChange
<1>1. /\ TunnelsOK(s, broke) /\ EntriesOK(s) /\ s.down \subseteq Gateways /\ None \notin Gateways
      /\ s.route \in [AllFamilies -> Gateways \cup {None}]
      /\ s.sel.current \in [AllFamilies -> Gateways \cup {None}]
      /\ s.sel.tunnel = s.sel.current
  BY FamilyFacts DEF Kept, Sound, States, Selections, TunnelsOK
<1>2. EntriesOK(u) /\ Pursued(u) /\ Within(u, n)
  BY DEF Kept, Sound, EntriesOK, Pursued, OutOfReach, Within
<1>3. \A x \in Gateways : u.usage[x] = Uses(u, "v4", x) + Uses(u, "v6", x)
  BY <1>1 DEF TunnelsOK, Uses
<1>4. \A x \in u.down : u.usage[x] > 0
  BY <1>1 DEF TunnelsOK
<1>5. ASSUME NEW f \in AllFamilies PROVE u.route[f] \notin u.down /\ RouteOK(u, broke, f)
  <2>1. s.route[f] \notin s.down /\ RouteOK(s, broke, f)
    BY <1>1 DEF TunnelsOK
  <2>2. CASE g \notin s.down
    <3>1. u.route[f] = (IF s.route[f] = g THEN None ELSE s.route[f]) /\ u.down = s.down \cup {g}
      BY <2>2 DEF Without
    <3>2. u.route[f] \notin u.down
      BY <1>1, <2>1, <3>1
    <3>3. CASE s.sel.current[f] = None
      BY <2>1, <3>1, <3>2, <3>3 DEF RouteOK
    <3>4. CASE s.sel.current[f] # None
      BY <2>1, <2>2, <3>1, <3>2, <3>4 DEF RouteOK
    <3> QED BY <3>2, <3>3, <3>4
  <2>3. CASE g \in s.down
    <3>1. /\ u.route[f] = (IF s.sel.current[f] # None /\ s.sel.current[f] = g THEN g ELSE s.route[f])
          /\ u.down = s.down \ {g}
      BY <1>1, <2>3
    <3>2. CASE s.sel.current[f] = None
      BY <2>1, <3>1, <3>2 DEF RouteOK
    <3>3. CASE s.sel.current[f] # None
      BY <1>1, <2>1, <2>3, <3>1, <3>3 DEF RouteOK
    <3> QED BY <3>2, <3>3
  <2> QED BY <2>2, <2>3
<1>6. TunnelsOK(u, broke)
  BY <1>1, <1>3, <1>4, <1>5 DEF TunnelsOK
<1> QED BY <1>2, <1>6 DEF Kept, Sound

\* Every step of a handler that is given a state that is kept ends in one.
LEMMA HandledStep ==
    ASSUME GatewayInv, NEW outcome, Handle(outcome), UNCHANGED announced,
           hna' \subseteq Gateways \X Families,
           \A ok \in BOOLEAN : Kept(outcome[ok], failures > 0, Sent) /\ outcome[ok].ok = ok
    PROVE  GatewayInv'
<1>1. failures \in Nat /\ Sent' = Sent
  BY DEF GatewayInv, Sent
<1> HIDE DEF Sent
<1>2. Kept(State(TRUE)', failures' > 0, Sent) /\ failures' \in Nat /\ ~sel'.null
  BY <1>1, HandleOK
<1>3. Kept(State(TRUE), failures > 0, Sent)'
  BY <1>1, <1>2
<1> QED BY <1>2, <1>3 DEF GatewayInv

\* What a handler is given.
LEMMA Given ==
    ASSUME GatewayInv, NEW ok \in BOOLEAN
    PROVE  /\ Kept(State(ok), failures > 0, Sent) /\ State(ok).ok = ok
           /\ (failures > 0) \in BOOLEAN
<1>1. (failures > 0) \in BOOLEAN /\ Kept(State(TRUE), failures > 0, Sent)
  <2>1. failures \in Nat /\ Kept(State(TRUE), failures > 0, Sent)
    BY DEF GatewayInv
  <2>2. (failures > 0) \in BOOLEAN
    BY <2>1
  <2> QED BY <2>1, <2>2
<1> DEFINE broke == failures > 0
<1>2. broke \in BOOLEAN /\ Kept(State(TRUE), broke, Sent)
  BY <1>1
<1> HIDE DEF broke
<1>3. Kept(State(ok), broke, Sent) /\ State(ok).ok = ok
  BY <1>2, StartOK
<1> QED BY <1>1, <1>3 DEF broke

LEMMA InputHnaStep ==
    ASSUME GatewayInv, NEW g \in Gateways, NEW k \in DOMAIN announced[g], olsr_input_hna(g, k)
    PROVE  GatewayInv'
<1> DEFINE flags == announced[g][k]
           fs    == IF Uplinks(flags) = {} THEN Families ELSE Uplinks(flags)
           out   == [ok \in BOOLEAN |-> HnaReceived(State(ok), g, flags, k)]
           broke == failures > 0
<1>1. Handle(out) /\ UNCHANGED announced /\ hna' = hna \cup ({g} \X fs)
  BY DEF olsr_input_hna, HnaReceived
<1>2. announced[g] \in Seq(SUBSET (Families \cup {"nat"}))
  BY DEF GatewayInv
<1>3. flags \in SUBSET (Families \cup {"nat"}) /\ k \in Nat /\ k <= Sent[g]
  BY <1>2 DEF Sent
<1>4. fs \subseteq Families
  BY <1>3, FamilyFacts DEF Uplinks, AllFamilies
<1>5. hna' \subseteq Gateways \X Families
  BY <1>1, <1>4 DEF GatewayInv
<1>6. ASSUME NEW ok \in BOOLEAN PROVE Kept(out[ok], broke, Sent) /\ out[ok].ok = ok
  <2> DEFINE s == State(ok)
             u == HnaReceived(s, g, flags, k)
  <2>1. Kept(s, broke, Sent) /\ s.ok = ok /\ broke \in BOOLEAN
    BY Given
  <2>2. u = HnaReceived(s, g, flags, k)
    OBVIOUS
  <2>3. out[ok] = u
    OBVIOUS
  <2> HIDE DEF s, u, broke, flags, Sent, out
  <2>4. Kept(u, broke, Sent) /\ u.ok = s.ok
    BY <1>3, <2>1, <2>2, InputHnaOK
  <2> QED BY <2>1, <2>3, <2>4
<1> HIDE DEF out
<1> QED BY <1>1, <1>5, <1>6, HandledStep

LEMMA ExpireHnaStep ==
    ASSUME GatewayInv, NEW g \in Gateways, NEW f \in Families, olsr_expire_hna_net_entry(g, f)
    PROVE  GatewayInv'
<1> DEFINE out   == [ok \in BOOLEAN |-> olsr_delete_gateway_entry(State(ok), g, {f})]
           broke == failures > 0
<1>1. Handle(out) /\ UNCHANGED announced /\ hna' = hna \ {<<g, f>>}
  BY DEF olsr_expire_hna_net_entry
<1>2. hna' \subseteq Gateways \X Families
  BY <1>1 DEF GatewayInv
<1>3. ASSUME NEW ok \in BOOLEAN PROVE Kept(out[ok], broke, Sent) /\ out[ok].ok = ok
  <2> DEFINE s == State(ok)
             u == olsr_delete_gateway_entry(s, g, {f})
  <2>1. Kept(s, broke, Sent) /\ s.ok = ok /\ broke \in BOOLEAN
    BY Given
  <2>2. u = olsr_delete_gateway_entry(s, g, {f}) /\ out[ok] = u
    OBVIOUS
  <2> HIDE DEF s, u, broke, out
  <2>3. Kept(u, broke, Sent) /\ u.ok = s.ok
    BY <2>1, <2>2, DeleteEntryOK
  <2> QED BY <2>1, <2>2, <2>3
<1> HIDE DEF out
<1> QED BY <1>1, <1>2, <1>3, HandledStep

LEMMA DeleteTcStep ==
    ASSUME GatewayInv, NEW g \in Gateways, olsr_delete_tc_entry(g)
    PROVE  GatewayInv'
<1> DEFINE out   == [ok \in BOOLEAN |-> TcDeleted(State(ok), g)]
           broke == failures > 0
<1>1. Handle(out) /\ UNCHANGED announced /\ hna' = hna
  BY DEF olsr_delete_tc_entry, TcDeleted
<1>2. hna' \subseteq Gateways \X Families
  BY <1>1 DEF GatewayInv
<1>3. ASSUME NEW ok \in BOOLEAN PROVE Kept(out[ok], broke, Sent) /\ out[ok].ok = ok
  <2> DEFINE s == State(ok)
             u == TcDeleted(s, g)
  <2>1. Kept(s, broke, Sent) /\ s.ok = ok /\ broke \in BOOLEAN
    BY Given
  <2>2. u = TcDeleted(s, g) /\ out[ok] = u
    OBVIOUS
  <2> HIDE DEF s, u, broke, out
  <2>3. Kept(u, broke, Sent) /\ u.ok = s.ok
    BY <2>1, <2>2, DeleteTcOK
  <2> QED BY <2>1, <2>2, <2>3
<1> HIDE DEF out
<1> QED BY <1>1, <1>2, <1>3, HandledStep

LEMMA SpfStep ==
    ASSUME GatewayInv, NEW costs \in [Gateways -> Costs \cup {ROUTE_COST_BROKEN}],
           olsr_calculate_routing_table(costs)
    PROVE  GatewayInv'
<1> DEFINE G(s1) == IF Lost(s1) = {} THEN s1 ELSE gw_default_choosegw_handler(s1, Lost(s1))
           H(s)  == G(Computed(s, costs))
           out   == [ok \in BOOLEAN |-> H(State(ok))]
           broke == failures > 0
<1>1. Handle(out) /\ UNCHANGED announced /\ hna' = hna
  BY DEF olsr_calculate_routing_table
<1>2. hna' \subseteq Gateways \X Families
  BY <1>1 DEF GatewayInv
<1>3. ASSUME NEW ok \in BOOLEAN PROVE Kept(out[ok], broke, Sent) /\ out[ok].ok = ok
  <2> DEFINE s == State(ok)
             s1 == Computed(s, costs)
             u == G(s1)
  <2>1. Kept(s, broke, Sent) /\ s.ok = ok /\ broke \in BOOLEAN
    BY Given
  <2>2. /\ u = IF Lost(s1) = {} THEN s1 ELSE gw_default_choosegw_handler(s1, Lost(s1))
        /\ s1 = Computed(s, costs)
    OBVIOUS
  <2>3. out[ok] = u
    OBVIOUS
  <2> HIDE DEF s, s1, u, broke, out
  <2>4. Kept(u, broke, Sent) /\ u.ok = s.ok
    BY <2>1, <2>2, SpfOK
  <2> QED BY <2>1, <2>3, <2>4
<1> HIDE DEF out
<1> QED BY <1>1, <1>2, <1>3, HandledStep

LEMMA TimerStep ==
    ASSUME GatewayInv, gw_default_timer
    PROVE  GatewayInv'
<1> DEFINE count     == tc_count(State(TRUE))
           nodecount == IF count * 10 <= sel.nodecount * 11 THEN count ELSE sel.nodecount
           stable    == IF count <= nodecount
                        THEN Min({sel.stablecount + 1, GW_DEFAULT_STABLE_COUNT}) ELSE 0
           c         == IF count <= nodecount THEN nodecount ELSE count
           G(s1)     == IF stable >= GW_DEFAULT_STABLE_COUNT THEN gw_default_choose_gateway(s1) ELSE s1
           H(s)      == G([s EXCEPT !.sel.nodecount = c, !.sel.stablecount = stable])
           out       == [ok \in BOOLEAN |-> H(State(ok))]
           broke     == failures > 0
<1>1. Handle(out) /\ UNCHANGED announced /\ hna' = hna
  BY DEF gw_default_timer
<1>2. hna' \subseteq Gateways \X Families
  BY <1>1 DEF GatewayInv
<1>3. sel \in Selections
  BY Given, StateFacts DEF Kept, Sound
<1>4. count \in 0 .. Cardinality(Gateways) /\ c \in 0 .. Cardinality(Gateways)
  <2>1. count \in 0 .. Cardinality(Gateways)
    BY CountFacts
  <2>2. sel.nodecount \in 0 .. Cardinality(Gateways)
    BY <1>3 DEF Selections
  <2>3. c \in {count, sel.nodecount}
    OBVIOUS
  <2> HIDE DEF count, c
  <2> QED BY <2>1, <2>2, <2>3
<1>5. stable \in 0 .. GW_DEFAULT_STABLE_COUNT
  <2>1. sel.stablecount \in 0 .. GW_DEFAULT_STABLE_COUNT /\ GW_DEFAULT_STABLE_COUNT \in Nat
    BY <1>3, GatewayAssumption DEF Selections
  <2>2. /\ Min({sel.stablecount + 1, GW_DEFAULT_STABLE_COUNT}) \in Nat
        /\ Min({sel.stablecount + 1, GW_DEFAULT_STABLE_COUNT}) <= GW_DEFAULT_STABLE_COUNT
    <3> DEFINE S == {sel.stablecount + 1, GW_DEFAULT_STABLE_COUNT}
    <3>1. S \in SUBSET Nat /\ S # {}
      BY <2>1
    <3>2. \E x \in S : \A y \in S : x <= y
      <4> HIDE DEF S
      <4> QED BY <3>1, LeastNumber
    <3>3. Min(S) \in S /\ \A y \in S : Min(S) <= y
      <4> HIDE DEF S
      <4> QED BY <3>2 DEF Min
    <3> QED BY <3>1, <3>3
  <2>3. stable \in {0, Min({sel.stablecount + 1, GW_DEFAULT_STABLE_COUNT})}
    OBVIOUS
  <2> DEFINE m == Min({sel.stablecount + 1, GW_DEFAULT_STABLE_COUNT})
  <2>4. stable \in {0, m} /\ m \in Nat /\ m <= GW_DEFAULT_STABLE_COUNT
    BY <2>2, <2>3
  <2> HIDE DEF stable, m
  <2> QED BY <2>1, <2>4
<1> HIDE DEF stable, c, count, nodecount
<1>6. ASSUME NEW ok \in BOOLEAN PROVE Kept(out[ok], broke, Sent) /\ out[ok].ok = ok
  <2> DEFINE s == State(ok)
             s1 == WithCounts(s, c, stable)
             u == G(s1)
  <2>1. Kept(s, broke, Sent) /\ s.ok = ok /\ broke \in BOOLEAN
    BY Given
  <2>2. (u = s1 \/ u = gw_default_choose_gateway(s1)) /\ s1 = WithCounts(s, c, stable)
    OBVIOUS
  <2>3. out[ok] = u
    BY DEF WithCounts
  <2> HIDE DEF s, s1, u, broke, out
  <2>4. Kept(u, broke, Sent) /\ u.ok = s.ok
    BY <1>4, <1>5, <2>1, <2>2, TimerOK
  <2> QED BY <2>1, <2>3, <2>4
<1> HIDE DEF out
<1> QED BY <1>1, <1>2, <1>6, HandledStep

LEMMA SendHnaStep ==
    ASSUME GatewayInv, NEW g \in Gateways, NEW flags \in Announcements, SendHna(g, flags)
    PROVE  GatewayInv'
<1>1. /\ announced \in [Gateways -> Seq(SUBSET (Families \cup {"nat"}))]
      /\ flags \in SUBSET (Families \cup {"nat"})
      /\ announced' = [announced EXCEPT ![g] = Append(@, flags)]
  BY GatewayAssumption DEF GatewayInv, SendHna
<1>2. /\ announced' \in [Gateways -> Seq(SUBSET (Families \cup {"nat"}))]
      /\ \A h \in Gateways : Sent[h] \in Nat /\ Sent'[h] \in Nat /\ Sent[h] <= Sent'[h]
  BY <1>1 DEF Sent
<1>3. State(TRUE)' = State(TRUE) /\ failures' = failures /\ hna' = hna
  BY DEF SendHna, State
<1>4. Kept(State(TRUE), failures > 0, Sent')
  <2> DEFINE s == State(TRUE)
             n == Sent
             m == Sent'
  <2>1. Sound(s, failures > 0) /\ Pursued(s) /\ Within(s, n) /\ s.gw \in [Gateways -> Entries]
    BY DEF GatewayInv, Kept, Sound, States
  <2>2. \A h \in Gateways : n[h] \in Nat /\ m[h] \in Nat /\ n[h] <= m[h]
    BY <1>2
  <2> HIDE DEF s, n, m
  <2>3. \A h \in Gateways : s.gw[h].seqno \in Nat
    BY <2>1 DEF Entries
  <2>4. Within(s, m)
    BY <2>1, <2>2, <2>3 DEF Within
  <2> QED BY <2>1, <2>4 DEF Kept, s, m
<1>5. Kept(State(TRUE), failures > 0, Sent)'
  BY <1>3, <1>4
<1>6. ~sel'.null
  BY DEF GatewayInv, SendHna
<1> QED BY <1>2, <1>3, <1>5, <1>6 DEF GatewayInv

\* Steps that call no handler.
LEMMA QuietStep ==
    ASSUME GatewayInv, UNCHANGED <<announced, failures, hna, sel>>,
           Kept(State(TRUE)', failures > 0, Sent)
    PROVE  GatewayInv'
<1>1. Sent' = Sent
  BY DEF Sent
<1>2. Kept(State(TRUE), failures > 0, Sent)'
  BY <1>1
<1> QED BY <1>2 DEF GatewayInv

\* A state, given by its parts.
Parts(t, sl, us, ro, pa, dn, ok, null) ==
    [gw |-> t, sel |-> sl, usage |-> us, route |-> ro, path |-> pa, down |-> dn, ok |-> ok, null |-> null]

LEMMA PartsGw ==
    ASSUME NEW t, NEW sl, NEW us, NEW ro, NEW pa, NEW dn, NEW ok, NEW null, NEW x
    PROVE  Parts(x, sl, us, ro, pa, dn, ok, null)
              = [Parts(t, sl, us, ro, pa, dn, ok, null) EXCEPT !.gw = x]
BY DEF Parts

LEMMA PartsPath ==
    ASSUME NEW t, NEW sl, NEW us, NEW ro, NEW pa, NEW dn, NEW ok, NEW null, NEW x
    PROVE  Parts(t, sl, us, ro, x, dn, ok, null)
              = [Parts(t, sl, us, ro, pa, dn, ok, null) EXCEPT !.path = x]
BY DEF Parts

LEMMA AddTcStep ==
    ASSUME GatewayInv, NEW g \in Gateways, olsr_add_tc_entry(g)
    PROVE  GatewayInv'
<1> DEFINE s == State(TRUE)
           v == State(TRUE)'
           broke == failures > 0
<1>1. Kept(s, broke, Sent) /\ broke \in BOOLEAN
  BY Given
<1>2. v = WithPath(s, g, NewCost) /\ s.path[g] = NoTc
  <2> DEFINE p == [path EXCEPT ![g] = NewCost]
  <2>1. s.path = path /\ path[g] = NoTc /\ v = [s EXCEPT !.path = p]
    <3>1. path' = p /\ path[g] = NoTc
      BY DEF olsr_add_tc_entry
    <3>2. s.path = path
      BY StateFacts
    <3> HIDE DEF p
    <3> DEFINE yes == TRUE
               no == FALSE
    <3>3. /\ s = Parts(gw, sel, usage, route, path, down, yes, no)
          /\ v = Parts(gw, sel, usage, route, p, down, yes, no)
      BY <3>1 DEF olsr_add_tc_entry, State, Parts
    <3> HIDE DEF s, v, yes, no
    <3>4. Parts(gw, sel, usage, route, p, down, yes, no)
            = [Parts(gw, sel, usage, route, path, down, yes, no) EXCEPT !.path = p]
      BY PartsPath
    <3> QED BY <3>1, <3>2, <3>3, <3>4
  <2> HIDE DEF s, v
  <2> QED BY <2>1 DEF WithPath
<1>3. UNCHANGED <<announced, failures, hna, sel>>
  BY DEF olsr_add_tc_entry
<1>4. Kept(v, broke, Sent)
  <2> HIDE DEF s, v, broke, Sent
  <2>1. Sound(s, broke) /\ Within(s, Sent) /\ NewCost \in Paths
    BY <1>1 DEF Kept, Paths
  <2>2. /\ Sound(v, broke) /\ Within(v, Sent) /\ v.ok = s.ok /\ v.sel = s.sel
        /\ OnlyPath(s, v, g, NewCost)
    BY <1>1, <1>2, <2>1, WithPathOK
  <2>3. s.sel.current \in [AllFamilies -> Gateways \cup {None}] /\ Pursued(s)
    BY <1>1 DEF Kept, Sound, States, Selections
  <2>4. ASSUME NEW f \in AllFamilies, OutOfReach(v, f) PROVE OutOfReach(s, f)
    <3>1. v.sel.current[f] = s.sel.current[f] /\ s.sel.current[f] \in Gateways
      BY <2>2, <2>3, <2>4 DEF OutOfReach
    <3> QED BY <1>2, <2>2, <2>4, <3>1, CostFacts DEF OutOfReach, OnlyPath
  <2> QED BY <2>2, <2>3, <2>4 DEF Kept, Pursued
<1> QED BY <1>3, <1>4, QuietStep

LEMMA CleanupStep ==
    ASSUME GatewayInv, NEW g \in Gateways, cleanup_gateway_handler(g)
    PROVE  GatewayInv'
<1> DEFINE s == State(TRUE)
           v == State(TRUE)'
           broke == failures > 0
<1>1. Kept(s, broke, Sent) /\ broke \in BOOLEAN
  BY Given
<1>2. v = WithEntry(s, g, Free) /\ s.gw[g].cleanup_timer
  <2> DEFINE t == [gw EXCEPT ![g] = Free]
  <2>1. s.gw = gw /\ gw[g].cleanup_timer /\ v = [s EXCEPT !.gw = t]
    <3>1. gw' = t /\ gw[g].cleanup_timer
      BY DEF cleanup_gateway_handler
    <3>2. s.gw = gw
      BY StateFacts
    <3> HIDE DEF t
    <3> DEFINE yes == TRUE
               no == FALSE
    <3>3. /\ s = Parts(gw, sel, usage, route, path, down, yes, no)
          /\ v = Parts(t, sel, usage, route, path, down, yes, no)
      BY <3>1 DEF cleanup_gateway_handler, State, Parts
    <3> HIDE DEF s, v, yes, no
    <3>4. Parts(t, sel, usage, route, path, down, yes, no)
            = [Parts(gw, sel, usage, route, path, down, yes, no) EXCEPT !.gw = t]
      BY PartsGw
    <3> QED BY <3>1, <3>2, <3>3, <3>4
  <2> HIDE DEF s, v
  <2> QED BY <2>1 DEF WithEntry
<1>3. UNCHANGED <<announced, failures, hna, sel>>
  BY DEF cleanup_gateway_handler
<1>4. Sent[g] \in Nat
  BY DEF GatewayInv, Sent
<1>5. Kept(v, broke, Sent)
  <2> HIDE DEF s, v, broke, Sent
  <2>1. ASSUME NEW f \in AllFamilies, s.sel.current[f] = g PROVE FALSE
    BY <1>1, <1>2, <2>1, FamilyFacts DEF Kept, Sound, EntriesOK
  <2>2. /\ Free \in Entries /\ Free.seqno = 0 /\ Free.flags = {}
    BY DEF Free, Entries
  <2>3. MayStand(s, g, Free, Sent)
    BY <1>4, <2>1, <2>2 DEF MayStand
  <2>4. Kept(v, broke, Sent) /\ v.ok = s.ok /\ v.sel = s.sel /\ v.gw[g] = Free
    BY <1>1, <1>2, <2>3, WithEntryOK
  <2> QED BY <2>4
<1> QED BY <1>3, <1>5, QuietStep

LEMMA InterfaceStep ==
    ASSUME GatewayInv, NEW g \in Gateways, TunnelDown(g) \/ smartgw_tunnel_monitor(g)
    PROVE  GatewayInv'
<1> DEFINE s == State(TRUE)
           v == State(TRUE)'
           broke == failures > 0
<1>1. Kept(s, broke, Sent) /\ broke \in BOOLEAN
  BY Given
<1>2. /\ v.gw = s.gw /\ v.sel = s.sel /\ v.usage = s.usage /\ v.path = s.path
      /\ v.ok = s.ok /\ v.null = s.null /\ v.down = down' /\ v.route = route'
      /\ s.down = down /\ s.route = route /\ s.usage = usage /\ s.sel = sel
      /\ v = [gw |-> gw, sel |-> sel, usage |-> usage, route |-> route', path |-> path,
              down |-> down', ok |-> TRUE, null |-> FALSE]
      /\ s.gw = gw /\ s.path = path
  <2>1. UNCHANGED <<gw, sel, usage, path>>
    BY DEF TunnelDown, smartgw_tunnel_monitor
  <2> QED BY <2>1 DEF State
<1>3. UNCHANGED <<announced, failures, hna, sel>>
  BY DEF TunnelDown, smartgw_tunnel_monitor
<1>4. \/ /\ s.usage[g] > 0 /\ g \notin s.down
         /\ v.down = s.down \cup {g} /\ v.route = Without(s.route, g)
      \/ /\ g \in s.down /\ v.down = s.down \ {g}
         /\ v.route = [f \in AllFamilies |->
                          IF s.sel.current[f] # None /\ s.sel.tunnel[f] = g THEN g ELSE s.route[f]]
  BY <1>2 DEF TunnelDown, smartgw_tunnel_monitor
<1> HIDE DEF s, v, broke, Sent
<1>5. s \in States /\ s.route \in [AllFamilies -> Gateways \cup {None}] /\ s.down \subseteq Gateways
  BY <1>1 DEF Kept, Sound, States
<1>6. down' \in SUBSET Gateways /\ route' \in [AllFamilies -> Gateways \cup {None}]
  BY <1>2, <1>4, <1>5 DEF Without
<1>7. v \in States
  BY <1>2, <1>5, <1>6 DEF States
<1>8. Kept(v, broke, Sent)
  <2>1. InterfaceChange(s, v, g)
    BY <1>2, <1>4, <1>7 DEF InterfaceChange
  <2> QED BY <1>1, <2>1, InterfaceOK
<1> QED BY <1>3, <1>8, QuietStep DEF v, broke

LEMMA StepGateway == GatewayInv /\ [Next]_vars => GatewayInv'
<1> SUFFICES ASSUME GatewayInv, [Next]_vars PROVE GatewayInv'
  OBVIOUS
<1>1. CASE UNCHANGED vars
  <2>1. State(TRUE)' = State(TRUE) /\ Sent' = Sent
    BY <1>1 DEF vars, State, Sent
  <2>2. Kept(State(TRUE), failures > 0, Sent)'
    BY <1>1, <2>1 DEF GatewayInv, vars
  <2> QED BY <1>1, <2>2 DEF GatewayInv, vars
<1>2. ASSUME NEW g \in Gateways, NEW flags \in Announcements, SendHna(g, flags) PROVE GatewayInv'
  BY <1>2, SendHnaStep
<1>3. ASSUME NEW g \in Gateways, NEW k \in DOMAIN announced[g], olsr_input_hna(g, k) PROVE GatewayInv'
  BY <1>3, InputHnaStep
<1>4. ASSUME NEW g \in Gateways, NEW f \in Families, olsr_expire_hna_net_entry(g, f) PROVE GatewayInv'
  BY <1>4, ExpireHnaStep
<1>5. ASSUME NEW g \in Gateways, olsr_add_tc_entry(g) PROVE GatewayInv'
  BY <1>5, AddTcStep
<1>6. ASSUME NEW g \in Gateways, olsr_delete_tc_entry(g) PROVE GatewayInv'
  BY <1>6, DeleteTcStep
<1>7. ASSUME NEW costs \in [Gateways -> Costs \cup {ROUTE_COST_BROKEN}],
             olsr_calculate_routing_table(costs)
      PROVE  GatewayInv'
  BY <1>7, SpfStep
<1>8. ASSUME NEW g \in Gateways, cleanup_gateway_handler(g) PROVE GatewayInv'
  BY <1>8, CleanupStep
<1>9. ASSUME NEW g \in Gateways, TunnelDown(g) \/ smartgw_tunnel_monitor(g) PROVE GatewayInv'
  BY <1>9, InterfaceStep
<1>10. CASE gw_default_timer
  BY <1>10, TimerStep
<1> QED BY <1>1, <1>2, <1>3, <1>4, <1>5, <1>6, <1>7, <1>8, <1>9, <1>10 DEF Next

\* The number of families that use a tunnel.
LEMMA UsersCounted ==
    ASSUME NEW s, NEW g
    PROVE  /\ Cardinality({f \in AllFamilies : s.sel.current[f] = g})
                = Uses(s, "v4", g) + Uses(s, "v6", g)
           /\ Cardinality(AllFamilies) = 2
<1> DEFINE U == {f \in AllFamilies : s.sel.current[f] = g}
<1>1. /\ Cardinality({}) = 0 /\ Cardinality({"v4"}) = 1 /\ Cardinality({"v6"}) = 1
      /\ IsFiniteSet({"v4"})
  BY FS_EmptySet, FS_Singleton
<1>2. Cardinality({"v4", "v6"}) = 2
  <2>1. {"v4", "v6"} = {"v4"} \cup {"v6"} /\ "v6" \notin {"v4"}
    OBVIOUS
  <2>2. Cardinality({"v4"} \cup {"v6"}) = Cardinality({"v4"}) + 1
    BY <1>1, <2>1, FS_AddElement
  <2> QED BY <1>1, <2>1, <2>2
<1>3. U \in {{}, {"v4"}, {"v6"}, {"v4", "v6"}}
      /\ ("v4" \in U <=> s.sel.current["v4"] = g) /\ ("v6" \in U <=> s.sel.current["v6"] = g)
  BY FamilyFacts DEF AllFamilies
<1> HIDE DEF U
<1>4. Cardinality(U) = (IF "v4" \in U THEN 1 ELSE 0) + (IF "v6" \in U THEN 1 ELSE 0)
  BY <1>1, <1>2, <1>3, FamilyFacts
<1> QED BY <1>2, <1>3, <1>4 DEF U, Uses, AllFamilies

LEMMA GatewayMeans == GatewayInv => TunnelsExact /\ NoDangling /\ LossPursued
<1> SUFFICES ASSUME GatewayInv PROVE TunnelsExact /\ NoDangling /\ LossPursued
  OBVIOUS
<1> DEFINE s == State(TRUE)
           broke == failures > 0
<1>1. Kept(s, broke, Sent) /\ broke \in BOOLEAN
  BY Given
<1>2. /\ s.gw = gw /\ s.sel = sel /\ s.usage = usage /\ s.route = route /\ s.path = path
      /\ s.down = down /\ s.ok = TRUE
  BY StateFacts
<1>3. \A g \in Gateways : Sent[g] = Len(announced[g])
  BY DEF Sent
<1> HIDE DEF s, Sent
<1>4. /\ s \in States /\ TunnelsOK(s, broke) /\ EntriesOK(s) /\ Pursued(s) /\ Within(s, Sent)
  BY <1>1 DEF Kept, Sound
<1>5. \A g \in Gateways : /\ usage[g] = Uses(s, "v4", g) + Uses(s, "v6", g)
                          /\ usage[g] = Cardinality({f \in AllFamilies : sel.current[f] = g})
                          /\ usage[g] \in 0 .. Cardinality(AllFamilies)
  <2> TAKE g \in Gateways
  <2>1. usage[g] = Uses(s, "v4", g) + Uses(s, "v6", g)
    BY <1>2, <1>4 DEF TunnelsOK
  <2>2. /\ Cardinality({f \in AllFamilies : s.sel.current[f] = g}) = Uses(s, "v4", g) + Uses(s, "v6", g)
        /\ Cardinality(AllFamilies) = 2
    BY UsersCounted
  <2>3. Uses(s, "v4", g) \in {0, 1} /\ Uses(s, "v6", g) \in {0, 1}
    BY DEF Uses
  <2> QED BY <1>2, <2>1, <2>2, <2>3
<1>6. TypeOK
  <2>1. /\ gw \in [Gateways -> Entries] /\ sel \in Selections /\ usage \in [Gateways -> Nat]
        /\ route \in [AllFamilies -> Gateways \cup {None}] /\ path \in [Gateways -> Paths]
    BY <1>2, <1>4 DEF States
  <2>2. \A g \in Gateways : gw[g].seqno <= Len(announced[g])
    BY <1>2, <1>3, <1>4 DEF Within
  <2>3. usage \in [Gateways -> 0 .. Cardinality(AllFamilies)]
    BY <1>5, <2>1
  <2>4. hna \subseteq Gateways \X Families
    BY DEF GatewayInv
  <2> QED BY <2>1, <2>2, <2>3, <2>4 DEF TypeOK, Entries, Selections, Paths
<1>7. TunnelsExact
  <2>1. sel.tunnel = sel.current /\ \A f \in AllFamilies : RouteOK(s, broke, f)
    BY <1>2, <1>4 DEF TunnelsOK
  <2>2. \A f \in AllFamilies :
            IF sel.current[f] = None
            THEN route[f] # None => failures > 0 /\ usage[route[f]] = 1
            ELSE route[f] = IF sel.current[f] \in down THEN None ELSE sel.current[f]
    BY <1>2, <2>1 DEF RouteOK
  <2> QED BY <1>5, <1>6, <2>1, <2>2 DEF TunnelsExact
<1>8. LossPursued
  BY <1>2, <1>4 DEF LossPursued, Pursued, OutOfReach
<1>9. NoDangling
  <2>1. \A f \in AllFamilies : sel.current[f] # None => gw[sel.current[f]].known
    BY <1>2, <1>4 DEF EntriesOK
  <2> QED BY <2>1 DEF NoDangling, GatewayInv
<1> QED BY <1>7, <1>8, <1>9

-----------------------------------------------------------------------------
(* The theorems.                                                           *)

\* Types; users of tunnels are counted exactly and routes lead into the tunnel of
\* the selected gateway, whatever fails, goes down or is withdrawn (gateway.c
\* olsr_set_inet_gateway, linux/kernel_tunnel.c).
THEOREM TunnelsAlwaysExact == Spec => []TunnelsExact
<1>1. GatewayInv => TunnelsExact
  BY GatewayMeans
<1> QED BY <1>1, InitGateway, StepGateway, PTL DEF Spec

\* A selected gateway has an entry, and no null gateway is used (gateway.c
\* cleanup_gateway_handler, olsr_set_inet_gateway).
THEOREM NeverDangling == Spec => []NoDangling
<1>1. GatewayInv => NoDangling
  BY GatewayMeans
<1> QED BY <1>1, InitGateway, StepGateway, PTL DEF Spec

\* While a gateway is selected that the last SPF run found out of reach, the
\* timer that replaces it runs (gateway.c olsr_trigger_gatewayloss_check).
THEOREM LossAlwaysPursued == Spec => []LossPursued
<1>1. GatewayInv => LossPursued
  BY GatewayMeans
<1> QED BY <1>1, InitGateway, StepGateway, PTL DEF Spec
=============================================================================
