-------------------------------- MODULE Routes --------------------------------
(***************************************************************************)
(* From the tables to the kernel: olsr_process_changes (olsr.c), the SPF    *)
(* run and its backoff timer (olsr_spf.c), the routing table               *)
(* (routing_table.c), and the kernel routes (process_routes.c), with an    *)
(* environment that changes links, topology and networks, takes interfaces *)
(* down, and a kernel that may refuse a route.                              *)
(*                                                                          *)
(* The SPF run itself is olsr_spf_run_full, a recursive function over its   *)
(* passes.  A run is atomic: the daemon has one thread.  The link state     *)
(* database is reduced to what the run reads of it; TcSet models its own    *)
(* rules.                                                                   *)
(***************************************************************************)
EXTENDS Integers, FiniteSets, Sequences

CONSTANTS
    Nodes, myself,      \* main addresses, naturals
    Ifaces,             \* our interfaces
    Wires,              \* possible links: records nbr, inter, gw (the address
                        \* of the neighbour's interface)
    Adverts,            \* TC contents: <<originator, neighbour -> cost>>
    Hnas,               \* <<originator, network>> pairs that may be announced
    Default,            \* the network with prefix length 0
    Costs,              \* link costs
    LINK_COST_BROKEN, ROUTE_COST_BROKEN,
    LqLevels, FibMetrics, IpVersions, \* configurations: LinkQualityLevel,
                        \* FIBMetric and IpVersion
    NAT_NUM, NAT_DEN,   \* lq_nat_thresh as a fraction
    Faults,             \* what may go wrong: "refuse" (the kernel refuses a
                        \* request), an interface is set down, which is told at
                        \* once ("prompt") or "late", or loses its "carrier"
    MAX_EVENTS,         \* bound: changes of the environment
    None

ASSUME RoutesAssumption ==
    /\ Nodes \subseteq Nat /\ IsFiniteSet(Nodes) /\ myself \in Nodes /\ Default \notin Nodes
    /\ \A w \in Wires : w.nbr \in Nodes \ {myself} /\ w.inter \in Ifaces
    /\ None \notin Nodes /\ None \notin Ifaces /\ None \notin Wires
    /\ \A a \in Adverts : a[1] \in Nodes \ {myself} /\ \A n \in DOMAIN a[2] : a[2][n] \in Costs
    /\ \A h \in Hnas : h[1] \in Nodes
    /\ 0 \in LqLevels => \A v, w \in Wires : v.nbr = w.nbr => v = w
    /\ \A c \in Costs : c \in 1..(LINK_COST_BROKEN - 1)
    /\ LINK_COST_BROKEN \in Nat \ {0} /\ ROUTE_COST_BROKEN \in Nat
    /\ LINK_COST_BROKEN * Cardinality(Nodes) < ROUTE_COST_BROKEN
    /\ LqLevels \subseteq 0..2 /\ FibMetrics \subseteq {"flat", "correct", "approx"}
    /\ IpVersions \subseteq {4, 6}
    /\ Faults \subseteq {"none", "refuse", "prompt", "late", "carrier"}
    /\ NAT_DEN \in Nat /\ NAT_NUM \in 1..NAT_DEN

VARIABLES
    cnf,                \* lq_level, fib_metric, ip_version, and the fault of
                        \* this behaviour
    linkcost,           \* wire -> cost of its symmetric link, Asym or NoLink
    edge,               \* <<a, b>> -> cost of the edge, or NoEdge
    prefix_tree,        \* the <<originator, prefix>> pairs with a rt_path
    rib,                \* those in the RIB -> nh, hops, cost
    routingtree,        \* prefix -> its rt_entry: best, and nh, hops of the FIB
    current_inetgw,     \* originator of the default route in use, or None
    changes,            \* changes_neighborhood, _topology or _hna
    spf_backoff_timer,  \* is it running?
    configured,         \* the interfaces the daemon uses
    running,            \* FALSE after olsr_shutdown
    kernel,             \* prefix -> the routes the kernel has, nh and metric
    ifstate,            \* interface -> "up", "carrier" (lost it) or "down"
    refused,            \* history: did the kernel refuse a request in the last
                        \* update?
    stray,              \* history: prefix -> routes the heads have lost sight of
    events

dbVars == <<linkcost, edge, prefix_tree>>
ribVars == <<rib, routingtree, current_inetgw>>
envVars == <<kernel, ifstate, refused, stray>>
vars == <<cnf, dbVars, ribVars, changes, spf_backoff_timer, configured, running,
          envVars, events>>

NoEdge == -1
NoLink == -1
Asym == -2
NoHop == [gw |-> None, inter |-> None]      \* iif_index -1: never installed
RT_METRIC_DEFAULT == 2

Dsts == (Nodes \ {myself}) \cup {h[2] : h \in Hnas}
Pairs == Nodes \X Nodes

Init ==
    /\ cnf \in [lq_level : LqLevels, fib_metric : FibMetrics, ip_version : IpVersions,
                fault : Faults]
    /\ linkcost = [w \in Wires |-> NoLink]
    /\ edge = [e \in Pairs |-> NoEdge]
    /\ prefix_tree = {<<myself, myself>>}
    /\ rib = << >>
    /\ routingtree = << >>
    /\ current_inetgw = None
    /\ changes = FALSE
    /\ spf_backoff_timer = FALSE
    /\ configured = Ifaces
    /\ running = TRUE
    /\ kernel = [p \in Dsts |-> {}]
    /\ ifstate = [i \in Ifaces |-> "up"]
    /\ refused = FALSE
    /\ stray = [p \in Dsts |-> {}]
    /\ events = 0
-----------------------------------------------------------------------------
(* olsr_spf.c                                                              *)

LinksTo(n) == {w \in Wires : w.nbr = n /\ linkcost[w] # NoLink}
SymLinksTo(n) == {w \in LinksTo(n) : linkcost[w] # Asym}

\* The neighbour of an asymmetric link reports no quality for it, so it costs
\* LINK_COST_BROKEN and is never the best.  (A link whose symmetry timer ran out
\* keeps its last cost for a while; such a one beside a costlier symmetric link
\* to the same neighbour is not modelled.)  Without link quality the interface
\* metrics and the order of the link list decide; a neighbour has one link then.
get_best_link_to_neighbor(n) ==
    CHOOSE w \in SymLinksTo(n) : \A v \in SymLinksTo(n) : linkcost[w] <= linkcost[v]

\* Without link quality all edges cost 0.
EdgeCost(c) == IF cnf.lq_level = 0 THEN 0 ELSE c

\* The edge to a neighbour as the run leaves it.  A new one has no link
\* quality yet: it is broken until the next run copies that of the link.
MyEdge(n) ==
    IF LinksTo(n) = {} THEN edge[<<myself, n>>]
    ELSE IF SymLinksTo(n) = {} THEN NoEdge
    ELSE IF edge[<<myself, n>>] = NoEdge THEN EdgeCost(LINK_COST_BROKEN)
    ELSE EdgeCost(linkcost[get_best_link_to_neighbor(n)])

RunEdges == [e \in Pairs |-> IF e[1] = myself THEN MyEdge(e[2]) ELSE edge[e]]

\* The order of the candidate tree: by cost, and equals as they came in, pass by
\* pass and within one in the order of the edges, which is that of addresses.
Ahead(s, n, m) ==
    \/ s.cost[n] < s.cost[m]
    \/ /\ s.cost[n] = s.cost[m]
       /\ \/ s.since[n] < s.since[m]
          \/ s.since[n] = s.since[m] /\ n < m

olsr_spf_extract_best(s) ==
    CHOOSE n \in s.cand : \A m \in s.cand \ {n} : Ahead(s, n, m)

\* Mutant: an edge that only one end advertises is used.
MutantUsable(e, a, b) == e[<<a, b>>] \notin {NoEdge, LINK_COST_BROKEN}

\* An edge with an inverse that is not broken.
Usable(e, a, b) ==
    e[<<a, b>>] \notin {NoEdge, LINK_COST_BROKEN} /\ e[<<b, a>>] # NoEdge

\* The nodes to which an edge of a leads at a lower cost.  None of these is a
\* itself, for no cost is negative, so the edges do not depend on each other.
Better(e, s, a) ==
    {b \in Nodes : Usable(e, a, b) /\ s.cost[a] + e[<<a, b>>] < s.cost[b]}

\* The edges of a, explored in pass k: s is the state of the run.
olsr_spf_relax(e, s, a, k) ==
    LET better == Better(e, s, a)
    IN  [cost  |-> [n \in Nodes |-> IF n \in better THEN s.cost[a] + e[<<a, n>>] ELSE s.cost[n]],
         cand  |-> s.cand \cup better,
         since |-> [n \in Nodes |-> IF n \in better THEN k ELSE s.since[n]],
         hop   |-> [n \in Nodes |-> IF n \in better /\ s.hop[a] # None THEN s.hop[a] ELSE s.hop[n]],
         hops  |-> [n \in Nodes |-> IF n \in better THEN s.hops[a] + 1 ELSE s.hops[n]]]

\* One pass of olsr_spf_run_full: the best candidate explores its edges and
\* leaves the tree.
SpfPass(e, s, k) ==
    IF s.cand = {} THEN s
    ELSE LET a == olsr_spf_extract_best(s)
             r == olsr_spf_relax(e, s, a, k)
         IN  [r EXCEPT !.cand = r.cand \ {a}]

\* The run starts with ourselves, and every neighbour its own next hop.
SpfStart(e) ==
    [cost |-> [n \in Nodes |-> IF n = myself THEN 0 ELSE ROUTE_COST_BROKEN],
     cand |-> {myself},
     since |-> [n \in Nodes |-> 0],
     hop  |-> [n \in Nodes |->
                 IF SymLinksTo(n) # {} /\ e[<<n, myself>>] # NoEdge
                 THEN get_best_link_to_neighbor(n) ELSE None],
     hops |-> [n \in Nodes |-> 0]]

\* Every node is a candidate at most once: it leaves with its lowest cost.
olsr_spf_run_full(e) ==
    LET pass[k \in 0..Cardinality(Nodes)] ==
            IF k = 0 THEN SpfStart(e) ELSE SpfPass(e, pass[k - 1], k)
    IN  pass[Cardinality(Nodes)]

\* The paths of all nodes that are reached over a next hop: inserted in the
\* RIB, or updated there; all others carry an old version and go.
NewRib(s) ==
    [x \in {x \in prefix_tree : s.cost[x[1]] < ROUTE_COST_BROKEN /\ s.hop[x[1]] # None} |->
        [nh   |-> [gw |-> s.hop[x[1]].gw, inter |-> s.hop[x[1]].inter],
         hops |-> s.hops[x[1]],
         cost |-> s.cost[x[1]]]]
-----------------------------------------------------------------------------
(* The kernel, external: a route is known by destination, metric and, with  *)
(* IPv6, next hop.  Requests with a gateway say RTNH_F_ONLINK: the kernel   *)
(* needs no route to it.                                                    *)

Route(nh, hops) ==
    [nh |-> nh, metric |-> IF cnf.fib_metric = "flat" THEN RT_METRIC_DEFAULT ELSE hops]

\* RTM_NEWROUTE with NLM_F_CREATE and NLM_F_REPLACE, which IPv6 lacks.
Replaced(routes, r) ==
    {x \in routes : cnf.ip_version = 6 \/ x.metric # r.metric} \cup {r}

\* "File exists": the similar routes are erased, all of them as the code
\* expects of this request, then the add is tried again.
Exists(routes, r) == cnf.ip_version = 6 /\ r \in routes
Erased(p, routes, r, no) ==
    IF Exists(routes, r) /\ <<"delete", p>> \notin no THEN {} ELSE routes

\* routes are those to p when r is added; no are the requests the kernel refuses.
AddAccepted(p, routes, r, no) ==
    /\ <<"add", p>> \notin no
    /\ ifstate[r.nh.inter] # "down"
    /\ ~Exists(Erased(p, routes, r, no), r)

Added(p, routes, r, no) ==
    IF AddAccepted(p, routes, r, no) THEN Replaced(Erased(p, routes, r, no), r)
    ELSE Erased(p, routes, r, no)

\* A route that is not there counts as deleted.
DeleteAccepted(p, r, no) == <<"delete", p>> \notin no \/ r \notin kernel[p]

Deleted(p, r, no) == IF <<"delete", p>> \in no THEN kernel[p] ELSE kernel[p] \ {r}

\* Destinations do not depend on each other: one refused at a time is enough.
Refusals ==
    {{}} \cup
    IF cnf.fault = "refuse"
    THEN {what \X {p} : what \in (SUBSET {"add", "delete"}) \ {{}}, p \in Dsts} ELSE {}
-----------------------------------------------------------------------------
(* routing_table.c and process_routes.c                                    *)

PathsOf(r, p) == {o \in Nodes : <<o, p>> \in DOMAIN r}

\* The default gateway in use is favoured by lq_nat_thresh.
CmpCost(r, o, p) ==
    IF p = Default /\ o = current_inetgw THEN (r[<<o, p>>].cost * NAT_NUM) \div NAT_DEN
    ELSE r[<<o, p>>].cost

olsr_cmp_rtp(r, p, o1, o2) ==
    \/ CmpCost(r, o1, p) < CmpCost(r, o2, p)
    \/ /\ CmpCost(r, o1, p) = CmpCost(r, o2, p)
       /\ \/ r[<<o1, p>>].hops < r[<<o2, p>>].hops
          \/ r[<<o1, p>>].hops = r[<<o2, p>>].hops /\ o1 < o2

olsr_rt_best(r, p) ==
    CHOOSE o \in PathsOf(r, p) :
        \A o2 \in PathsOf(r, p) \ {o} : olsr_cmp_rtp(r, p, o, o2)

\* olsr_nh_change, and with correct metrics olsr_hopcount_change.
RouteChanged(rt, path) ==
    \/ rt.nh # path.nh
    \/ cnf.fib_metric = "correct" /\ rt.hops # path.hops

\* The RIB r with the heads of its new prefixes.
WithHeads(tree, r) ==
    [p \in DOMAIN tree \cup {x[2] : x \in DOMAIN r} |->
        IF p \in DOMAIN tree THEN tree[p]
        ELSE [best |-> None, nh |-> NoHop, hops |-> 0]]

Installed(rt) == Route(rt.nh, rt.hops)

\* olsr_chg_kernel_routes: with IPv6 the old route is deleted before the new one
\* is added, whatever becomes of either.
BeforeAdd(rt, p, no) ==
    IF cnf.ip_version = 6 /\ rt.nh # NoHop THEN Deleted(p, Installed(rt), no)
    ELSE kernel[p]

\* What is left of a head without paths when the kernel keeps its route.
Headless(rt, p) ==
    [rt EXCEPT !.best = IF <<rt.best, p>> \in DOMAIN rib THEN None ELSE @]

\* Mutant: next hop and metric are saved even when the kernel refused them.
MutantUpdatedHead(r, rt, p, no) ==
    LET path == r[<<olsr_rt_best(r, p), p>>]
    IN  [best |-> olsr_rt_best(r, p), nh |-> path.nh, hops |-> path.hops]

\* The head of a prefix with paths: olsr_rt_best elects, olsr_add_kernel_route
\* saves next hop and metric when the kernel took them.
UpdatedHead(r, rt, p, no) ==
    LET best == olsr_rt_best(r, p)
        path == r[<<best, p>>]
        r1 == Route(path.nh, path.hops)
    IN  IF RouteChanged(rt, path) /\ AddAccepted(p, BeforeAdd(rt, p, no), r1, no)
        THEN [best |-> best, nh |-> path.nh, hops |-> path.hops]
        ELSE [rt EXCEPT !.best = best]

\* Mutant: the head goes whether its route could be deleted or not.
MutantHeadsKept(r, tree, no) == {p \in DOMAIN tree : PathsOf(r, p) # {}}

\* A head without paths goes when the kernel has deleted its route.
HeadsKept(r, tree, no) ==
    {p \in DOMAIN tree :
        PathsOf(r, p) = {} =>
            ~DeleteAccepted(p, Installed(tree[p]), no)}

\* The routes to p after the update of its head.
UpdatedRoutes(r, rt, p, no) ==
    IF PathsOf(r, p) = {} THEN Deleted(p, Installed(rt), no)
    ELSE LET path == r[<<olsr_rt_best(r, p), p>>]
         IN  IF RouteChanged(rt, path)
             THEN Added(p, BeforeAdd(rt, p, no), Route(path.nh, path.hops), no)
             ELSE kernel[p]

\* What a head of routingtree may leave in the kernel without knowing it: the
\* head was taken out of tree, its delete was refused and it went on, or the
\* new route has another metric and so replaced nothing.
LeftBehind(r, tree, p, no) ==
    IF /\ p \in DOMAIN routingtree
       /\ \/ p \notin DOMAIN tree
          \/ PathsOf(r, p) # {} /\ (<<"delete", p>> \in no \/ cnf.fib_metric # "flat")
    THEN {Installed(routingtree[p])} ELSE {}

\* olsr_update_rib_routes and olsr_update_kernel_routes.
UpdateRoutes(r, tree, no) ==
    /\ rib' = r
    /\ routingtree' = [p \in HeadsKept(r, tree, no) |->
                          IF PathsOf(r, p) = {} THEN Headless(tree[p], p)
                          ELSE UpdatedHead(r, tree[p], p, no)]
    /\ current_inetgw' = IF PathsOf(r, Default) = {} THEN current_inetgw
                         ELSE olsr_rt_best(r, Default)
    /\ kernel' = [p \in Dsts |-> IF p \in DOMAIN tree THEN UpdatedRoutes(r, tree[p], p, no)
                                 ELSE kernel[p]]
    /\ refused' = (no # {})
    /\ stray' = [p \in Dsts |->
          {k \in (stray[p] \cup LeftBehind(r, tree, p, no)) \cap kernel'[p] :
              p \in DOMAIN routingtree' => k # Installed(routingtree'[p])}]
-----------------------------------------------------------------------------
(* olsr_process_changes                                                    *)

olsr_calculate_routing_table ==
    /\ ~spf_backoff_timer
    /\ spf_backoff_timer' = TRUE
    /\ edge' = RunEdges
    /\ LET r == NewRib(olsr_spf_run_full(RunEdges))
       IN  \E no \in Refusals : UpdateRoutes(r, WithHeads(routingtree, r), no)
    /\ UNCHANGED <<linkcost, prefix_tree, ifstate>>

\* With a prompt fault the kernel's message that an interface was set down is
\* read before the next run and before another interface fails; with a late one
\* these may come first.
Unnoticed == {i \in configured : cnf.fault = "prompt" /\ ifstate[i] = "down"}

\* The flags are cleared whether the SPF ran or not.
olsr_process_changes ==
    /\ running /\ changes /\ Unnoticed = {}
    /\ \/ olsr_calculate_routing_table
       \/ /\ spf_backoff_timer
          /\ UNCHANGED <<spf_backoff_timer, dbVars, ribVars, envVars>>
    /\ changes' = FALSE
    /\ UNCHANGED <<cnf, configured, running, events>>

olsr_expire_spf_backoff ==
    /\ running /\ spf_backoff_timer
    /\ spf_backoff_timer' = FALSE
    /\ UNCHANGED <<cnf, dbVars, ribVars, changes, configured, running, envVars, events>>
-----------------------------------------------------------------------------
(* What the message handlers and timers do to the tables.                  *)

Event ==
    /\ running
    /\ events < MAX_EVENTS
    /\ events' = events + 1
    /\ UNCHANGED <<cnf, running>>

\* HELLOs make a link symmetric or asymmetric or change its cost.
LinkChanges(w, c) ==
    /\ Event
    /\ w.inter \in configured /\ ifstate[w.inter] = "up"
    /\ linkcost[w] # c
    /\ linkcost' = [linkcost EXCEPT ![w] = c]
    /\ changes' = TRUE
    /\ UNCHANGED <<edge, prefix_tree, ribVars, spf_backoff_timer, configured, envVars>>

\* The edges to the interface addresses of the deleted links.
WithoutEdgesTo(gone) ==
    [e \in Pairs |-> IF e[1] = myself /\ \E w \in gone : e[2] = w.gw
                     THEN NoEdge ELSE edge[e]]

olsr_delete_link_entry(w) ==
    /\ Event
    /\ linkcost[w] # NoLink
    /\ linkcost' = [linkcost EXCEPT ![w] = NoLink]
    /\ edge' = WithoutEdgesTo({w})
    /\ changes' = TRUE
    /\ UNCHANGED <<prefix_tree, ribVars, spf_backoff_timer, configured, envVars>>

\* A believed TC: the edges of its originator, whose own address is a prefix.
TcBelieved(o, adv) ==
    /\ Event
    /\ edge' = [e \in Pairs |->
          IF e[1] # o THEN edge[e]
          ELSE IF e[2] \in DOMAIN adv THEN EdgeCost(adv[e[2]]) ELSE NoEdge]
    /\ edge' # edge
    /\ prefix_tree' = prefix_tree \cup {<<o, o>>}
    /\ changes' = TRUE
    /\ UNCHANGED <<linkcost, ribVars, spf_backoff_timer, configured, envVars>>

\* Mutant: the default gateway still refers to a freed path.
MutantDeletePaths(gone) ==
    /\ prefix_tree' = prefix_tree \ gone
    /\ rib' = [x \in DOMAIN rib \ gone |-> rib[x]]
    /\ UNCHANGED <<routingtree, current_inetgw>>

\* olsr_delete_rt_path: the head's rt_best may still point to a freed path.
DeletePaths(gone) ==
    /\ prefix_tree' = prefix_tree \ gone
    /\ rib' = [x \in DOMAIN rib \ gone |-> rib[x]]
    /\ current_inetgw' = IF <<current_inetgw, Default>> \in gone THEN None ELSE current_inetgw
    /\ UNCHANGED routingtree

olsr_delete_tc_entry(o) ==
    /\ Event
    /\ o # myself /\ <<o, o>> \in prefix_tree
    /\ edge' = [e \in Pairs |-> IF e[1] = o THEN NoEdge ELSE edge[e]]
    /\ DeletePaths({x \in prefix_tree : x[1] = o})
    /\ changes' = TRUE
    /\ UNCHANGED <<linkcost, spf_backoff_timer, configured, envVars>>

\* A HNA message; the originator gets a tc entry with its own prefix.
olsr_insert_routing_table(o, p) ==
    /\ Event
    /\ <<o, p>> \notin prefix_tree
    /\ prefix_tree' = prefix_tree \cup {<<o, o>>, <<o, p>>}
    /\ changes' = TRUE
    /\ UNCHANGED <<linkcost, edge, ribVars, spf_backoff_timer, configured, envVars>>

olsr_delete_routing_table(o, p) ==
    /\ Event
    /\ <<o, p>> \in prefix_tree
    /\ DeletePaths({<<o, p>>})
    /\ changes' = TRUE
    /\ UNCHANGED <<linkcost, edge, spf_backoff_timer, configured, envVars>>
-----------------------------------------------------------------------------
(* Interfaces                                                              *)

\* The kernel drops the routes of an interface that is set down, not those of
\* one that only lost its carrier.
InterfaceFails(i) ==
    /\ Event
    /\ cnf.fault \in {"prompt", "late", "carrier"} /\ ifstate[i] = "up" /\ Unnoticed = {}
    /\ ifstate' = [ifstate EXCEPT ![i] = IF cnf.fault = "carrier" THEN "carrier" ELSE "down"]
    /\ kernel' = IF cnf.fault = "carrier" THEN kernel
                 ELSE [p \in Dsts |-> {r \in kernel[p] : r.nh.inter # i}]
    /\ stray' = [p \in Dsts |-> stray[p] \cap kernel'[p]]
    /\ UNCHANGED <<dbVars, ribVars, changes, spf_backoff_timer, configured, refused>>

\* The kernel tells at once that an interface was set down; it stays down for
\* longer than a round of the main loop.  A lost carrier is found by polling.
InterfaceRecovers(i) ==
    /\ Event
    /\ ifstate[i] # "up"
    /\ ifstate[i] = "down" => i \notin configured
    /\ ifstate' = [ifstate EXCEPT ![i] = "up"]
    /\ UNCHANGED <<dbVars, ribVars, changes, spf_backoff_timer, configured, kernel, refused, stray>>

\* The heads olsr_delete_interface_routes takes out of the tree: their best
\* path, and with it the last, went over the interface.  Their routes are not
\* deleted: they are taken to be gone with the interface.
InterfaceHeads(i) ==
    {p \in DOMAIN routingtree :
        /\ <<routingtree[p].best, p>> \in DOMAIN rib
        /\ rib[<<routingtree[p].best, p>>].nh.inter = i
        /\ \A o \in PathsOf(rib, p) : rib[<<o, p>>].nh.inter = i}

olsr_delete_interface_routes(i) ==
    LET gone == {x \in DOMAIN rib : rib[x].nh.inter = i}
        r == [x \in DOMAIN rib \ gone |-> rib[x]]
        hit == {p \in DOMAIN routingtree : <<routingtree[p].best, p>> \in gone}
        tree == [p \in DOMAIN routingtree \ InterfaceHeads(i) |->
                    IF p \in hit THEN [routingtree[p] EXCEPT !.best = None]
                    ELSE routingtree[p]]
    IN  IF hit # {}
        THEN \E no \in Refusals : UpdateRoutes(r, tree, no)
        ELSE /\ rib' = r
             /\ UNCHANGED <<routingtree, current_inetgw, kernel, refused, stray>>

\* A message of the kernel (netlink_process_link) or the poll of the
\* interfaces (chk_if_changed) has shown that the interface is not up.
olsr_remove_interface(i) ==
    LET gone == {w \in Wires : w.inter = i /\ linkcost[w] # NoLink}
    IN  /\ running
        /\ i \in configured /\ ifstate[i] # "up"
        /\ linkcost' = [w \in Wires |-> IF w \in gone THEN NoLink ELSE linkcost[w]]
        /\ edge' = WithoutEdgesTo(gone)
        /\ changes' = (changes \/ gone # {})
        /\ olsr_delete_interface_routes(i)
        /\ configured' = configured \ {i}
        /\ UNCHANGED <<cnf, prefix_tree, spf_backoff_timer, running, ifstate, events>>

chk_if_up(i) ==
    /\ running
    /\ i \notin configured /\ ifstate[i] = "up"
    /\ configured' = configured \cup {i}
    /\ UNCHANGED <<cnf, dbVars, ribVars, changes, spf_backoff_timer, running, envVars, events>>

\* The routes go, then the tables.
olsr_shutdown ==
    /\ running
    /\ running' = FALSE
    /\ \E no \in Refusals : UpdateRoutes(<< >>, routingtree, no)
    /\ linkcost' = [w \in Wires |-> NoLink]
    /\ edge' = [e \in Pairs |-> NoEdge]
    /\ prefix_tree' = {}
    /\ changes' = FALSE /\ spf_backoff_timer' = FALSE /\ configured' = {}
    /\ UNCHANGED <<cnf, ifstate, events>>
-----------------------------------------------------------------------------
Tables ==
    \/ \E w \in Wires, c \in Costs \cup {Asym} : LinkChanges(w, c)
    \/ \E w \in Wires : olsr_delete_link_entry(w)
    \/ \E a \in Adverts : TcBelieved(a[1], a[2])
    \/ \E o \in Nodes : olsr_delete_tc_entry(o)
    \/ \E h \in Hnas : olsr_insert_routing_table(h[1], h[2])
    \/ \E h \in Hnas : olsr_delete_routing_table(h[1], h[2])

Interfaces ==
    \E i \in Ifaces : \/ InterfaceFails(i) \/ InterfaceRecovers(i)
                      \/ olsr_remove_interface(i) \/ chk_if_up(i)

Next ==
    \/ Tables
    \/ Interfaces
    \/ olsr_process_changes
    \/ olsr_expire_spf_backoff
    \/ olsr_shutdown

Spec == Init /\ [][Next]_vars

\* The main loop processes changes once a round, and timers expire.
FairSpec ==
    /\ Spec
    /\ WF_vars(olsr_process_changes)
    /\ WF_vars(olsr_expire_spf_backoff)
    /\ \A i \in Ifaces : WF_vars(olsr_remove_interface(i))
-----------------------------------------------------------------------------
(* Properties                                                              *)

Path == [nh : [gw : {w.gw : w \in Wires}, inter : Ifaces], hops : 1..Cardinality(Nodes),
         cost : 0..ROUTE_COST_BROKEN]

TypeOK ==
    /\ linkcost \in [Wires -> Costs \cup {NoLink, Asym}]
    /\ edge \in [Pairs -> {NoEdge, 0, LINK_COST_BROKEN} \cup Costs]
    /\ DOMAIN rib \subseteq prefix_tree
    /\ \A x \in DOMAIN rib : rib[x] \in Path /\ x[2] \in DOMAIN routingtree
    /\ \A p \in DOMAIN routingtree : routingtree[p].best \in Nodes \cup {None}
    /\ current_inetgw \in Nodes \cup {None}
    /\ current_inetgw # None => <<current_inetgw, Default>> \in prefix_tree \/ ~running

\* A run of the SPF: only it starts the timer.
Run == ~spf_backoff_timer /\ spf_backoff_timer'

\* Reference: simple paths from ourselves over our symmetric links, with link
\* quality only those the run before has seen, and over edges that both ends
\* advertise.
RefCost(a, b) ==
    IF edge[<<b, a>>] = NoEdge \/ (edge[<<a, b>>] = NoEdge /\ ~(a = myself /\ cnf.lq_level = 0))
    THEN LINK_COST_BROKEN
    ELSE IF a # myself THEN edge[<<a, b>>]
    ELSE IF SymLinksTo(b) = {} THEN LINK_COST_BROKEN
    ELSE EdgeCost(linkcost[get_best_link_to_neighbor(b)])

RefPaths(n) ==
    {q \in UNION {[1..k -> Nodes] : k \in 2..Cardinality(Nodes)} :
        /\ q[1] = myself /\ q[Len(q)] = n
        /\ Cardinality({q[i] : i \in 1..Len(q)}) = Len(q)
        /\ \A i \in 1..(Len(q) - 1) : RefCost(q[i], q[i + 1]) # LINK_COST_BROKEN}

PathCost(q) ==
    LET sum[i \in 0..(Len(q) - 1)] == IF i = 0 THEN 0 ELSE sum[i - 1] + RefCost(q[i], q[i + 1])
    IN  sum[Len(q) - 1]

RunExact ==
    Run =>
        \A x \in prefix_tree \ {<<myself, myself>>} :
            LET all == RefPaths(x[1])
                best == {q \in all : \A z \in all : PathCost(q) <= PathCost(z)}
            IN  IF all = {} THEN x \notin DOMAIN rib'
                ELSE /\ x \in DOMAIN rib'
                     /\ rib'[x].cost = PathCost(CHOOSE q \in best : TRUE)
                     /\ \E q \in best :
                           /\ rib'[x].hops = Len(q) - 1
                           /\ \E w \in SymLinksTo(q[2]) :
                                 rib'[x].nh = [gw |-> w.gw, inter |-> w.inter]
                     /\ cnf.lq_level = 0 => \A q \in all : rib'[x].hops <= Len(q) - 1

\* After a run the RIB holds a path for exactly the prefixes of the nodes we
\* can reach, each at the lowest cost, over a first hop and with a hop count
\* that a path of that cost has; without link quality the fewest hops.
SpfExact == [][RunExact]_vars

\* What the kernel should have: one route per reachable prefix.  The metric
\* "approx" is that of the time when the route was added.
Wanted(p) ==
    IF PathsOf(rib, p) = {} THEN {}
    ELSE LET path == rib[<<routingtree[p].best, p>>]
         IN  {Route(path.nh, IF cnf.fib_metric = "approx" THEN routingtree[p].hops ELSE path.hops)}

\* A head that claims a route the kernel does not have.
Forgotten(p) ==
    /\ p \in DOMAIN routingtree /\ routingtree[p].nh # NoHop
    /\ Installed(routingtree[p]) \notin kernel[p]

\* Only the kernel that drops the routes of an interface, or refuses the new
\* route after it deleted the old one, makes a head forget.
ForgottenExplained ==
    (\E p \in Dsts : Forgotten(p)) =>
        cnf.fault \in {"prompt", "late"} \/ (cnf.fault = "refuse" /\ cnf.ip_version = 6)

RunInstalls ==
    Run /\ ~refused' /\ (\A i \in configured : ifstate[i] = "up")
        => \A p \in Dsts :
              \/ kernel'[p] \ stray'[p] = Wanted(p)'
              \/ Forgotten(p) /\ Installed(routingtree'[p]) = Installed(routingtree[p])

RemovalMovesHeads ==
    \A i \in configured \ configured' :
        running' /\ cnf.fault # "late" =>
            /\ \A p \in DOMAIN routingtree \cap DOMAIN routingtree' :
                  routingtree'[p].nh.inter = i => <<routingtree[p].best, p>> \notin DOMAIN rib
            /\ \A p \in Dsts : cnf.fib_metric = "flat" =>
                  \A k \in stray'[p] \ stray[p] : k.nh.inter = i

\* A run the kernel did not refuse anything in leaves the kernel with exactly
\* the routes of the RIB, and those the heads lost sight of, whatever was refused
\* before and whatever became of interfaces.  The exception is a head that still
\* claims a route the kernel has lost.  The removal of an interface, if none
\* failed unnoticed, leaves only heads on it whose best path was freed before, so
\* they were not found, and loses sight of routes over that interface only.
KernelFollows == [][RunInstalls /\ RemovalMovesHeads /\ ForgottenExplained]_vars

\* The heads lose sight of a route only when they are dropped with an interface
\* that lost its carrier, or for which the kernel did not take the new route
\* (a late message), when the delete before an IPv6 add was refused, or when a
\* hop count is the metric.
StraysExplained ==
    (\E p \in Dsts : stray[p] # {}) =>
        \/ cnf.fault \in {"carrier", "late"}
        \/ cnf.fault = "refuse" /\ cnf.ip_version = 6
        \/ cnf.fib_metric # "flat"

\* A daemon that ended, and was not refused it, left no route behind but those
\* its heads had lost sight of, and there are such only for the four reasons above.
ShutdownClean ==
    /\ ~running /\ ~refused => \A p \in Dsts : kernel[p] \subseteq stray[p]
    /\ StraysExplained

\* The kernel has routes to exactly the prefixes of the nodes we can reach.
Settled ==
    \A p \in Dsts : kernel[p] # {} <=> \E x \in prefix_tree : x[2] = p /\ RefPaths(x[1]) # {}

\* Routes follow the tables: once these are quiet, so are the routes, and they
\* are those of the tables (olsr_process_changes).
RoutesFollow == <>[](running /\ events = MAX_EVENTS) => <>[]Settled
=============================================================================
