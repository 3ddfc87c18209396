------------------------------- MODULE Gateway -------------------------------
(***************************************************************************)
(* The smart gateway client (gateway.c, gateway_default_handler.c): from   *)
(* the HNAs of routers with an uplink it keeps a table of gateways, picks  *)
(* the nearest one for each address family, builds an IPIP tunnel to it    *)
(* (linux/kernel_tunnel.c) and routes the Internet into the tunnel.        *)
(*                                                                         *)
(* Families are those looked for: {"v4"} with IPv4, {"v6"} with IPv6, both *)
(* with IPv6 and NIIT.  An HNA of a gateway names the families its uplink  *)
(* has, and "nat".  Link speeds and external prefixes decide nothing in    *)
(* the default handler and are left out.                                   *)
(***************************************************************************)
EXTENDS Integers, FiniteSetsExt, Sequences

CONSTANTS
    Gateways,                   \* numbers: their order is that of the tree
    Families,
    AllowNat,                   \* olsr_cnf->smart_gw_allow_nat
    Costs,                      \* path costs below ROUTE_COST_BROKEN
    Announcements,              \* what the HNAs of a gateway may say
    GW_DEFAULT_STABLE_COUNT,    \* 6
    MaxHnas,                    \* bound: different HNAs of each gateway
    MaxFailures                 \* bound: tunnels the kernel refuses

AllFamilies == {"v4", "v6"}
None == 0

ASSUME GatewayAssumption ==
    /\ Gateways \subseteq Nat \ {None} /\ IsFiniteSet(Gateways)
    /\ Families \subseteq AllFamilies /\ Families # {}
    /\ AllowNat \in BOOLEAN
    /\ Costs \subseteq Nat
    /\ GW_DEFAULT_STABLE_COUNT \in Nat
    /\ MaxHnas \in [Gateways -> Nat] /\ MaxFailures \in Nat
    /\ Announcements \subseteq SUBSET (Families \cup {"nat"})

\* There is a largest cost of a path: the code keeps it in 32 bits.
ASSUME CostAssumption == \E c \in Costs : \A d \in Costs : c >= d

ROUTE_COST_BROKEN == 1 + Max(Costs)
NoTc == ROUTE_COST_BROKEN + 1   \* there is no tc entry

\* path_cost of a tc entry that no SPF run has seen: its memory is zeroed, so
\* until then it counts as the nearest of all.
NewCost == 0

VARIABLES
    gw,         \* gateway_tree: the entry of every gateway
    sel,        \* what is selected, see Selection below
    usage,      \* tunnel_tree: users of the tunnel to a gateway
    route,      \* the gateway whose tunnel the default route points into
    hna,        \* Internet prefixes in the HNA set: pairs of gateway and family
    path,       \* path_cost of the tc entry of a gateway
    announced,  \* HNAs sent by a gateway, oldest first
    down,       \* tunnels whose interface is down
    failures    \* counter behind the bound

vars == <<gw, sel, usage, route, hna, path, announced, down, failures>>

Free == [known |-> FALSE, flags |-> {}, seqno |-> 0, cleanup_timer |-> FALSE]

Uplinks(flags) == flags \cap AllFamilies

\* A state as the handlers pass it on: tunnels can be refused while ok is
\* FALSE, and null tells that a gateway was taken from a null pointer.
State(ok) == [gw |-> gw, sel |-> sel, usage |-> usage, route |-> route, path |-> path,
              down |-> down, ok |-> ok, null |-> FALSE]

-----------------------------------------------------------------------------
(* Tunnels (linux/kernel_tunnel.c)                                         *)

\* The routes into an interface are lost when it goes.
Without(routes, g) == [f \in AllFamilies |-> IF routes[f] = g THEN None ELSE routes[f]]

olsr_os_del_ipip_tunnel(s, g) ==
    IF s.usage[g] = 0 THEN s
    ELSE IF s.usage[g] > 1 THEN [s EXCEPT !.usage[g] = @ - 1]
    ELSE [s EXCEPT !.usage[g] = 0, !.route = Without(@, g), !.down = @ \ {g}]

\* Mutant: a tunnel that exists already is not counted once more.
MutantAdd(s, g) == IF s.usage[g] > 0 THEN s ELSE [s EXCEPT !.usage[g] = 1]

olsr_os_add_ipip_tunnel(s, g) == [s EXCEPT !.usage[g] = @ + 1]

CanTunnel(s, g) == s.usage[g] > 0 \/ s.ok

-----------------------------------------------------------------------------
(* Selecting a gateway (gateway.c)                                         *)

\* olsr_set_inet_gateway: may g be used for f?
Valid(s, g, f) ==
    /\ s.gw[g].known
    /\ f \in s.gw[g].flags
    /\ f = "v4" /\ "nat" \in s.gw[g].flags => AllowNat

\* One family changes from its old gateway to g.  The new tunnel is built and
\* routed into before the old one is released.  The kernel accepts no route
\* into an interface that is down.
Switch(s, f, g) ==
    LET old == s.sel.current[f]
        new == IF CanTunnel(s, g)
               THEN [olsr_os_add_ipip_tunnel(s, g) EXCEPT
                        !.sel.current[f] = g, !.sel.tunnel[f] = g,
                        !.route[f] = IF g \in s.down THEN @ ELSE g]
               ELSE [s EXCEPT !.sel.current[f] = None, !.sel.tunnel[f] = None]
    IN  IF old = g THEN s
        ELSE IF old = None THEN new ELSE olsr_os_del_ipip_tunnel(new, old)

\* For a family that g does not serve the code forgets the gateway and goes
\* on with the address of none if there was one.
SetFamily(s, g, f) ==
    IF Valid(s, g, f) THEN Switch(s, f, g)
    ELSE [s EXCEPT !.null = @ \/ s.sel.current[f] # None]

olsr_set_inet_gateway(s, g, fs) ==
    LET s4 == IF "v4" \in fs \cap Families THEN SetFamily(s, g, "v4") ELSE s
    IN  IF "v6" \in fs \cap Families THEN SetFamily(s4, g, "v6") ELSE s4

-----------------------------------------------------------------------------
(* The default handler (gateway_default_handler.c)                         *)

Finished(s) == \A f \in AllFamilies : s.sel.finished[f]

\* Mutant: NAT is not looked at.
MutantSuits(s, g, f) == s.gw[g].known /\ f \in s.gw[g].flags

\* A gateway that may be chosen for f.  Of the IPv4 gateways only those with
\* NAT are looked at when NAT is allowed.
Suits(s, g, f) ==
    /\ s.gw[g].known
    /\ f \in s.gw[g].flags
    /\ f = "v4" => ("nat" \in s.gw[g].flags) = AllowNat

\* The nearest one, in the order of the tree.
Best(s, f) ==
    LET suit == {g \in Gateways : /\ ~s.sel.finished[f]
                                  /\ Suits(s, g, f)
                                  /\ s.path[g] < ROUTE_COST_BROKEN}
    IN  IF suit = {} THEN None
        ELSE CHOOSE g \in suit : \A h \in suit :
                s.path[g] < s.path[h] \/ (s.path[g] = s.path[h] /\ g <= h)

\* The nearest gateways are set, one for both families in one go.
SetBest(s, v4, v6) ==
    LET s4 == IF v4 = None THEN s
              ELSE olsr_set_inet_gateway(s, v4, IF v4 = v6 THEN AllFamilies ELSE {"v4"})
    IN  IF v6 = None \/ v4 = v6 THEN s4 ELSE olsr_set_inet_gateway(s4, v6, {"v6"})

gw_default_choose_gateway(s) ==
    LET found == [f \in AllFamilies |-> s.sel.finished[f] \/ Best(s, f) # None]
        s1    == SetBest([s EXCEPT !.sel.finished = found], Best(s, "v4"), Best(s, "v6"))
    IN  IF Finished(s1) THEN [s1 EXCEPT !.sel.timer = FALSE] ELSE s1

\* Look for a new gateway for the families fs, once.
olsr_gw_default_lookup_gateway(s, fs) ==
    LET s1 == [s EXCEPT !.sel.finished = [f \in AllFamilies |->
                            IF f \in fs THEN f \notin Families ELSE @[f]]]
    IN  IF Finished(s1) THEN s1 ELSE gw_default_choose_gateway(s1)

tc_count(s) == Cardinality({g \in Gateways : s.path[g] # NoTc})

\* Look for gateways until they are found.
gw_default_startup_handler(s) ==
    [s EXCEPT !.sel.nodecount = tc_count(s), !.sel.stablecount = 0,
              !.sel.finished = [f \in AllFamilies |-> f \notin Families],
              !.sel.timer = TRUE]

gw_default_choosegw_handler(s, fs) ==
    LET s1 == olsr_gw_default_lookup_gateway(s, fs)
    IN  IF Finished(s1) THEN s1 ELSE gw_default_startup_handler(s1)

gw_default_update_handler(s, g) ==
    LET changed == {f \in AllFamilies : s.sel.current[f] = g /\ ~Valid(s, g, f)}
    IN  IF changed = {} THEN s ELSE olsr_gw_default_lookup_gateway(s, changed)

gw_default_delete_handler(s, g) ==
    LET mine == {f \in AllFamilies : s.sel.current[f] = g}
    IN  IF mine = {} THEN s ELSE olsr_gw_default_lookup_gateway(s, mine)

-----------------------------------------------------------------------------
(* The table of gateways (gateway.c)                                       *)

\* A copy of an older HNA changes nothing.
olsr_update_gateway_entry(s, g, flags, seqno) ==
    IF s.gw[g].known /\ seqno <= s.gw[g].seqno THEN s
    ELSE gw_default_update_handler(
            [s EXCEPT !.gw[g] = [known |-> TRUE, flags |-> flags, seqno |-> seqno,
                                 cleanup_timer |-> FALSE]], g)

\* A family that still uses g loses its route, tunnel and gateway.
Drop(s, f, g) ==
    IF s.sel.current[f] # g THEN s
    ELSE [olsr_os_del_ipip_tunnel([s EXCEPT !.route[f] = None], g) EXCEPT
            !.sel.current[f] = None, !.sel.tunnel[f] = None]

DropAll(s, g) == Drop(Drop(s, "v4", g), "v6", g)

\* The families fs of g are withdrawn; all of them when its tc entry goes.
olsr_delete_gateway_entry(s, g, fs) ==
    LET entry == s.gw[g]
        flags == entry.flags \ (fs \cup (IF "v4" \in fs THEN {"nat"} ELSE {}))
        gone  == fs = AllFamilies \/ Uplinks(flags) = {}
        s1    == [s EXCEPT !.gw[g].flags = IF gone THEN {} ELSE flags]
    IN  IF ~entry.known \/ (entry.cleanup_timer /\ Uplinks(entry.flags) = {}) THEN s
        ELSE IF gone THEN [DropAll(gw_default_delete_handler(s1, g), g) EXCEPT
                                !.gw[g].cleanup_timer = TRUE]
        ELSE IF fs \cap entry.flags # {} THEN gw_default_update_handler(s1, g)
        ELSE s1

-----------------------------------------------------------------------------
(* Steps                                                                   *)

Become(s) ==
    /\ gw' = s.gw /\ usage' = s.usage /\ route' = s.route /\ path' = s.path /\ down' = s.down
    /\ sel' = [s.sel EXCEPT !.null = s.null]

\* A step ends with the outcome of a handler.  The kernel may refuse every new
\* tunnel of a step, and outcome tells the state without and with refusals.
Handle(outcome) ==
    \E ok \in {TRUE} \cup (IF failures < MaxFailures THEN {FALSE} ELSE {}) :
        \E s \in {outcome[ok]} :
            /\ Become(s)
            /\ failures' = IF ok THEN failures ELSE failures + 1

\* olsr_input_hna: any copy of an HNA sent so far.  The gateway is entered
\* before the prefixes, which create the tc entry if there is none.
olsr_input_hna(g, k) ==
    LET flags == announced[g][k]
        fs    == IF Uplinks(flags) = {} THEN Families ELSE Uplinks(flags)
        H(s)  == [olsr_update_gateway_entry(s, g, flags, k) EXCEPT
                    !.path[g] = IF @ = NoTc THEN NewCost ELSE @]
    IN  /\ Handle([ok \in BOOLEAN |-> H(State(ok))])
        /\ hna' = hna \cup ({g} \X fs)
        /\ UNCHANGED announced

\* The gateway sends an HNA with a new sequence number.
SendHna(g, flags) ==
    /\ Len(announced[g]) < MaxHnas[g]
    /\ announced' = [announced EXCEPT ![g] = Append(@, flags)]
    /\ UNCHANGED <<gw, sel, usage, route, hna, path, down, failures>>

\* olsr_delete_hna_net_entry, when the prefix has expired.
olsr_expire_hna_net_entry(g, f) ==
    LET H(s) == olsr_delete_gateway_entry(s, g, {f})
    IN  /\ <<g, f>> \in hna
        /\ Handle([ok \in BOOLEAN |-> H(State(ok))])
        /\ hna' = hna \ {<<g, f>>}
        /\ UNCHANGED announced

\* A TC of the gateway arrives: it has a tc entry.
olsr_add_tc_entry(g) ==
    /\ path[g] = NoTc
    /\ path' = [path EXCEPT ![g] = NewCost]
    /\ UNCHANGED <<gw, sel, usage, route, hna, announced, down, failures>>

olsr_delete_tc_entry(g) ==
    LET H(s) == [olsr_delete_gateway_entry(s, g, AllFamilies) EXCEPT !.path[g] = NoTc]
    IN  /\ path[g] # NoTc
        /\ Handle([ok \in BOOLEAN |-> H(State(ok))])
        /\ UNCHANGED <<hna, announced>>

\* Mutant: a gateway that is out of reach is not noticed.
MutantLost(s) == {f \in AllFamilies : s.sel.current[f] # None /\ s.path[s.sel.current[f]] = NoTc}

\* olsr_trigger_gatewayloss_check: families whose gateway is out of reach.
Lost(s) ==
    {f \in AllFamilies : s.sel.current[f] # None /\ s.path[s.sel.current[f]] >= ROUTE_COST_BROKEN}

\* The SPF run sets the path costs of all entries anew and ends with the check.
Computed(s, costs) ==
    [s EXCEPT !.path = [g \in Gateways |-> IF s.path[g] = NoTc THEN NoTc ELSE costs[g]]]

olsr_calculate_routing_table(costs) ==
    LET H(s) == LET s1 == Computed(s, costs)
                IN  IF Lost(s1) = {} THEN s1 ELSE gw_default_choosegw_handler(s1, Lost(s1))
    IN  /\ Handle([ok \in BOOLEAN |-> H(State(ok))])
        /\ UNCHANGED <<hna, announced>>

\* Every 10 seconds while gateways are looked for: the first choice waits
\* until the number of known routers has settled.
gw_default_timer ==
    LET count     == tc_count(State(TRUE))
        nodecount == IF count * 10 <= sel.nodecount * 11 THEN count ELSE sel.nodecount
        stable    == IF count <= nodecount
                     THEN Min({sel.stablecount + 1, GW_DEFAULT_STABLE_COUNT}) ELSE 0
        H(s) == LET s1 == [s EXCEPT !.sel.nodecount = IF count <= nodecount THEN nodecount
                                                      ELSE count,
                                    !.sel.stablecount = stable]
                IN  IF stable >= GW_DEFAULT_STABLE_COUNT THEN gw_default_choose_gateway(s1)
                    ELSE s1
    IN  /\ sel.timer
        /\ Handle([ok \in BOOLEAN |-> H(State(ok))])
        /\ UNCHANGED <<hna, announced>>

\* 30 seconds after the deletion the entry is freed.
cleanup_gateway_handler(g) ==
    /\ gw[g].cleanup_timer
    /\ Uplinks(gw[g].flags) = {}
    /\ gw' = [gw EXCEPT ![g] = Free]
    /\ UNCHANGED <<sel, usage, route, hna, path, announced, down, failures>>

\* Somebody takes the interface of a tunnel down: its routes are lost ...
TunnelDown(g) ==
    /\ usage[g] > 0 /\ g \notin down
    /\ down' = down \cup {g}
    /\ route' = Without(route, g)
    /\ UNCHANGED <<gw, sel, usage, hna, path, announced, failures>>

\* ... and set again when it comes up.
smartgw_tunnel_monitor(g) ==
    /\ g \in down
    /\ down' = down \ {g}
    /\ route' = [f \in AllFamilies |->
                    IF sel.current[f] # None /\ sel.tunnel[f] = g THEN g ELSE route[f]]
    /\ UNCHANGED <<gw, sel, usage, hna, path, announced, failures>>

Init ==
    /\ gw = [g \in Gateways |-> Free]
    /\ sel = [current |-> [f \in AllFamilies |-> None], tunnel |-> [f \in AllFamilies |-> None],
              finished |-> [f \in AllFamilies |-> f \notin Families],
              timer |-> TRUE, nodecount |-> 0, stablecount |-> 0, null |-> FALSE]
    /\ usage = [g \in Gateways |-> 0]
    /\ route = [f \in AllFamilies |-> None]
    /\ hna = {} /\ down = {} /\ failures = 0
    /\ path = [g \in Gateways |-> NoTc]
    /\ announced = [g \in Gateways |-> <<>>]

Next ==
    \/ \E g \in Gateways :
        \/ \E flags \in Announcements : SendHna(g, flags)
        \/ \E k \in DOMAIN announced[g] : olsr_input_hna(g, k)
        \/ \E f \in Families : olsr_expire_hna_net_entry(g, f)
        \/ olsr_add_tc_entry(g)
        \/ olsr_delete_tc_entry(g)
        \/ cleanup_gateway_handler(g)
        \/ TunnelDown(g)
        \/ smartgw_tunnel_monitor(g)
    \/ \E costs \in [Gateways -> Costs \cup {ROUTE_COST_BROKEN}] :
        olsr_calculate_routing_table(costs)
    \/ gw_default_timer

Spec == Init /\ [][Next]_vars

\* The timer fires as long as it runs.
FairSpec == Spec /\ WF_vars(gw_default_timer)

-----------------------------------------------------------------------------
(* Properties                                                              *)

TypeOK ==
    /\ gw \in [Gateways -> [known : BOOLEAN, flags : SUBSET (Families \cup {"nat"}),
                            seqno : Nat, cleanup_timer : BOOLEAN]]
    /\ \A g \in Gateways : gw[g].seqno <= Len(announced[g])
    /\ sel.current \in [AllFamilies -> Gateways \cup {None}]
    /\ sel.tunnel \in [AllFamilies -> Gateways \cup {None}]
    /\ sel.finished \in [AllFamilies -> BOOLEAN] /\ sel.timer \in BOOLEAN
    /\ sel.nodecount \in 0 .. Cardinality(Gateways)
    /\ sel.stablecount \in 0 .. GW_DEFAULT_STABLE_COUNT
    /\ usage \in [Gateways -> 0 .. Cardinality(AllFamilies)]
    /\ route \in [AllFamilies -> Gateways \cup {None}]
    /\ hna \subseteq Gateways \X Families
    /\ path \in [Gateways -> Costs \cup {NewCost, ROUTE_COST_BROKEN, NoTc}]

\* Types, and: whatever changes, fails or is withdrawn, a tunnel has exactly as
\* many users as families whose gateway it leads to, and the default route of a
\* family leads into the tunnel of its gateway.  A family without a gateway has
\* no route, unless a refused tunnel ended its change from a gateway the other
\* family still uses (olsr_set_inet_gateway, olsr_delete_gateway_entry).
TunnelsExact ==
    /\ TypeOK
    /\ \A g \in Gateways : usage[g] = Cardinality({f \in AllFamilies : sel.current[f] = g})
    /\ sel.tunnel = sel.current
    /\ \A f \in AllFamilies :
        IF sel.current[f] = None
        THEN route[f] # None => failures > 0 /\ usage[route[f]] = 1
        ELSE route[f] = IF sel.current[f] \in down THEN None ELSE sel.current[f]

\* The selected gateway is an entry that still exists, and the address of a
\* gateway is never taken from a null pointer (gateway.c olsr_set_inet_gateway,
\* cleanup_gateway_handler).
NoDangling ==
    /\ \A f \in AllFamilies : sel.current[f] # None => gw[sel.current[f]].known
    /\ ~sel.null

\* A selected gateway that the last SPF run found out of reach is being
\* replaced: the timer that looks for another one runs as long as it is
\* selected, although lookups, updates and deletions of other gateways stop
\* that timer, and although a gateway whose entry is newer than the run may be
\* chosen, out of reach or not (gateway.c olsr_trigger_gatewayloss_check).
LossPursued ==
    \A f \in AllFamilies :
        sel.current[f] # None /\ path[sel.current[f]] >= ROUTE_COST_BROKEN => sel.timer

\* README-Olsr-Extensions: the default code chooses one of the available
\* gateways and changes it if necessary.  If gateways that may be used stay
\* in reach, one is selected in the end (gateway_default_handler.c).
GatewayFound ==
    \A f \in Families :
        <>[](\E g \in Gateways : Valid(State(TRUE), g, f) /\ path[g] \in Costs)
            => []<>(sel.current[f] # None)

=============================================================================
