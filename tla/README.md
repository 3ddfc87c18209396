# A verification project for olsrd

TLA+ models of the routing core of the OLSR daemon under `src/Olsrd/src`, model-checked
with TLC on small instances and, where it pays, proved with TLAPS for every value of the
constants. The paths below are relative to `src/Olsrd/src`.

## 1. The system

olsrd is a single-threaded link state routing daemon for mesh networks (RFC 3626 with
link quality extensions). One loop in `scheduler.c` reads sockets, walks a timer wheel,
calls `olsr_process_changes` and increases the ANSN when asked to. Everything is therefore
atomic up to the return to that loop; what is hard is the *order* of messages, timers and
interface changes, the unreliable radio network, routers that reboot, wrapping counters,
and tables that point into each other.

    HELLO ──► link set ──► neighbour table ◄──► two hop table ──► MPR calculation
      │           ▲              ▲                                    │
      └► MPR selectors       MID set ◄── MID                          ▼
                                                         ANSN, HELLO/TC generation
    TC ─► topology set ─► SPF ─► routing table ─► kernel routes
    HNA ─► HNA set ─┘ (prefixes of a topology entry)
    any flooded message ─► duplicate set ─► forwarding ─► output buffers

### Inventory

| Component | State | Operations | What makes it correct |
|---|---|---|---|
| duplicate set (`duplicate_set.c`) | per originator: highest sequence number, 32-bit window, counter of too low numbers, validity | look up and record a message, age after a farewell, periodic cleanup | a message is accepted once, no new one is blocked, a rebooted originator is heard again soon |
| topology set (`tc_set.c`) | entries, edges, inverse shortcuts, prefix trees, reference counters, sequence windows | TC input, validity and garbage collection timers, edges of our own links, prefixes of MID and HNA | the newest information wins, shortcuts and counters are exact, every change runs the SPF |
| link set (`link_set.c`) | links with three timers and a pointer to the neighbour | HELLO, timers, interface removal, redirection of links to another neighbour | a link never points to a freed neighbour; status and links agree |
| neighbour table, two hop table (`neighbor_table.c`, `two_hop_neighbor_table.c`) | hash chains, mutually linked lists with counters and timers | insert, rename, delete, status change, two hop expiry | both directions of the relation and the counters agree; silence is forgotten |
| HELLO processing (`process_package.c`) | none | the handler that updates all tables above | recalculation is requested for every change |
| MID set (`mid_set.c`) | alias to main address | learn from HELLO and MID, prune, expire | neighbours under an alias are merged without a dangling link |
| MPR selectors (`mpr_selector_set.c`) | set with timers | select, expire | changes increase the ANSN |
| MPR calculation (`mpr.c`, `lq_mpr.c`) | MPR flags | recalculation | every two hop neighbour keeps a relay; no needless relays |
| SPF, routing table, kernel routes (`olsr_spf.c`, `routing_table.c`, `process_routes.c`) | candidate tree, route heads, best paths, change lists | calculation with backoff, versioned update, kernel requests that may fail | routes are shortest; no route outlives its path; a failure is retried |
| scheduler (`scheduler.c`) | timer wheel, sockets, wrapping clock | start, change, stop, walk | a running timer fires once, not before its time |
| forwarding, parser, buffers (`olsr.c`, `parser.c`, `net_olsr.c`) | pending output | dispatch, forward, flush | a message is forwarded at most once and reaches everyone |
| message generation (`build_msg.c`, `lq_packet.c`, `generate_msg.c`) | ANSN, empty TC time | HELLO, TC, MID, HNA | who gets all parts of a TC has exactly the advertised neighbours |
| smart gateway (`gateway.c`, `gateway_default_handler.c`, `linux/kernel_tunnel.c`) | gateways, selection per family, tunnels with user counts, search timer | HNA, expiry, loss, search, tunnel monitor | tunnels, routes and selection agree; a lost gateway is replaced |
| HNA set, hysteresis, link quality plugins | own tables | messages, timers | see the plan |
| interfaces, configuration, kernel interface, plugins, logging, containers | | | not protocol state, see section 7 |

Every component and its status is listed in `PROJECT.json`, and so is every hazard, at
the line where it bites.

## 2. Modules

| Module | Models | Extended or checked by |
|---|---|---|
| `SeqNo` | arithmetic of wrapping 16-bit numbers (`olsr_seqno_diff`, `SEQNO_GREATER_THAN`, `olsr_seq_inrange_*`) | `DuplicateSet`, `TcSet` |
| `DuplicateSet` | `duplicate_set.c`, `TIMED_OUT`, the jittered cleanup timer | `MCDuplicateSet`, `DuplicateSetProofs` |
| `DuplicateSetProofs` | proofs about `DuplicateSet` | TLAPS |
| `TcSet` | `tc_set.c`, prefixes in `routing_table.c`, edges of our links (`olsr_spf.c`, `link_set.c`), bordered TCs (`lq_packet.c`) | `MCTcSet`, `TcSetProofs` |
| `TcSetProofs` | proofs about `TcSet`: the graph, the counters, and which messages are believed | TLAPS |
| `Neighborhood` | the composition of link set, neighbour table, two hop table, MPR selectors and MID set under HELLO, MID, timers and interface changes | `MCNeighborhood`, `NeighborhoodProofs` |
| `Mpr` | `mpr.c` and `lq_mpr.c`, driven by changes of the neighbourhood | `MCMpr` |
| `Deadlines` | abstract specification of timers: pending deadlines, one callback at a time | implemented by `Timers` |
| `Timers` | `scheduler.c`: clock, timer wheel, walk with callbacks; free list of `olsr_cookie.c` | `MCTimers`, `TimersProofs` |
| `TimersProofs` | proofs about `Timers` and its refinement of `Deadlines` | TLAPS |
| `Routes` | `olsr_process_changes`, `olsr_spf.c`, `routing_table.c`, `process_routes.c`, interfaces that fail, a kernel that refuses | `MCRoutes`, `RoutesProofs` |
| `RoutesProofs` | proofs about `Routes`: the shortest paths, and what the kernel has of them | TLAPS |
| `Advertise` | the sender of TCs (`lq_packet.c`, ANSN) and its output buffer composed with the receiver's edges (`tc_set.c`) | `MCAdvertise` |
| `Flood` | several routers: `parser.c`, `olsr_forward_message`, output buffers of `net_olsr.c`, one duplicate set each | `MCFlood`, `FloodProofs` |
| `FloodProofs` | proofs about `Flood` | TLAPS |
| `Gateway` | the smart gateway client and its tunnels | `MCGateway`, `GatewayProofs` |
| `GatewayProofs` | proofs about `Gateway` | TLAPS |
| `NeighborhoodProofs` | proofs about `Neighborhood` | TLAPS |
| `NumberFacts` | lemmas the proofs share: about `%`, least numbers, induction over an interval, functions defined step by step | TLAPS |

### DuplicateSet

`duplicate_set` maps an originator to its `dup_entry`; the bit field `array` is the set of
distances behind `seqnr`. `Deliver` is `olsr_message_is_duplicate` (`Verdict` is its
result, `Updated` its effect), `olsr_cleanup_duplicates` and
`olsr_cleanup_duplicate_entry` are the functions of these names. `Send`, `Reboot`, `Tick`
are the environment: an originator numbers its messages with an unbounded true number, of
which the code sees the remainder; the last `IN_FLIGHT` of them may be lost, repeated and
reordered; after a reboot it goes on anywhere. The other variables are history.

### TcSet

`tc_tree`, `tc`, `edge` (ANSN or `NoEdge`), `edge_inv`, `prefix_tree` and `refcount` are
the database; two flags are `changes_topology` and `changes_hna`. `olsr_input_tc` splits into the three
outcomes of the handler: `IgnoreTc` (already seen, or out of the expected window),
`BelieveTc` and `BelieveFarewell` (an empty message with full borders, which kills the
entry). Timers are `olsr_expire_tc_entry` and `olsr_expire_tc_edge_gc`; our own edges come
and go with `AddMyEdge` and `DeleteMyEdge`. The network keeps the last `IN_FLIGHT`
messages of an originator, in any order and any number of copies; `SendTc` sends a whole or
a borderless TC, `SendTcParts` one that was cut between two addresses, `RebootTc` the
first one after a reboot. `view` is the message that was believed last, and `skipped` the
16-bit numbers of the newest ones that were not. `WithinWindows` says that what was lost
since `view` fits the two windows; a longer gap looks like a stray number to the code.

### Neighborhood

All tables are one record `db` that the functions of the code thread through, so that a
handler is one action as in the single-threaded daemon. Neighbour entries have an
identity: a link holds an id, and using an id that was freed shows up as a violation.
`table` is the set of entries and `ahead` their order in the hash chains (an insertion goes
to the front, a lookup takes the first match). Loops that treat several links, aliases or
two hop entries alike are functions of sets (`DeleteLinks` for the links of an interface): no
two entries have the same address, so the order does not matter. `olsr_hello_tap`, `olsr_input_mid`, the five timer callbacks,
`olsr_remove_interface`, `AddInterface`, `olsr_process_changes` and `increase_local_ansn`
are the actions. `olsr_hello_tap` ends with `olsr_process_changes`, as the code does
(`Settle`).

Assumptions: `lq_level` 2 without hysteresis and `TcRedundancy` 2 (the configuration check
of link quality demands them), `allow_no_interfaces`; a neighbour has one main address, which
stays the same and is no alias of another router (`MainAssumption`: section 4 says what happens
otherwise), and memory for its entry (`IdsAssumption`; the code exits when it runs out). Timers carry no duration, because every
message brings its own validity time and timers are jittered: any running timer may fire
at any time. Path costs are left to `Mpr`.

### Mpr

Neighbours are numbered in the order of the hash table, which decides ties. `Cleared`,
`olsr_chosen_mpr`, `SoleLinks`, `olsr_find_maximum_covered`, `Level`, `Cover` and
`olsr_optimize_mpr_set` are the steps of `mpr.c`; a calculation is a record with the MPRs
and the counters, the ones that the code forgets to reset or decrement included.
`Candidates`, `AddBest` and `RelaysFor` are `lq_mpr.c`. The other actions change the
neighbourhood one entry at a time.

### Timers and Deadlines

`timer_wheel` is a list of blocks per slot, `entry` what a block holds, `free_list` the
blocks of freed timers that the next start may reuse. `walk_timers` is not atomic: it
stands at a slot or in a callback, and while it is there `olsr_start_timer`,
`olsr_change_timer` and `olsr_stop_timer` are steps of their own, applied to any timer, the
one called back included. The clock moves only between walks, as in the main loop.
`Deadlines` is what users rely on: pending timers with the time that is left, fired only
when due, disarmed or armed again after the callback unless the callback stopped them.
The mapping takes the running blocks as the timers and the signed distance to the clock
as the time left.

### Routes

The link state database is reduced to what a run reads: the cost of links and edges and
the prefixes of nodes. `olsr_spf_run_full` is the loop over the candidate tree, `SpfPass` one turn
of it: `olsr_spf_extract_best` takes the candidate that is ahead and `olsr_spf_relax` explores its
edges, which do not depend on each other because a node never improves itself. The candidates are a
set with the pass in which each came in (`since`): `Ahead` is the order of the tree, in which a tie
goes behind its equals. Ties, hop counts and next hops are those of the code. `NewRib` is the versioned
update, `olsr_rt_best` the election. `UpdateRoutes` updates the kernel route by route, any of which
may be refused. With IPv4 an add replaces the route of the same metric; with IPv6 the old route is
deleted first (`BeforeAdd`), whatever becomes of the add, and an add that meets "File exists"
erases the similar routes and is tried again (`Erased`; the erase is taken to remove all of them, as
its log message says). Deleting a route that is not there succeeds. Requests with a gateway say
`RTNH_F_ONLINK`, so the host route that `linux/kernel_routes_nl.c:576-602` generates for an unreachable
gateway is not modelled, nor are link local destinations, which get no route.

`olsr_process_changes` respects the backoff timer. `InterfaceFails` and `olsr_remove_interface`
separate a failure from the moment the daemon hears of it. `cnf.fault` is the kind of trouble of a behaviour:
none; requests that are refused; an interface set down, whose routes the kernel drops, noticed before the
next SPF run (`prompt`) or at any time (`late`); or a lost carrier (`carrier`), for which the kernel keeps
the routes while the daemon removes the interface. `olsr_shutdown` ends a behaviour. Two variables
are history: `refused` says whether the last update met a refusal, and `stray` holds the routes in
the kernel that no head claims any more, to which nothing in the code refers.

### Advertise

One router's advertised neighbours `sym` change, the main loop raises the ANSN some time
later, and the TC timer sorts the neighbours (`create_lq_tc`), cuts them into parts that
fill the buffer and describes the gap between two parts by a border flag
(`serialize_lq_tc`, `calculate_border_flag`). Parts wait in the buffer with HELLOs and
forwarded messages, are sent in order, and each may be lost. `olsr_input_tc` is the
receiver after the checks of sequence numbers, which are `TcSet`'s: it turns flags into
border addresses and drops the older edges between them. An address is a number of `IPSIZE`
bytes, and the order of addresses is that of the host, so that the two byte orders can be
told apart.

### Flood

Routers own interfaces, some of which are ethernets; `Hears` may be one-way. A packet is
a sequence of messages; `parse_packet` handles and forwards them one by one into the
buffers of all interfaces (`Parsed` is the state of the router after each message, `Forwarded` what
forwarding one changes), `Generate` and `generate_hello` are the timers that fill and
send buffers. The neighbourhood is settled and every choice of MPRs in `MprSets` covers
the two hop neighbours (an assumption TLC evaluates). Of the duplicate set the entry, its
bits and the missing bit of the creating message are kept; at the start entries may exist
from earlier messages or not. Messages have a type. The handler of a TC (`olsr_input_tc`) returns
false for one that was believed already and for older ones until too many were ignored, and
`parse_packet` does not forward what a handler refused (`Passes`, `Read`); those of MID and HNA
refuse nothing over a symmetric link. Of the topology set a router keeps the number believed
last and the counter of ignored ones (`tc`); TCs list neighbours, come within a window of each other and do
not expire during a flood, so that stray numbers, farewells and reboots are left to `TcSet`.
`Assured` says which messages must reach everyone: every MID and HNA, but a TC only where all
neighbours are MPRs and while it is the newest (section 4). `WellConnected` says in which networks a flood is to be complete: the
interface a message is sent through has all neighbours of its router, messages fit an empty
buffer, an ethernet joins all who are on it, numbers are distinct, and the TTL is at least twice the
number of routers.

### Gateway

The handlers of `gateway.c` and `gateway_default_handler.c` call each other; here each
takes a state record and returns it, and an action applies the outermost one (`Handle`).
`sel` holds the selected gateway and tunnel of each family, the search timer and its
counters; `usage` is the user count of a tunnel and `route` the default route of a family
in the kernel. `SetFamily` is the part of `olsr_set_inet_gateway` for one family, `SetBest`
the calls to it from `gw_default_choose_gateway`. HNAs arrive in any order and any number of copies; expiry of a prefix, loss
of the topology entry, new path costs, refused tunnels and interfaces that go down are
the environment. A new topology entry has path cost 0 (`NewCost`: zeroed memory), which makes its
gateway the nearest of all, until `olsr_calculate_routing_table` sets the costs of all entries
(`Computed`) and checks once for families whose gateway was lost. `null` records that the address of a gateway was taken from a null
pointer.

## 3. Runs

| Run | Checks | Shows |
|---|---|---|
| `duplicates` | `TypeOK`, `AcceptedOnce`, `NoNewMessageBlocked`, `StartsOverOnlyAfterReboot`, `RebootRecovers`, `KeptWhileHeard` | the window under loss, copies, reordering, wraps and reboots; only silent originators are cleaned up |
| `topology` | `TypeOK`, `InverseExact`, `RefcountExact`, `NewestRevokes`, `NewestBelieved`, `RebootBelieved`, `ChangesFlagged` | the graph of two originators and our own edges, messages in any order across both wraps, a reboot |
| `nb_links` | `SymLinkMeansSymNeighbor`, `SilenceForgotten` | one neighbour on two interfaces; under fairness all is forgotten when HELLOs stop |
| `nb_mid` | `TypeOK`, `NeighborMustExist`, `TwoHopConsistent`, `MprUpToDate` | aliases, MIDs and all timers: no dangling pointer, no wrong counter, no missed recalculation |
| `mpr` | `LqBestCovered`, `LqNeeded`, `SoleRelayKept` | both MPR algorithms on three neighbours whose state changes in any order |
| `timers` | `WheelExact`, `LateOnlyAfterWrap`, `Implements`, `WalkTerminates` | the wheel implements `Deadlines` across the wrap of the clock, whatever callbacks do |
| `routes` | `TypeOK`, `ShutdownClean`, `SpfExact`, `KernelFollows` | every run finds the best paths, and the kernel follows in IPv4 and IPv6 although it refused before, interfaces failed or carriers were lost; what a shutdown may leave, and why (section 4) |
| `advertise` | `TypeOK`, `ReceivedExact`, `PartsQueued`, `StillAdvertisedKept` | cut TCs under loss and changing neighbours |
| `flood` | `TypeOK`, `ForwardedOnce`, `FloodComplete` | floods of MIDs reach everyone, whatever relay is chosen, in any order and with full buffers; those of TCs where all neighbours are relays |
| `gateway` | `TunnelsExact`, `NoDangling`, `LossPursued` | gateways of two families that come, change, go out of reach and go |

Two runs state what a comment or a document says and the code does not do:

| Run | Property | Disagreement |
|---|---|---|
| `routes_backoff` | `RoutesFollow` | a change during the second after an SPF run is flagged, skipped because the backoff timer runs, and its flag cleared (`olsr_spf.c:329`); unless another change follows it never reaches the kernel |
| `gateway_lost` | `GatewayFound` | when the selected gateway is deleted while none is in reach, the search is not started again (`gateway_default_handler.c:145`) and gateways that return are never used |

### Bounds and why they are enough

* `duplicates` uses 16 sequence numbers, a window of 3, a limit of 2 too low numbers and 3
  messages in flight. `MAX_SENT` = 22 passes the wrap from every start, and 16 numbers
  leave room for a reboot below, inside and above the window. The relation
  `WINDOW + IN_FLIGHT <= HALF` is the one of the code (32 + few, 32768). `MAX_LOST` bounds
  messages lost in a row by less than half the range: in two minutes of silence, after which
  the entry is gone, olsrd cannot send 32768 messages. `MCScenarios` either keeps the clock
  still or stops after three messages and before the millisecond clock wraps (section 4).
* `topology` uses 16 numbers that start at the wrap, windows of 3 with multipliers 2, and
  one tolerated old message. Three nodes give an edge, its inverse, our own edges and one
  cut; four messages give a split message with its predecessor and its successor.
  `MCScenarios` is the union of four scenarios, each of which bounds what the others vary.
* `nb_links` has one neighbour, two interfaces, all link types, two values of willingness;
  `nb_mid` has a router with two addresses, heard by a neighbour that lists it, and a MID.
  Three messages suffice for entry, merge and re-entry; timers may fire between any of
  them.
* `mpr` has three neighbours, one of which is listed as a two hop neighbour too, two
  coverages, costs 1, 2 and broken.
* `timers` has two blocks, two slots and a clock of 16: a timer can wait for more than a
  round, share its slot, be freed and reused in a callback, and meet the wrap from every
  start. A stall may last more than a round.
* `routes` has four nodes, two costs and a network announced twice; six events build and
  take down the square of nodes. `MCScenarios` varies topology without faults, and
  networks and faults without the fourth node. Of the combinations of fault, IP version and metric it
  takes nine: every fault, each in the version in which it does most (refusals and lost carriers in
  both), flat metrics and hop counts. Refusals have five events, and
  IPv6, refusals and hop counts one cost of our links. `routes_backoff` has the smallest instance that
  shows its disagreement: one neighbour over one interface.
* `advertise` has addresses of two bytes of two bits, two addresses to a part, up to five
  neighbours, so TCs of three parts; two changes and two TCs on an ANSN that wraps. The
  host of the second network is little endian, with addresses that differ in the last byte.
* `flood` has six routers in rows with an ethernet for the flood of a MID, and a line of three with
  a parallel ethernet, one-way hearing and too small a buffer for two messages, in which two MIDs are
  flooded or two TCs that overtake each other; one packet
  may be lost. One older TC is ignored (`MAX_IGNORED` = 1) before the next is believed, so both
  outcomes happen; the routers have covering MPRs or, for the TCs, all neighbours as well. `MAX_TTL` = 18 is twice the nine routers. In the rows one router chooses between two
  relays, and the entries of the duplicate sets exist or not. `MCFlood` evaluates
  `WellConnected`, which the theorem assumes.
* `gateway` has two gateways and both families, three HNAs, NAT on or off at a gateway, one
  refused tunnel; costs are 0 for a new entry, 1, or broken, for each gateway in every SPF run. A refused tunnel,
  interfaces that go down and a gateway that announces a change are separate scenarios. The stable count is 1, as longer waiting only delays the same choice.

Deadlock is not checked, except in `timers`: the other runs stop when their bounds on
messages or numbers are reached, and the daemon itself may be idle.

### Fairness

* `SilenceForgotten`: weak fairness of the link timers and of the two hop timers.
  `walk_timers` visits every slot of the wheel and fires whatever timed out, and a link
  timer that is not restarted by a HELLO stays expired. Messages are never assumed to
  arrive: the property starts when they stop.
* `WalkTerminates`: the main loop goes on and callbacks return. Users need not do anything.
* `RoutesFollow`: `olsr_process_changes` runs every round, the backoff timer expires, and a
  failed interface is noticed.
* `GatewayFound`: the search timer fires while it is set.

`FloodComplete` needs none: a flood is finite, and the property is about its end.

## 4. Behaviour to know of

These limit the properties above, and each is stated with the property or as a hazard.
The ones marked * were found by TLC with a stronger property than the one kept.

* A new duplicate entry is created with an empty window, so the message that created it
  is accepted, and forwarded, a second time when another copy arrives. `AcceptedOnce` and
  `ForwardedOnce` except it.
* `valid_until` is compared as a plain number, so around the wrap of the clock (49 days) an
  entry is not refreshed and may be removed early; `duplicates` stops before.
* \* After a reboot to a lower ANSN a believed TC leaves the edges of the former life
  (`tc_set.c:598`) until the entry expires; `NewestRevokes` is for originators that did not
  reboot.
* \* The symmetry timer does nothing when the last HELLO listed us as asymmetric
  (`link_set.c:446`): the neighbour stays symmetric until its link is deleted.
* \* A new two hop entry gets no timer, because `olsr_change_timer` ignores a timer that was
  never started (`process_package.c:271`): it goes with its neighbour only.
* `SymLinkMeansSymNeighbor` fails when a neighbour sends from an alias before the alias is
  known and has another link: the status is computed before the alias is entered
  (`link_set.c:730`). `nb_links` has one address each; the theorem asks that each neighbour is
  heard from one interface.
* `NeighborMustExist` fails when a neighbour changes its main address (`mid_set.c:285`);
  `MainAssumption` has stable main addresses.
* \* `olsr_optimize_mpr_set` removes several relays that are each redundant without
  decrementing the counters (`mpr.c:498`), and a two hop neighbour may lose all of them,
  although the comment at line 497 says "Do not remove if we find a entry which need this
  MPR". `SoleRelayKept` is what remains.
* The local counters of `olsr_calculate_two_hop_neighbors` are not reset between
  neighbours, so the greedy loop of `mpr.c` stops late. `SoleRelayKept` is stated for
  neighbours of equal willingness only.
* A path cost that becomes broken does not request a new MPR calculation
  (`process_package.c:128`), and an MPR that is only added raises no ANSN (`mpr.c:277`).
* A topology entry that only a MID or HNA prefix created has no validity timer and stays
  (`routing_table.c:532`).
* \* Our own edge to a neighbour heard on another than its main interface is added under the
  main address (`olsr_spf.c:415`) and looked up for deletion under the interface address
  (`link_set.c:366`). It stays, and the next run reaches the neighbour over it without a next
  hop and inserts no route. `SpfExact` is checked for neighbours heard on their main one.
* A new edge of ours costs `LINK_COST_BROKEN` in the run that adds it (`olsr_spf.c:416`); the
  reference of `SpfExact` says so.
* \* Routes that no head claims any more stay in the kernel for good, over shutdown too. There are
  four ways to get one. An interface that lost its carrier is removed (`unix/ifnet.c:191`) and its heads
  are dropped without deleting their routes (`process_routes.c:391`), which the kernel still has. An
  SPF run that comes before the message about an interface that was set down elects a path over it,
  the kernel refuses the route, and the head is dropped while its old route over another interface
  stays. With IPv6 the delete before an add is refused and the add is not
  (`process_routes.c:255-262`). With hop counts as metrics an IPv4 route of another metric
  replaces nothing (`process_routes.c:254`). `ShutdownClean` says that there are no others.
* \* With IPv6 an add that is refused after the old route was deleted leaves a head that claims the
  old one (`process_routes.c:255-262`), and a run that elects it again installs nothing. `KernelFollows`
  names this and the next exception, and says that no other head claims a route the kernel lacks.
* \* A route head whose best path was freed is not found by `olsr_delete_interface_routes` when its
  interface goes (`routing_table.c:350`). It claims a route that the kernel has dropped, and a run
  that elects the same next hop once the interface is back does not install it (`process_routes.c:347`).
* A TC is not flooded like other messages. `olsr_input_tc` refuses the copy of a TC that was believed
  (`tc_set.c:850`) and `parse_packet` does not forward what a handler refused (`parser.c:411`), so a
  router that hears a TC first from a neighbour that is not its selector never forwards it, and
  routers behind it may miss it. Nor is a TC forwarded by a router that has a newer one. `FloodComplete`
  asks of TCs only what is left.
* A new topology entry has path cost 0 until the next SPF run (`tc_set.c:152`), so a gateway out of reach
  may be chosen as the nearest, and its loss is seen by that run only. `LossPursued` speaks of what the
  last run found.
* After the clock wraps, `walk_timers` skips the slots between the old and the new clock
  for a round; `LateOnlyAfterWrap` bounds the delay.
* \* On little endian hosts IPv4 addresses are sorted as host numbers (`ipcalc.h:70`), while
  borders are computed from the first byte on (`lq_packet.c:484`). If the neighbours of a cut
  TC differ in more than the last byte, handling one part may remove edges that another
  part advertises; `StillAdvertisedKept` holds within one /24.
* \* The ANSN is not raised when the last link of a symmetric neighbour is deleted with its
  interface (`link_set.c:375`): receivers keep the edge until another change raises it.
  `ReceivedExact` allows what was withdrawn since the ANSN was raised last.
* `fwdtimer` is set but nothing flushes a buffer when it expires: what is forwarded leaves with
  the next message that is sent. A message of TTL 0 is not dropped (`olsr.c:325` passes
  TTL below 2 to ethernets), and a copy with TTL 1 enters the duplicate set and so suppresses
  a later copy with a higher TTL.
* With `SmartGatewayAllowNAT` only gateways behind NAT are chosen
  (`gateway_default_handler.c:61` compares for equality). A current gateway that stops to serve
  a family stays selected if there is no other one. After a refused tunnel nothing is tried
  again (`gateway.c:279`), and the old route stays while the other family keeps its tunnel.
* A denied address in a TC returns before its link quality bytes are read (`tc_set.c:641`), a
  changed interface address is overwritten before the links of the old one are looked up
  (`unix/ifnet.c:312`), and of the links of a neighbour without link quality the first in the
  list wins even when it is asymmetric (`link_set.c:256`), and with it a cheaper asymmetric link, whose
  symmetry timer ran out and which keeps its cost for a while, hides a symmetric one to the same neighbour
  (`link_set.c:287-297`): outside of the models.

## 5. Proofs

No theorem rests on an instance: each holds for every value of the constants that satisfies the
named assumptions of its module, and a hypothesis that a theorem has beyond them is named below.

`DuplicateSetProofs` proves, for every set of originators and every value of the constants
that satisfies `SeqModAssumption` and `DuplicateSetAssumption`:

* `TypeCorrect`: `Spec => []TypeOK`. `TypeOK` is inductive once the wrapping arithmetic is
  known to stay in range (`DiffValue`, `EntryTypes`, `NewEntryTypes`).
* `AcceptsOnce`: `Spec => []AcceptedOnce`. `AcceptedOnce` speaks of verdicts and is not
  inductive. `WindowInv` strengthens it: an accepted message that may still arrive is one of
  the `IN_FLIGHT` newest, lies at most its age plus `WINDOW - 1` behind the top of the window
  (counted modulo `SEQ_MOD`), and has its bit set while it is inside the window, the creating
  one aside. With `WINDOW + IN_FLIGHT <= HALF` that distance is below half the range, so that
  `olsr_seqno_diff` computes it without ambiguity (`DiffValue`). `MoveUp` shows that shifting
  the window keeps the bits of all accepted messages, `DeliverKeepsWindow` treats the only
  action that moves the entry and the accepted messages together, `UntouchedWindow` the
  others, and `WindowImpliesOnce` gives the
  property back.

`TcSetProofs` proves, for every finite set of addresses, every set of originators,
prefixes and bounds that satisfies `TcSetAssumption`:

* `InverseAlwaysExact`: `Spec => []InverseExact`. The inductive invariant is `NetOK /\ EdgesOK`.
  `EdgesOK` is the property for single pairs of nodes together with the types of `edge` and
  `edge_inv`. `NetOK` says that messages in flight list addresses, and not their own
  originator: a router that listed itself would have an edge that is its own inverse, which
  `Connected` does not connect.
* `RefcountAlwaysExact`: `Spec => []RefcountExact`, with `LocksOK`: the counter of each entry,
  finite trees, and our own entry never leaving the tree. `CountDelta` is the cardinality
  of an edge tree that gains and loses edges; a new entry starts with two locks (`LocksCount`).
* `ChangesAlwaysFlagged`: `Spec => ChangesFlagged`, an action property. It needs `OwnPrefix`:
  an entry in the tree keeps the `rt_path` of its own address. Without it a farewell could delete an
  entry, and edges it does not revoke, with no flag set.

`DuplicateSetProofs` goes on under two more assumptions, which the constants of the runs and
those of the code satisfy: `DelayAssumption` (a message is overtaken by no more than a window,
fewer than half the range are lost in a row) and `ClockAssumption` (the millisecond clock does
not wrap; section 4 says what happens when it does).

* `NothingNewBlocked`: `Spec => []NoNewMessageBlocked`, and `RestartMeansReboot`:
  `Spec => []StartsOverOnlyAfterReboot`. Both follow from `FreshInv`: unless the originator
  rebooted, no message is ahead of what it sent, the top of the window is a message that was
  delivered, bits stand for accepted messages only, and the counter of too low numbers is zero.
* `RebootAlwaysRecovers`: `Spec => []RebootRecovers`. `BlockedInv` weighs the messages blocked
  in a row against the counter and the bits that the former life left in the window.
* `AlwaysKeptWhileHeard`: `Spec => KeptWhileHeard`, an action property, from `ValidInv`: the
  validity time of an entry is the wrapped sum of the last time it was heard and the holding
  time.

`TcSetProofs` adds, under `AddressAssumption`, `WindowAssumption` (the windows before and
after a number do not overlap) and `AgeAssumption` (ANSNs are compared within half their
range):

* `DatabaseTypes`: `Spec => []TypeOK`.
* `NewestAlwaysBelieved`, `NewestAlwaysRevokes`, `RebootedAlwaysBelieved` for `NewestBelieved`,
  `NewestRevokes`, `RebootBelieved`. The invariant `BeliefInv` holds the invariants above
  and three parts for each originator. `ViewOK` relates the entry to the message
  believed last: its numbers are stored, what it listed has its ANSN, and what it covers and
  did not list is not older. `OrderOK` relates messages in flight, the believed one and edges
  to the newest message: none is newer, and one with the ANSN of the newest agrees with it.
  `SkipOK` accounts for every ignored number: the stored number, the remembered stray one
  and the counter of ignored messages bound them. `StepOf` reduces the actions to what one
  originator can see of them, so that each part has one short case per kind of step.

`TimersProofs` proves, for every set of blocks, wheel and clock with `TimersAssumption` (a round
of the wheel and twice the longest stall fit half the range of the clock):

* `TimersWheelExact`: `Spec => []WheelExact`, with `WheelInv`: the lists of the walk hold timers
  of the slot being walked.
* `TimersLate`: `Spec => []LateOnlyAfterWrap`. `PendingInv` gives every running timer that is
  due a time at which the walk will come to its slot (`Visits`), and bounds how late that
  is for the slots that the wrap of the clock skips (`Skipped`).
* `TimersImplement`: `Spec => Implements`. The initial states map to initial states of
  `Deadlines`, every step to a step of it or a stutter. A tick needs `PendingInv`: the abstract
  clock may only pass what no timer misses.

`GatewayProofs` proves, for every finite set of gateways, all families and any number of refused
tunnels with `GatewayAssumption` and `CostAssumption` (there is a largest cost):

* `TunnelsAlwaysExact`, `NeverDangling`, `LossAlwaysPursued` for `TunnelsExact`, `NoDangling`,
  `LossPursued`. The handlers call each other, so the invariant `Kept` is about the state they
  pass on, and each handler has a lemma that it keeps it: tunnels and routes are exact
  (`TunnelsOK`), an entry to be cleaned up offers nothing and is not selected (`EntriesOK`), a
  selected gateway that the last SPF run found out of reach has a running timer and an unfinished search (`Pursued`: the
  property alone is not inductive, as a finished search stops the timer). What is chosen may
  be used (`BestFacts`), which is why no null gateway is set. `HandleOK` carries the result of a
  handler over to the next step, refusals included.

`NeighborhoodProofs` proves, for every finite set of addresses, interfaces and identities and
any number of messages with `NeighborhoodAssumption`, `MainAssumption` and `IdsAssumption`:

* `NeighborhoodTypes`, `NeighborsAlwaysExist`, `TwoHopAlwaysConsistent`, `MprAlwaysUpToDate` for
  `TypeOK`, `NeighborMustExist`, `TwoHopConsistent`, `MprUpToDate`. Handlers thread the tables
  through several functions, so the inductive invariant `Kept` is about a record of tables, and
  each function has a lemma that it keeps it. `Peers` strengthens `NeighborMustExist`: no two
  entries have the same address (a link is removed by the address of its neighbour, so that
  otherwise the wrong entry could be freed), and the address of an entry is the main address of a
  sender of its links. With `MidKept` (an alias is no main address) it follows that no entry stands
  under an alias (`NoBogus`), that the entry a link needs is found or there is memory for it
  (`FreeId`), and that redirecting links is never needed. `Hops` is `TwoHopConsistent` pair by
  pair; `HopsCut` and `HopsAdd` are its two ways to change. `Reported` says of each function that
  it requests a recalculation or leaves what the MPR calculation reads as it was.
* `SymLinksMakeSymNeighbors`: `OneAddressHeard` implies `Spec => []SymLinkMeansSymNeighbor`. Only
  links of interfaces that are up exist, and all links of a neighbour come from one address,
  which `get_neighbor_status` looks at whether it is known as an alias or not (`SymUpdated`).

`RoutesProofs` proves, for every finite set of nodes and all costs, interfaces and networks
with `RoutesAssumption`:

* `RoutesTypeCorrect`: `Spec => []TypeOK`.
* `ShortestPathsFound`: `HeardOnMain` (neighbours are heard from their main addresses, see
  section 4) implies `Spec => SpfExact`: whatever happened before, a run is a correct Dijkstra.
  The reference is the set of all simple paths with their costs, so the argument has two
  halves. `Found`: every node that was reached has a path of its cost and hop count over its
  next hop, and all nodes before it on that path are done. `Settling`: no candidate is
  nearer than a node that is done, no edge of a done node improves anything, and every pass
  gets one node done. `Bounded` keeps the costs in range; `Queued` is the order of hops when
  all edges are equal, from which fewest hops follow. Each pass keeps these, they hold
  after any number of passes by `IntervalInduction`, and with as many passes as nodes no
  candidate is left. Costs then bound each other from edge to edge along any path, which gives
  the minimum. `OwnEdges`, an invariant of the tables, says that we have edges only to nodes
  we have a link to.
* `NoRouteLeftBehind` and `KernelAlwaysFollows`: `Spec => []ShutdownClean` and
  `Spec => KernelFollows`, for both IP versions, every metric and every fault. `KernelInv` relates
  prefixes, heads and the kernel. `Held`: a route of the kernel is over an interface that is not down,
  and is either the one its head has saved or a stray one, never both. Unless the kernel refuses
  requests or failures are noticed late, heads have installed what they elected (`InStep`). Links
  and paths lead over configured interfaces (`LinksOK`). `AddFacts` says what one change of a route
  leaves of the old one, `UpdatedKernel` what an update does to all routes and heads: which routes it
  loses sight of, and which heads it leaves claiming a lost route. `UpdateExplained` traces both to
  the faults, so that the reasons section 4 lists are all there are.

`FloodProofs` proves, for every finite network, all covering MPRs and any messages with
`FloodAssumption`:

* `FloodTypeCorrect`: `Spec => []TypeOK`. This includes that the counter of a buffer is the
  size of what it holds, which is recursive over the packet (`SizeCounts`).
* `EveryMessageForwardedOnce`: `Spec => []ForwardedOnce`, whatever is lost. `ForwardedOnce` is
  not inductive, because it says nothing of the turns that are left. `Once` counts them
  (`Turns`): how often a message was forwarded, and one more while its bit is not set. A
  message has two turns only if it created the entry, and then no other of its originator has.
* `EveryFloodComplete`: `WellConnected` implies `Spec => []FloodComplete`, for the messages that are
  `Assured`. `FlightInv` follows
  the copies: each comes from a router that sent the message, and its hop count is at most the
  number of occasions on which the message was forwarded (`Relays`), two for each router at
  most. So with twice the number of routers within the TTL (127 routers at 255) no copy
  dies on its way. `SpreadInv` says what a router that sent a message has done: its neighbours
  are reached, having handled the message or with a copy coming (`Reached`), and theirs are
  reached or next to a router that has sent it or will, as a copy is coming from
  a selector (`Promised`, `Engaged`). The hard case is a router that does not send back to the
  ethernet it heard the message on: whoever is on that ethernet heard the same sender. That the
  duplicate set drops copies is harmless, as a number is entered only when its message is
  forwarded (`SeenInv`). That TCs are refused is harmless for an assured one: a router refuses it only if it
  has believed it, over a link whose other end is its selector, and so has forwarded it (`TcDone`,
  a part of `SeenInv`). When nothing is on its way, promises have become deliveries, and
  `JoinedWithin` carries them to all who are joined.

Only model-checked:

* `Mpr` and `Advertise`. Both compute with folds over sets and sequences; proofs need what
  `Routes` and `Flood` have by now, loops as functions over an interval. `ReceivedExact` and
  `StillAdvertisedKept` also rest on the bits of two addresses (`2^n`, `\div`), which is
  beyond the SMT solver.
* Liveness under fairness (`SilenceForgotten`, `WalkTerminates`) and the two runs of section 3
  that find disagreements. The prover has no rules for fairness and `ENABLED`.

The library's induction rules take an operator as a parameter, which the installed provers
cannot instantiate. Loops are proved about nevertheless: `IntervalInduction` states induction for
a set of numbers, and `RecursionExists` that a function defined step by step over
`0 .. n` exists, so that it satisfies its equations.

## 6. Plan

Done: all modules of section 2, with proofs about `DuplicateSet`, `TcSet`, `Timers` (the
refinement of `Deadlines` included), `Gateway`, `Neighborhood`, `Routes` and `Flood`.

Theorems next, in order of value: `LqBestCovered` and `LqNeeded` of `Mpr`; `TypeOK` and
`PartsQueued` of `Advertise`.

Modules that would follow: `Hysteresis`, which needs its scaled arithmetic; the mantissa
encoding of times against a reference; the integer variants of the link quality filters.

## 7. Not modelled

* Byte layouts and parsing of packets: messages are records of sets or sequences. The only
  positions that matter are those at which a TC is cut (`Advertise`).
* Announcing an own uplink, gateway speeds and external prefixes, plugins that replace the
  default gateway handler.
* Link quality values: a choice of "relevant change" or a small cost. The filters of
  the `lq_plugin_*` files are arithmetic on floating or fixed point numbers.
* `olsr_change_myself_tc`, the flush at shutdown, the address deny list, collision
  reports: rare administrative paths of `tc_set.c` and `mid_set.c`.
* The configuration parser (its checked results are the constants), logging, the memory
  pools, the containers (sets, functions, sequences here), kernel and socket calls,
  plugins, the graphical front end, and vendored code.
