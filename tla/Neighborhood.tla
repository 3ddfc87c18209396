----------------------------- MODULE Neighborhood -----------------------------
(***************************************************************************)
(* What a router knows of its one and two hop neighbourhood: the link set  *)
(* (link_set.c), the neighbour table (neighbor_table.c), the two hop table *)
(* (two_hop_neighbor_table.c), the MPR selectors (mpr_selector_set.c) and  *)
(* the aliases of the MID set (mid_set.c), as HELLO and MID messages,      *)
(* timers and interface changes update them.                               *)
(*                                                                         *)
(* Entries point to each other in the code, so neighbour entries have an   *)
(* identity here: a link points to an id, which may be freed.  Time is     *)
(* abstracted: a running timer may fire, and ASYM_time may pass, at any    *)
(* moment.  Link quality (lq_level 2) without hysteresis and TcRedundancy  *)
(* 2 are assumed, as the configuration check demands.                      *)
(***************************************************************************)
EXTENDS Integers, FiniteSets

CONSTANTS
    Addrs,          \* addresses of remote interfaces
    TwoHops,        \* addresses that HELLOs may list as symmetric neighbours
    Ifaces,         \* our interfaces
    HelloPairs,     \* pairs of interface and main address that send HELLOs
    MidPairs,       \* pairs of alias and main address that MIDs declare
    Willingness,    \* values of willingness that HELLOs carry
    Flags,          \* whether a HELLO may select us as MPR or change link qualities
    Ids,            \* identities of neighbour entries
    NoAddr,
    MAX_MESSAGES    \* bound: HELLO and MID messages received

WILL_NEVER == 0

ASSUME NeighborhoodAssumption ==
    /\ IsFiniteSet(Addrs) /\ IsFiniteSet(TwoHops) /\ IsFiniteSet(Ifaces)
    /\ HelloPairs \subseteq Addrs \X Addrs /\ MidPairs \subseteq Addrs \X Addrs
    /\ NoAddr \notin Addrs \cup TwoHops
    /\ Willingness \subseteq Nat /\ Flags \subseteq BOOLEAN
    /\ MAX_MESSAGES \in Nat

\* A neighbour has one main address, which stays the same and is no alias.  A
\* neighbour that changes it leaves duplicate or dangling entries behind.
ASSUME MainAssumption ==
    /\ \A p, q \in HelloPairs \cup MidPairs : p[1] \in {q[1], q[2]} => p[2] = q[2]
    /\ \A p \in MidPairs : p[1] # p[2]

\* There is memory for an entry of every neighbour.
ASSUME IdsAssumption ==
    /\ IsFiniteSet(Ids) /\ 0 \notin Ids
    /\ Cardinality({p[2] : p \in HelloPairs}) <= Cardinality(Ids)

VARIABLES
    db,         \* the tables: one record, threaded through each handler
    ifnet,      \* our interfaces that are up
    mprs_set,   \* MPR selectors, each with a running timer
    basis,      \* history: what the last MPR calculation was based on
    received    \* messages received so far

vars == <<db, ifnet, mprs_set, basis, received>>

-----------------------------------------------------------------------------
(* The tables.                                                             *)

LinkTypes == {"UNSPEC", "ASYM", "SYM", "LOST"}
LinkKeys == Addrs \X Ifaces
NoLink == [nbr |-> 0]
LinkEntries == [nbr : Ids, prev_status : LinkTypes, link_sym_timer : BOOLEAN, asym : BOOLEAN]

NewNeighbor(addr) == [addr |-> addr, status |-> "NOT_SYM", will |-> WILL_NEVER, linkcount |-> 0]
Freed == NewNeighbor(NoAddr)

AllAddrs == Addrs \cup TwoHops

EmptyTables ==
    [links |-> [k \in LinkKeys |-> NoLink],
     nbr |-> [i \in Ids |-> Freed],
     table |-> {},                              \* neighbortable
     ahead |-> {},                              \* pairs of entries in the order of a hash chain
     mid |-> [a \in AllAddrs |-> NoAddr],       \* main address of an alias
     two_hop |-> {},                            \* two_hop_neighbortable
     pointer |-> [a \in AllAddrs |-> 0],        \* neighbor_2_pointer
     list2 |-> {},                              \* neighbor_2_list of each id
     nblist |-> {},                             \* neighbor_2_nblist, as pairs of id and address
     timer2 |-> {},                             \* running nbr2_list_timers
     changes |-> FALSE,                         \* changes_neighborhood
     link_changes |-> FALSE]                    \* the ANSN is to be increased

Linked(d) == {k \in LinkKeys : d.links[k] # NoLink}
LinksOf(d, id) == {k \in Linked(d) : d.links[k].nbr = id}

\* lookup_link_status without hysteresis
lookup_link_status(lnk) ==
    IF lnk.link_sym_timer THEN "SYM" ELSE IF lnk.asym THEN "ASYM" ELSE "LOST"

MainAddr(d, a) == IF d.mid[a] # NoAddr THEN d.mid[a] ELSE a

Aliases(d, main) == {a \in AllAddrs : d.mid[a] = main}

\* Mutant: the first link found decides, not the best one.
MutantHasSymLink(d, up, a) ==
    LET ours == {k \in Linked(d) : k[1] = a /\ k[2] \in up}
    IN  ours # {} /\ lookup_link_status(d.links[CHOOSE k \in ours : TRUE]) = "SYM"

\* get_neighbor_status: is there a symmetric link to the main address of a
\* or to one of its aliases?
HasSymLink(d, up, a) ==
    LET main == MainAddr(d, a)
    IN  \E k \in Linked(d) : /\ k[1] \in {main} \cup Aliases(d, main) /\ k[2] \in up
                             /\ lookup_link_status(d.links[k]) = "SYM"

\* olsr_lookup_neighbor_table_alias: the first match of a hash chain, or {}.
Lookup(d, a) ==
    LET found == {id \in d.table : d.nbr[id].addr = a}
    IN  {id \in found : \A i \in found : <<i, id>> \notin d.ahead}

\* An entry goes to the head of its hash chain.
Queued(d, id) == [d EXCEPT !.table = @ \cup {id}, !.ahead = @ \cup ({id} \X d.table)]

\* Entries leave their hash chains.
Dequeued(d, ids) ==
    [d EXCEPT !.table = @ \ ids, !.ahead = {p \in @ : p[1] \notin ids /\ p[2] \notin ids}]

-----------------------------------------------------------------------------
(* Two hop entries.                                                        *)

\* Mutant: the counter of the two hop entry is not decremented.
MutantUnlinkPairs(d, pairs) ==
    LET gone == {p[2] : p \in pairs}
    IN  [d EXCEPT !.nblist = @ \ pairs, !.list2 = @ \ pairs, !.timer2 = @ \ pairs,
                  !.two_hop = {t \in @ : ~(t \in gone /\ d.pointer[t] < 1)},
                  !.changes = @ \/ pairs # {}]

\* Mutant: the timer of the freed list entry keeps running.
MutantUnlinkTimer(d, pairs) ==
    LET count(t) == d.pointer[t] - Cardinality({p \in pairs : p[2] = t})
    IN  [d EXCEPT !.pointer = [t \in AllAddrs |-> count(t)],
                  !.nblist = @ \ pairs, !.list2 = @ \ pairs,
                  !.two_hop = {t \in @ : count(t) > 0},
                  !.changes = @ \/ pairs # {}]

\* Mutant: no recalculation is requested.
MutantUnlinkQuiet(d, pairs) ==
    LET count(t) == d.pointer[t] - Cardinality({p \in pairs : p[2] = t})
    IN  [d EXCEPT !.pointer = [t \in AllAddrs |-> count(t)],
                  !.nblist = @ \ pairs, !.list2 = @ \ pairs, !.timer2 = @ \ pairs,
                  !.two_hop = {t \in @ : count(t) > 0}]

\* Unlink neighbours from two hop neighbours: decrement the counter, remove
\* both list entries, and free a two hop entry nobody reaches any more.
UnlinkPairs(d, pairs) ==
    LET count(t) == d.pointer[t] - Cardinality({p \in pairs : p[2] = t})
        gone == {p[2] : p \in pairs}
    IN  [d EXCEPT !.pointer = [t \in AllAddrs |-> count(t)],
                  !.nblist = @ \ pairs, !.list2 = @ \ pairs, !.timer2 = @ \ pairs,
                  !.two_hop = {t \in @ : ~(t \in gone /\ count(t) < 1)},
                  !.changes = @ \/ pairs # {}]

\* olsr_delete_two_hop_neighbor_table, for those of ts that have an entry: walk
\* nblist, unlink, free the entry.
olsr_delete_two_hop_neighbor_table(d, ts) ==
    LET gone == ts \cap d.two_hop
        pairs == {p \in d.nblist : p[2] \in gone}
    IN  [d EXCEPT !.nblist = @ \ pairs, !.list2 = @ \ pairs, !.timer2 = @ \ pairs,
                  !.two_hop = @ \ gone,
                  !.pointer = [t \in AllAddrs |-> IF t \in gone THEN 0 ELSE @[t]],
                  !.changes = @ \/ pairs # {}]

-----------------------------------------------------------------------------
(* Neighbour entries.                                                      *)

\* Entries are freed.
Free(d, ids) ==
    [Dequeued(d, ids) EXCEPT !.nbr = [i \in Ids |-> IF i \in ids THEN Freed ELSE @[i]]]

\* olsr_delete_neighbor_table looks the entries up by their addresses.
olsr_delete_neighbor_table(d, as) ==
    LET ids == UNION {Lookup(d, a) : a \in as}
        u == UnlinkPairs(d, {p \in d.list2 : p[1] \in ids})
    IN  [Free(u, ids) EXCEPT !.changes = @ \/ ids # {}]

\* olsr_insert_neighbor_table
olsr_insert_neighbor_table(d, a) ==
    LET id == CHOOSE i \in Ids : i \notin d.table
    IN  IF Lookup(d, a) # {} THEN d ELSE [Queued(d, id) EXCEPT !.nbr[id] = NewNeighbor(a)]

\* A neighbour that becomes symmetric leaves the two hop table.
update_neighbor_status(d, id, sym) ==
    LET was == d.nbr[id].status = "SYM"
        u == IF sym /\ ~was THEN olsr_delete_two_hop_neighbor_table(d, {d.nbr[id].addr}) ELSE d
    IN  [u EXCEPT !.nbr[id].status = IF sym THEN "SYM" ELSE "NOT_SYM",
                  !.changes = @ \/ (sym # was), !.link_changes = @ \/ (sym # was)]

-----------------------------------------------------------------------------
(* Aliases.                                                                *)

\* replace_neighbor_link_set
Redirect(d, old, new) ==
    [d EXCEPT !.links = [k \in LinkKeys |->
        IF k \in Linked(d) /\ @[k].nbr \in old THEN [@[k] EXCEPT !.nbr = new] ELSE @[k]]]

\* Bogus neighbour entries under alias addresses hand their links over.
DropBogus(d, main, aliases) ==
    LET bogus == UNION {Lookup(d, a) : a \in aliases}
    IN  IF bogus = {} \/ Lookup(d, main) = {} THEN d
        ELSE [Free(Redirect(d, bogus, CHOOSE i \in Lookup(d, main) : TRUE), bogus)
                 EXCEPT !.changes = TRUE]

\* insert_mid_tuple: register the alias; two hop and neighbour entries under
\* an alias address go.
insert_mid_tuple(d, main, alias) ==
    LET u == [d EXCEPT !.mid[alias] = main]
        aliases == Aliases(u, main)
    IN  IF d.mid[alias] = main THEN d
        ELSE DropBogus(olsr_delete_two_hop_neighbor_table(u, aliases), main, aliases)

\* insert_mid_alias: a neighbour entry under the alias address is replaced by
\* one under the main address, and older aliases of the alias are forgotten.
insert_mid_alias(d, main, alias) ==
    LET old == Lookup(d, alias)
        u == olsr_insert_neighbor_table(olsr_delete_neighbor_table(d, {alias}), main)
        moved == Redirect(u, old, CHOOSE i \in Lookup(u, main) : TRUE)
        adjusted == IF old = {} THEN d
                    ELSE [moved EXCEPT !.mid = [a \in AllAddrs |-> IF @[a] = alias THEN NoAddr ELSE @[a]]]
    IN  [insert_mid_tuple(adjusted, main, alias) EXCEPT !.changes = TRUE]

-----------------------------------------------------------------------------
(* Links.                                                                  *)

\* add_link_entry: an existing link follows its sender to a new main address,
\* a new one is counted by its neighbour.
add_link_entry(d, k, main) ==
    IF k \in Linked(d)
    THEN LET id == d.links[k].nbr
         IN  IF d.nbr[id].addr = main THEN d
             ELSE [Queued(Dequeued(d, {id}), id) EXCEPT !.nbr[id].addr = main]
    ELSE LET known == Lookup(d, MainAddr(d, main))
             u == IF known = {} THEN olsr_insert_neighbor_table(d, main) ELSE d
             id == CHOOSE i \in (IF known = {} THEN Lookup(u, main) ELSE known) : TRUE
         IN  [u EXCEPT !.nbr[id].linkcount = @ + 1,
                       !.links[k] = [nbr |-> id, prev_status |-> "ASYM",
                                     link_sym_timer |-> FALSE, asym |-> FALSE]]

\* A link after a HELLO: being listed, symmetric or not, makes it symmetric.
Heard(lnk, link) ==
    [lnk EXCEPT !.asym = TRUE, !.prev_status = link,
                !.link_sym_timer = link \in {"SYM", "ASYM"} \/ (@ /\ link # "LOST")]

update_link_entry(d, up, k, m) ==
    LET u == add_link_entry(d, k, m.main)
        v == [u EXCEPT !.links[k] = Heard(u.links[k], m.link)]
    IN  update_neighbor_status(v, v.links[k].nbr, HasSymLink(v, up, k[1]))

\* Mutant: the count of a neighbour with several links is left alone.
MutantDeleteLink(d, k) ==
    LET nbr == d.nbr[d.links[k].nbr]
        u == IF nbr.linkcount = 1 THEN olsr_delete_neighbor_table(d, {nbr.addr}) ELSE d
    IN  [u EXCEPT !.links[k] = NoLink, !.changes = TRUE]

\* Links ks go, one by one.  The last link of a neighbour takes the neighbour
\* along.
DeleteLinks(d, ks) ==
    LET cut(id) == Cardinality({k \in ks : d.links[k].nbr = id})
        last == {id \in Ids : cut(id) > 0 /\ d.nbr[id].linkcount = cut(id)}
        u == olsr_delete_neighbor_table(d, {d.nbr[id].addr : id \in last})
    IN  [u EXCEPT !.nbr = [id \in Ids |->
                              IF id \in last THEN u.nbr[id]
                              ELSE [u.nbr[id] EXCEPT !.linkcount = @ - cut(id)]],
                  !.links = [k \in LinkKeys |-> IF k \in ks THEN NoLink ELSE @[k]],
                  !.changes = @ \/ ks # {}]

olsr_delete_link_entry(d, k) == DeleteLinks(d, {k})

-----------------------------------------------------------------------------
(* HELLO messages.                                                         *)

\* olsr_lookup_my_neighbors finds no entry for these.
NewlyListed(d, id, listed) == {t \in listed : <<id, t>> \notin d.list2}

\* process_message_neighbors: entries that are listed again get their timer
\* restarted; linking_this_2_entries leaves a new one without a timer, because
\* olsr_change_timer does nothing for a timer that was never started.
process_message_neighbors(d, id, nbrs) ==
    LET listed == {MainAddr(d, a) : a \in nbrs}
        new == NewlyListed(d, id, listed)
        again == {t \in listed : <<id, t>> \in d.list2
                                 \/ Cardinality({a \in nbrs : MainAddr(d, a) = t}) > 1}
    IN  [d EXCEPT !.two_hop = @ \cup new,
                  !.pointer = [t \in AllAddrs |-> @[t] + (IF t \in new THEN 1 ELSE 0)],
                  !.list2 = @ \cup {<<id, t>> : t \in new},
                  !.nblist = @ \cup {<<id, t>> : t \in new},
                  !.timer2 = @ \cup {<<id, t>> : t \in again},
                  !.changes = @ \/ new # {}]

\* What the MPR calculation reads: the symmetric neighbours, their willingness
\* and the two hop neighbours each one reaches.
Basis(d) ==
    {<<d.nbr[id].addr, d.nbr[id].will, {p[2] : p \in {q \in d.list2 : q[1] = id}}>> :
        id \in {i \in d.table : d.nbr[i].status = "SYM"}}

\* olsr_process_changes: recalculate the MPRs and clear the flag.  A neighbour
\* that becomes MPR makes the ANSN grow.
Settle(d) ==
    /\ \E newMpr \in {FALSE, d.changes /\ Basis(d) # {}} :
          db' = [d EXCEPT !.changes = FALSE, !.link_changes = @ \/ newMpr]
    /\ basis' = IF d.changes THEN Basis(d) ELSE basis

Messages ==
    [link : LinkTypes, mpr : Flags, will : Willingness, nbrs : SUBSET TwoHops]

\* olsr_hello_tap.  lqChange: the link quality handler saw a relevant change.
olsr_hello_tap(from, main, i, msg, lqChange) ==
    LET k == <<from, i>>
        linked == update_link_entry(db, ifnet, k, [main |-> main, link |-> msg.link])
        alias == from # main /\ linked.mid[from] \in {NoAddr, main}
        known == IF alias THEN insert_mid_alias(linked, main, from) ELSE linked
        id == known.links[k].nbr
        selected == msg.link = "SYM" /\ msg.mpr
        willing == [known EXCEPT !.nbr[id].will = msg.will,
                                 !.changes = @ \/ lqChange \/ known.nbr[id].will # msg.will,
                                 !.link_changes = @ \/ lqChange \/ (selected /\ main \notin mprs_set)]
    IN  /\ received < MAX_MESSAGES
        /\ received' = received + 1
        /\ Settle(IF msg.will = WILL_NEVER THEN willing
                  ELSE process_message_neighbors(willing, id, msg.nbrs))
        /\ mprs_set' = IF selected THEN mprs_set \cup {main} ELSE mprs_set
        /\ UNCHANGED ifnet

\* olsr_input_mid, relayed by a symmetric neighbour: register an alias that is
\* not known yet; aliases that are no longer declared go once they timed out.
olsr_input_mid(alias, main, pruned) ==
    LET u == IF db.mid[alias] = NoAddr THEN insert_mid_alias(db, main, alias) ELSE db
    IN  /\ received < MAX_MESSAGES
        /\ received' = received + 1
        /\ \E k \in Linked(db) : lookup_link_status(db.links[k]) = "SYM"
        /\ pruned \subseteq Aliases(u, main) \ {alias}
        /\ db' = [u EXCEPT !.mid = [a \in AllAddrs |-> IF a \in pruned THEN NoAddr ELSE @[a]],
                           !.changes = @ \/ pruned # {}]
        /\ UNCHANGED <<ifnet, mprs_set, basis>>

-----------------------------------------------------------------------------
(* Timers and interfaces.                                                  *)

\* Each of these changes the tables only.
Tables(d) == db' = d /\ UNCHANGED <<ifnet, mprs_set, basis, received>>

\* ASYM_time passes.
AsymTimesOut(k) ==
    /\ k \in Linked(db) /\ db.links[k].asym
    /\ Tables([db EXCEPT !.links[k].asym = FALSE])

\* The symmetry timer: nothing more happens unless the last HELLO listed us as
\* symmetric.
olsr_expire_link_sym_timer(k) ==
    /\ k \in Linked(db) /\ db.links[k].link_sym_timer
    /\ LET u == [db EXCEPT !.links[k].link_sym_timer = FALSE]
           v == [u EXCEPT !.links[k].prev_status = lookup_link_status(u.links[k])]
       IN  Tables(IF u.links[k].prev_status # "SYM" THEN u
                  ELSE [update_neighbor_status(v, v.links[k].nbr, HasSymLink(v, ifnet, k[1]))
                           EXCEPT !.changes = TRUE])

\* The link timer.
olsr_expire_link_entry(k) ==
    /\ k \in Linked(db)
    /\ Tables(olsr_delete_link_entry(db, k))

\* The holding time of a two hop neighbour.
olsr_expire_nbr2_list(p) ==
    /\ p \in db.timer2
    /\ Tables(UnlinkPairs(db, {p}))

olsr_expire_mid_entry(main) ==
    /\ Aliases(db, main) # {}
    /\ Tables([db EXCEPT !.mid = [a \in AllAddrs |-> IF @[a] = main THEN NoAddr ELSE @[a]]])

olsr_expire_mpr_sel_entry(a) ==
    /\ a \in mprs_set
    /\ mprs_set' = mprs_set \ {a}
    /\ db' = [db EXCEPT !.link_changes = TRUE]
    /\ UNCHANGED <<ifnet, basis, received>>

\* olsr_remove_interface: all links of the interface go.
olsr_remove_interface(i) ==
    /\ i \in ifnet
    /\ ifnet' = ifnet \ {i}
    /\ db' = DeleteLinks(db, {k \in Linked(db) : k[2] = i})
    /\ UNCHANGED <<mprs_set, basis, received>>

AddInterface(i) ==
    /\ i \in Ifaces \ ifnet
    /\ ifnet' = ifnet \cup {i}
    /\ UNCHANGED <<db, mprs_set, basis, received>>

olsr_process_changes ==
    /\ db.changes
    /\ Settle(db)
    /\ UNCHANGED <<ifnet, mprs_set, received>>

\* The end of a scheduler loop, after olsr_process_changes.
increase_local_ansn ==
    /\ ~db.changes /\ db.link_changes
    /\ db' = [db EXCEPT !.link_changes = FALSE]
    /\ UNCHANGED <<ifnet, mprs_set, basis, received>>

-----------------------------------------------------------------------------
Init ==
    /\ db = EmptyTables
    /\ ifnet = Ifaces /\ mprs_set = {} /\ basis = {}
    /\ received = 0

\* A sender selects us over a symmetric link only, and lists none of its own
\* addresses.
ReceiveHello ==
    \E p \in HelloPairs, i \in ifnet, msg \in Messages, lqChange \in Flags :
        /\ msg.mpr => msg.link = "SYM"
        /\ \A q \in HelloPairs : q[2] = p[2] => q[1] \notin msg.nbrs
        /\ olsr_hello_tap(p[1], p[2], i, msg, lqChange)

ReceiveMid ==
    \E p \in MidPairs : \E pruned \in SUBSET Addrs : olsr_input_mid(p[1], p[2], pruned)

ExpireLinks == \E k \in LinkKeys : olsr_expire_link_entry(k)
ExpireTwoHops == \E p \in Ids \X AllAddrs : olsr_expire_nbr2_list(p)

Next ==
    \/ ReceiveHello
    \/ ReceiveMid
    \/ \E k \in LinkKeys : AsymTimesOut(k) \/ olsr_expire_link_sym_timer(k)
    \/ ExpireLinks
    \/ ExpireTwoHops
    \/ \E a \in Addrs : olsr_expire_mid_entry(a) \/ olsr_expire_mpr_sel_entry(a)
    \/ \E i \in Ifaces : olsr_remove_interface(i) \/ AddInterface(i)
    \/ olsr_process_changes
    \/ increase_local_ansn

Spec == Init /\ [][Next]_vars

\* Timers that run fire: walk_timers visits every slot.
FairSpec == Spec /\ WF_vars(ExpireLinks) /\ WF_vars(ExpireTwoHops)

-----------------------------------------------------------------------------
(* Properties.                                                             *)

Neighbors == [addr : AllAddrs \cup {NoAddr}, status : {"SYM", "NOT_SYM"},
              will : Willingness \cup {WILL_NEVER}, linkcount : Int]

\* The tables have their types.
TypeOK ==
    /\ db.links \in [LinkKeys -> LinkEntries \cup {NoLink}]
    /\ db.nbr \in [Ids -> Neighbors]
    /\ db.table \subseteq Ids /\ db.ahead \subseteq db.table \X db.table
    /\ db.mid \in [AllAddrs -> AllAddrs \cup {NoAddr}]
    /\ db.two_hop \subseteq AllAddrs /\ db.pointer \in [AllAddrs -> Nat]
    /\ db.nblist \subseteq Ids \X AllAddrs /\ db.timer2 \subseteq db.list2
    /\ ifnet \subseteq Ifaces /\ mprs_set \subseteq Addrs

\* A link points to a neighbour in the table that counts it, and a neighbour
\* lives exactly as long as it has a link: no link follows a pointer to a freed
\* neighbour, no neighbour is leaked.
NeighborMustExist ==
    /\ \A k \in Linked(db) : db.links[k].nbr \in db.table
    /\ \A id \in db.table :
          LinksOf(db, id) # {} /\ db.nbr[id].linkcount = Cardinality(LinksOf(db, id))

\* Both directions of the two hop relation agree, the counter of a two hop
\* entry is the number of neighbours that reach it, and no list keeps an entry
\* of a freed neighbour.
TwoHopConsistent ==
    /\ db.list2 = db.nblist
    /\ db.two_hop = {p[2] : p \in db.list2}
    /\ {p[1] : p \in db.list2} \subseteq db.table
    /\ \A t \in AllAddrs : db.pointer[t] = Cardinality({p \in db.list2 : p[2] = t})

\* A neighbour with a symmetric link is a symmetric neighbour.
SymLinkMeansSymNeighbor ==
    \A k \in Linked(db) :
        lookup_link_status(db.links[k]) = "SYM" => db.nbr[db.links[k].nbr].status = "SYM"

\* The MPRs are computed from the current neighbourhood, or a recalculation is
\* pending.
MprUpToDate == db.changes \/ basis = Basis(db)

\* When no more HELLOs arrive, links, neighbours and two hop neighbours are
\* all forgotten.
SilenceForgotten ==
    (received = MAX_MESSAGES) ~> (db.table = {} /\ Linked(db) = {} /\ db.two_hop = {})
=============================================================================
