--------------------------------- MODULE TcSet ---------------------------------
(***************************************************************************)
(* The link state database of tc_set.c in one router: tc entries keyed by  *)
(* originator, the edges each one advertises, the shortcuts between an     *)
(* edge and its inverse that the SPF run follows, the prefixes hooked to   *)
(* an entry (routing_table.c) and the reference counter that frees it.     *)
(*                                                                         *)
(* The environment consists of originators that advertise neighbour sets   *)
(* in TC messages and may reboot with random counters, and of a network    *)
(* that loses, repeats and reorders their last IN_FLIGHT messages.         *)
(* Addresses are integers: an edge tree is sorted by address, and the      *)
(* border flags of a message delimit an address range.                     *)
(***************************************************************************)
EXTENDS SeqNo, FiniteSets, Sequences

CONSTANTS
    Nodes,                  \* addresses
    myself,                 \* our own main address: tc_myself
    Originators,            \* the other routers that send TC messages
    Neighbors,              \* the routers we may have a symmetric link to
    Prefixes,               \* alias and HNA prefixes an originator may announce
    TC_ANSN_WINDOW,         \* 256
    TC_SEQNO_WINDOW,        \* 1024
    TC_ANSN_WINDOW_MULT,    \* 4
    TC_SEQNO_WINDOW_MULT,   \* 8
    MAX_IGNORED,            \* 32: old messages ignored before one is believed
    IN_FLIGHT,              \* how many of the newest messages may still arrive
    FirstNumbers,           \* bound: seqno and ansn of a first message
    RebootJumps,            \* bound: how far a reboot moves seqno and ansn
    MAX_MSGS,               \* bound: messages an originator sends
    MAX_BOOTS               \* bound: reboots of an originator

ASSUME TcSetAssumption ==
    /\ Nodes \subseteq Nat /\ IsFiniteSet(Nodes) /\ myself \in Nodes
    /\ Originators \subseteq Nodes \ {myself} /\ Neighbors \subseteq Nodes \ {myself}
    /\ IsFiniteSet(Prefixes) /\ Prefixes \cap Nodes = {}
    /\ TC_ANSN_WINDOW \in Nat \ {0} /\ TC_SEQNO_WINDOW \in Nat \ {0}
    /\ TC_ANSN_WINDOW_MULT \in Nat \ {0} /\ TC_SEQNO_WINDOW_MULT \in Nat \ {0}
    /\ MAX_IGNORED \in Nat /\ IN_FLIGHT \in Nat \ {0}
    /\ FirstNumbers \subseteq Nat \X Nat /\ RebootJumps \subseteq Nat \X Nat
    /\ MAX_MSGS \in Nat /\ MAX_BOOTS \in Nat

\* There is a largest address.
ASSUME AddressAssumption == \E a \in Nodes : \A b \in Nodes : b <= a

\* The windows before and after a number do not overlap.
ASSUME WindowAssumption ==
    /\ TC_ANSN_WINDOW * (TC_ANSN_WINDOW_MULT + 1) <= SEQ_MOD
    /\ TC_SEQNO_WINDOW * (TC_SEQNO_WINDOW_MULT + 1) <= SEQ_MOD

\* ANSNs are compared only within half their range.
ASSUME AgeAssumption == MAX_MSGS <= HALF

VARIABLES
    tc_tree,            \* the originators with a tc_entry in the tree
    tc,                 \* their scalar fields
    edge,               \* ansn of the edge a -> b, or NoEdge
    edge_inv,           \* the edges whose edge_inv pointer is set
    prefix_tree,        \* the prefixes of the rt_paths hooked to an entry
    refcount,           \* reference counter of an entry
    changes_topology, changes_hna,
    net,                \* environment: messages in flight, oldest first
    advertised,         \* environment: the neighbour set advertised last
    sent,               \* environment: messages sent so far
    boots,              \* environment: reboots so far
    view,               \* history: the message processed last, or NoMsg
    skipped             \* history: numbers of the newest messages ignored in a row

dbVars == <<tc_tree, tc, edge, edge_inv, prefix_tree, refcount>>
flagVars == <<changes_topology, changes_hna>>
envVars == <<net, advertised, sent, boots>>
vars == <<tc_tree, tc, edge, edge_inv, prefix_tree, refcount, changes_topology,
          changes_hna, net, advertised, sent, boots, view, skipped>>

NoEdge == -1

NoMsg == [seq |-> -1, ansn |-> -1, nbrs |-> {}, lower |-> 0, upper |-> 0]

\* What a fresh tc_entry holds: olsr_cookie_malloc clears the memory.
BlankTc == [msg_seq |-> 0, ansn |-> 0, ignored |-> 0, err_seq |-> 0, err_seq_valid |-> FALSE,
            edge_gc_timer |-> FALSE, validity_timer |-> FALSE]

Edges == {p \in Nodes \X Nodes : edge[p] # NoEdge}
EdgeTree(o) == {d \in Nodes : edge[<<o, d>>] # NoEdge}

\* A message carries the set of neighbours and the address range [lower, upper)
\* its border flags stand for; without border flags the range is empty.
Bordered(m) == m.lower < m.upper
MaxAddr == CHOOSE a \in Nodes : \A b \in Nodes : b <= a
Whole(m) == m.lower = 0 /\ m.upper = MaxAddr + 1

-----------------------------------------------------------------------------
(* olsr_input_tc: which messages are believed.                             *)

SeqOf(m) == m.seq % SEQ_MOD
AnsnOf(m) == m.ansn % SEQ_MOD

AlreadySeen(t, m) ==
    /\ olsr_seq_inrange_high(t.msg_seq - TC_SEQNO_WINDOW, t.msg_seq, SeqOf(m))
    /\ olsr_seq_inrange_high(t.ansn - TC_ANSN_WINDOW, t.ansn, AnsnOf(m))

\* Mutant: a message with an unchanged ANSN is not upcoming.
MutantUpcoming(t, m) ==
    /\ olsr_seq_inrange_high(t.msg_seq, t.msg_seq + TC_SEQNO_WINDOW * TC_SEQNO_WINDOW_MULT, SeqOf(m))
    /\ olsr_seq_inrange_high(t.ansn, t.ansn + TC_ANSN_WINDOW * TC_ANSN_WINDOW_MULT, AnsnOf(m))

Upcoming(t, m) ==
    /\ olsr_seq_inrange_high(t.msg_seq, t.msg_seq + TC_SEQNO_WINDOW * TC_SEQNO_WINDOW_MULT, SeqOf(m))
    /\ olsr_seq_inrange_low(t.ansn, t.ansn + TC_ANSN_WINDOW * TC_ANSN_WINDOW_MULT, AnsnOf(m))

\* Mutant: every implausible message is a stray.
MutantStray(t, m) == TRUE

\* The first stray message is remembered, a different one is believed.
Stray(t, m) == ~t.err_seq_valid \/ t.err_seq = SeqOf(m)

\* Mutant: no emergency brake.
MutantIgnores(o, m) ==
    /\ o \in tc_tree /\ EdgeTree(o) # {}
    /\ AlreadySeen(tc[o], m) \/ (~Upcoming(tc[o], m) /\ Stray(tc[o], m))

Ignores(o, m) ==
    /\ o \in tc_tree /\ EdgeTree(o) # {}
    /\ IF AlreadySeen(tc[o], m)
       THEN tc[o].msg_seq = SeqOf(m) \/ tc[o].ignored < MAX_IGNORED
       ELSE ~Upcoming(tc[o], m) /\ Stray(tc[o], m)

AfterIgnored(t, m) ==
    IF AlreadySeen(t, m)
    THEN IF t.msg_seq = SeqOf(m) THEN t ELSE [t EXCEPT !.ignored = @ + 1]
    ELSE [t EXCEPT !.err_seq = SeqOf(m), !.err_seq_valid = TRUE]

AfterBelieved(t, m) ==
    [t EXCEPT !.msg_seq = SeqOf(m), !.ansn = AnsnOf(m), !.ignored = 0, !.err_seq_valid = FALSE,
              !.validity_timer = TRUE, !.edge_gc_timer = @ \/ ~Bordered(m)]

-----------------------------------------------------------------------------
(* Edges and entries.                                                      *)

\* olsr_add_tc_edge_entry: connect new edges of o with their inverse mutually.
Connected(o, new) ==
    LET both == {d \in new : edge[<<d, o>>] # NoEdge}
    IN  {<<o, d>> : d \in both} \cup {<<d, o>> : d \in both}

\* Mutant: the backpointer of the inverse edge stays.
MutantDisconnected(inv, o, gone) == {p \in inv : ~(p[1] = o /\ p[2] \in gone)}

\* olsr_delete_tc_edge_entry: the edge goes, and its inverse loses the pointer.
Disconnected(inv, o, gone) ==
    {p \in inv : ~(p[1] = o /\ p[2] \in gone) /\ ~(p[2] = o /\ p[1] \in gone /\ <<o, p[1]>> \in inv)}

\* Mutant: the ANSNs are compared as plain numbers.
MutantRevoked(o, m) ==
    {d \in EdgeTree(o) \ m.nbrs : /\ m.lower <= d /\ d < m.upper
                                  /\ AnsnOf(m) > edge[<<o, d>>]}

\* olsr_delete_revoked_tc_edges: inside the borders and with a lower ANSN.
Revoked(o, m) ==
    {d \in EdgeTree(o) \ m.nbrs : /\ m.lower <= d /\ d < m.upper
                                  /\ SEQNO_GREATER_THAN(AnsnOf(m), edge[<<o, d>>])}

\* olsr_delete_outdated_tc_edges
Outdated(o) == {d \in EdgeTree(o) : SEQNO_GREATER_THAN(tc[o].ansn, edge[<<o, d>>])}

\* Remove the edges from o to gone, each unlocking the entry.
DropEdges(o, gone) ==
    /\ edge' = [p \in Nodes \X Nodes |-> IF p[1] = o /\ p[2] \in gone THEN NoEdge ELSE edge[p]]
    /\ edge_inv' = Disconnected(edge_inv, o, gone)
    /\ refcount' = [refcount EXCEPT ![o] = @ - Cardinality(gone)]

\* olsr_delete_tc_entry: edges, prefixes, timers, tree and the memory.
olsr_delete_tc_entry(o) ==
    /\ tc_tree' = tc_tree \ {o}
    /\ tc' = [tc EXCEPT ![o] = BlankTc]
    /\ edge' = [p \in Nodes \X Nodes |-> IF p[1] = o THEN NoEdge ELSE edge[p]]
    /\ edge_inv' = Disconnected(edge_inv, o, EdgeTree(o))
    /\ refcount' = [refcount EXCEPT ![o] =
                      @ - Cardinality(EdgeTree(o)) - Cardinality(prefix_tree[o]) - 1]
    /\ prefix_tree' = [prefix_tree EXCEPT ![o] = {}]
    /\ changes_hna' = (changes_hna \/ o \in prefix_tree[o])

\* Mutant: the lock of the entry's own rt_path is forgotten.
MutantLocks(o) == IF o \in tc_tree THEN refcount[o] ELSE 1

\* What olsr_add_tc_entry leaves behind: one lock for the tree, one for the
\* rt_path of the entry's own address.
Locks(o) == IF o \in tc_tree THEN refcount[o] ELSE 2
PrefixesOf(o) == IF o \in tc_tree THEN prefix_tree[o] ELSE {o}

-----------------------------------------------------------------------------
Init ==
    /\ tc_tree = {myself}
    /\ tc = [o \in Nodes |-> BlankTc]
    /\ edge = [p \in Nodes \X Nodes |-> NoEdge]
    /\ edge_inv = {}
    /\ prefix_tree = [o \in Nodes |-> IF o = myself THEN {o} ELSE {}]
    /\ refcount = [o \in Nodes |-> IF o = myself THEN 2 ELSE 0]
    /\ changes_topology = FALSE /\ changes_hna = TRUE
    /\ net = [o \in Originators |-> <<>>]
    /\ advertised = [o \in Originators |-> {}]
    /\ sent = [o \in Originators |-> 0]
    /\ boots = [o \in Originators |-> 0]
    /\ view = [o \in Originators |-> NoMsg]
    /\ skipped = [o \in Originators |-> {}]

Newest(o) == net[o][Len(net[o])]
Silent(o) == net[o] = <<>>
InFlight(o) == {net[o][i] : i \in 1 .. Len(net[o])}

\* A shutting down or isolated originator sends an empty, fully bordered TC.
Farewell(m) == m.nbrs = {} /\ Whole(m)

\* Handlers that ignore the message.
IgnoreTc(o, m) ==
    /\ Ignores(o, m)
    /\ tc' = [tc EXCEPT ![o] = AfterIgnored(@, m)]
    /\ skipped' = [skipped EXCEPT ![o] = IF m = Newest(o) /\ m # view[o] THEN @ \cup {SeqOf(m)} ELSE {}]
    /\ UNCHANGED <<tc_tree, edge, edge_inv, prefix_tree, refcount, flagVars, envVars, view>>

\* A believed message updates, adds and revokes edges of its originator.  The
\* link quality it carries for a known edge may have changed or not.
BelieveTc(o, m) ==
    LET new == m.nbrs \ EdgeTree(o)
        gone == Revoked(o, m)
    IN  /\ ~Ignores(o, m) /\ ~Farewell(m)
        /\ tc_tree' = tc_tree \cup {o}
        /\ tc' = [tc EXCEPT ![o] = AfterBelieved(@, m)]
        /\ edge' = [p \in Nodes \X Nodes |->
                      IF p[1] # o THEN edge[p]
                      ELSE IF p[2] \in m.nbrs THEN AnsnOf(m)
                      ELSE IF p[2] \in gone THEN NoEdge ELSE edge[p]]
        /\ edge_inv' = Disconnected(edge_inv \cup Connected(o, new), o, gone)
        /\ prefix_tree' = [prefix_tree EXCEPT ![o] = PrefixesOf(o)]
        /\ refcount' = [refcount EXCEPT ![o] = Locks(o) + Cardinality(new) - Cardinality(gone)]
        /\ \E etxChanged \in IF m.nbrs \ new = {} THEN {FALSE} ELSE BOOLEAN :
              changes_topology' = (changes_topology \/ new # {} \/ gone # {} \/ etxChanged)
        /\ changes_hna' = (changes_hna \/ o \notin tc_tree)
        /\ view' = [view EXCEPT ![o] = m]
        /\ skipped' = [skipped EXCEPT ![o] = {}]
        /\ UNCHANGED envVars

\* A believed farewell revokes everything, then kills the entry, the aliases
\* and networks of its originator (olsr_cleanup_mid, olsr_cleanup_hna).
BelieveFarewell(o, m) ==
    /\ ~Ignores(o, m) /\ Farewell(m)
    /\ IF o \in tc_tree
       THEN olsr_delete_tc_entry(o)
       ELSE changes_hna' = TRUE /\ UNCHANGED dbVars
    /\ changes_topology' = (changes_topology \/ Revoked(o, m) # {})
    /\ view' = [view EXCEPT ![o] = NoMsg]
    /\ skipped' = [skipped EXCEPT ![o] = {}]
    /\ UNCHANGED envVars

\* olsr_input_tc for a message relayed by a symmetric neighbour.
olsr_input_tc(o, m) ==
    IgnoreTc(o, m) \/ BelieveTc(o, m) \/ BelieveFarewell(o, m)

\* The validity timer.
olsr_expire_tc_entry(o) ==
    /\ o \in tc_tree /\ tc[o].validity_timer
    /\ olsr_delete_tc_entry(o)
    /\ changes_topology' = TRUE
    /\ view' = [view EXCEPT ![o] = NoMsg]
    /\ UNCHANGED <<envVars, skipped>>

\* Mutant: garbage collection does not flag the change.
MutantExpireGc(o) ==
    /\ o \in tc_tree /\ tc[o].edge_gc_timer
    /\ tc' = [tc EXCEPT ![o].edge_gc_timer = FALSE]
    /\ DropEdges(o, Outdated(o))
    /\ UNCHANGED <<tc_tree, prefix_tree, flagVars, envVars, view, skipped>>

\* The garbage collection timer of messages without border flags.
olsr_expire_tc_edge_gc(o) ==
    /\ o \in tc_tree /\ tc[o].edge_gc_timer
    /\ tc' = [tc EXCEPT ![o].edge_gc_timer = FALSE]
    /\ DropEdges(o, Outdated(o))
    /\ changes_topology' = (changes_topology \/ Outdated(o) # {})
    /\ UNCHANGED <<tc_tree, prefix_tree, changes_hna, envVars, view, skipped>>

\* MID and HNA processing hook a prefix to the entry of its originator,
\* which is created when it is missing: without a validity timer.
olsr_insert_routing_table(o, p) ==
    /\ p \notin prefix_tree[o]
    /\ tc_tree' = tc_tree \cup {o}
    /\ prefix_tree' = [prefix_tree EXCEPT ![o] = PrefixesOf(o) \cup {p}]
    /\ refcount' = [refcount EXCEPT ![o] = Locks(o) + 1]
    /\ changes_hna' = TRUE
    /\ UNCHANGED <<tc, edge, edge_inv, changes_topology, envVars, view, skipped>>

olsr_delete_routing_table(o, p) ==
    /\ p \in prefix_tree[o]
    /\ prefix_tree' = [prefix_tree EXCEPT ![o] = @ \ {p}]
    /\ refcount' = [refcount EXCEPT ![o] = @ - 1]
    /\ changes_hna' = TRUE
    /\ UNCHANGED <<tc_tree, tc, edge, edge_inv, changes_topology, envVars, view, skipped>>

\* Our own edges: olsr_calculate_routing_table adds one per symmetric
\* neighbour; it and olsr_delete_link_entry remove them.
AddMyEdge(d) ==
    /\ edge[<<myself, d>>] = NoEdge
    /\ edge' = [edge EXCEPT ![<<myself, d>>] = 0]
    /\ edge_inv' = edge_inv \cup Connected(myself, {d})
    /\ refcount' = [refcount EXCEPT ![myself] = @ + 1]
    /\ UNCHANGED <<tc_tree, tc, prefix_tree, flagVars, envVars, view, skipped>>

DeleteMyEdge(d) ==
    /\ edge[<<myself, d>>] # NoEdge
    /\ DropEdges(myself, {d})
    /\ UNCHANGED <<tc_tree, tc, prefix_tree, flagVars, envVars, view, skipped>>

\* olsr_process_changes ran the SPF and cleared the flags.
ProcessChanges ==
    /\ changes_topology \/ changes_hna
    /\ changes_topology' = FALSE /\ changes_hna' = FALSE
    /\ UNCHANGED <<dbVars, envVars, view, skipped>>

-----------------------------------------------------------------------------
(* Environment.                                                            *)

LastOf(q) == LET n == Len(q) IN IF n <= IN_FLIGHT THEN q ELSE SubSeq(q, n - IN_FLIGHT + 1, n)

\* The numbers of o's next message when it advertises nbrs: the ANSN grows
\* with every change of the set.
NextNumbers(o, nbrs) ==
    IF Silent(o) THEN FirstNumbers
    ELSE {<<Newest(o).seq + 1, Newest(o).ansn + (IF nbrs = advertised[o] THEN 0 ELSE 1)>>}

Flood(o, nbrs, msgs) ==
    /\ sent[o] + Len(msgs) <= MAX_MSGS
    /\ net' = [net EXCEPT ![o] = LastOf(@ \o msgs)]
    /\ sent' = [sent EXCEPT ![o] = @ + Len(msgs)]
    /\ advertised' = [advertised EXCEPT ![o] = nbrs]

\* A TC in one message: with the border flags of olsr_output_lq_tc, or
\* without borders as an RFC 3626 router sends it.
SendTc(o, nbrs, upper) ==
    /\ \E n \in NextNumbers(o, nbrs) :
          Flood(o, nbrs, <<[seq |-> n[1], ansn |-> n[2], nbrs |-> nbrs, lower |-> 0, upper |-> upper]>>)
    /\ UNCHANGED <<dbVars, flagVars, boots, view, skipped>>

\* A TC too big for one packet: serialize_lq_tc cuts the sorted neighbour
\* list between two addresses.
SendTcParts(o, nbrs, cut) ==
    /\ \E d \in nbrs : d < cut
    /\ \E d \in nbrs : d >= cut
    /\ \E n \in NextNumbers(o, nbrs) :
          Flood(o, nbrs,
                <<[seq |-> n[1], ansn |-> n[2], nbrs |-> {d \in nbrs : d < cut},
                   lower |-> 0, upper |-> cut],
                  [seq |-> n[1] + 1, ansn |-> n[2], nbrs |-> {d \in nbrs : d >= cut},
                   lower |-> cut, upper |-> MaxAddr + 1]>>)
    /\ UNCHANGED <<dbVars, flagVars, boots, view, skipped>>

\* A rebooted router continues at random numbers; packets of its former life
\* may still travel.
RebootTc(o, nbrs) ==
    /\ ~Silent(o) /\ boots[o] < MAX_BOOTS
    /\ boots' = [boots EXCEPT ![o] = @ + 1]
    /\ \E j \in RebootJumps :
          Flood(o, nbrs, <<[seq |-> Newest(o).seq + j[1], ansn |-> Newest(o).ansn + j[2],
                            nbrs |-> nbrs, lower |-> 0, upper |-> MaxAddr + 1]>>)
    /\ UNCHANGED <<dbVars, flagVars, view, skipped>>

NeighborSets(o) == SUBSET (Nodes \ {o})

Next ==
    \/ \E o \in Originators :
          \/ \E nbrs \in NeighborSets(o) :
                \/ \E upper \in {0, MaxAddr + 1} : SendTc(o, nbrs, upper)
                \/ \E cut \in Nodes : SendTcParts(o, nbrs, cut)
                \/ RebootTc(o, nbrs)
          \/ \E m \in InFlight(o) : olsr_input_tc(o, m)
          \/ olsr_expire_tc_entry(o)
          \/ olsr_expire_tc_edge_gc(o)
          \/ \E p \in Prefixes : olsr_insert_routing_table(o, p) \/ olsr_delete_routing_table(o, p)
    \/ \E d \in Neighbors : AddMyEdge(d) \/ DeleteMyEdge(d)
    \/ ProcessChanges

Spec == Init /\ [][Next]_vars

-----------------------------------------------------------------------------
(* Properties.                                                             *)

TcRecord == [msg_seq: SeqNumbers, ansn: SeqNumbers, ignored: 0 .. MAX_IGNORED,
             err_seq: SeqNumbers, err_seq_valid: BOOLEAN,
             edge_gc_timer: BOOLEAN, validity_timer: BOOLEAN]

\* The database has its types; the uint16_t counter of ignored messages is
\* bounded by the emergency brake of olsr_input_tc.
TypeOK ==
    /\ tc_tree \subseteq Nodes
    /\ tc \in [Nodes -> TcRecord]
    /\ edge \in [Nodes \X Nodes -> SeqNumbers \cup {NoEdge}]
    /\ edge_inv \subseteq Nodes \X Nodes
    /\ prefix_tree \in [Nodes -> SUBSET (Nodes \cup Prefixes)]
    /\ refcount \in [Nodes -> Int]
    /\ changes_topology \in BOOLEAN /\ changes_hna \in BOOLEAN

\* The shortcut of an edge points to its inverse exactly while the inverse is
\* in the database: the SPF run neither misses a two-way link nor follows a
\* pointer to a freed edge.
InverseExact ==
    edge_inv = {p \in Edges : <<p[2], p[1]>> \in Edges}

\* The reference counter of an entry is one for the tree plus its edges plus
\* its prefixes, and everything is released together: no entry is freed while
\* an edge or a rt_path still points to it, and none leaks.
RefcountExact ==
    \A o \in Nodes :
        /\ o \in tc_tree => refcount[o] = 1 + Cardinality(EdgeTree(o)) + Cardinality(prefix_tree[o])
        /\ o \notin tc_tree => refcount[o] = 0 /\ EdgeTree(o) = {} /\ prefix_tree[o] = {}

\* The neighbours a processed message leaves inside its range.
SettledRange(o) ==
    IF Bordered(view[o]) THEN {d \in Nodes : view[o].lower <= d /\ d < view[o].upper}
    ELSE IF tc[o].edge_gc_timer THEN {} ELSE Nodes

\* Once the newest message of an originator that did not reboot has been
\* processed (and, for one without borders, garbage was collected), the database
\* holds inside its borders exactly the neighbours it lists: links that were
\* withdrawn are gone.
NewestRevokes ==
    \A o \in Originators :
        ~Silent(o) /\ boots[o] = 0 /\ view[o] = Newest(o) =>
            EdgeTree(o) \cap SettledRange(o) = view[o].nbrs \cap SettledRange(o)

\* The newest message of o is within the windows of the one processed last.
WithinWindows(o) ==
    view[o] # NoMsg =>
        /\ Newest(o).seq - view[o].seq <= TC_SEQNO_WINDOW * TC_SEQNO_WINDOW_MULT
        /\ Newest(o).ansn - view[o].ansn < TC_ANSN_WINDOW * TC_ANSN_WINDOW_MULT

\* While an originator does not reboot and no more of its messages than a window
\* holds are lost in a row, its newest message is never taken for an old or a
\* stray one, whatever old copies arrived before.
NewestBelieved ==
    \A o \in Originators :
        /\ ~Silent(o) /\ boots[o] = 0 /\ WithinWindows(o)
        /\ tc[o].msg_seq # SeqOf(Newest(o))
        => ~Ignores(o, Newest(o))

\* A rebooted originator is believed again after a bounded number of messages:
\* MAX_IGNORED taken for old ones, one whose number is by chance the stored one
\* and one stray.
RebootBelieved == \A o \in Originators : Cardinality(skipped[o]) <= MAX_IGNORED + 2

\* No edge enters or leaves the database through a TC message or a timer
\* without a flag that makes olsr_process_changes run the SPF.
ChangesFlagged ==
    [][\A o \in Originators :
          EdgeTree(o)' # EdgeTree(o) => changes_topology' \/ changes_hna']_vars
=============================================================================
