------------------------------ MODULE Advertise ------------------------------
(***************************************************************************)
(* How one router advertises its neighbours and what another router makes  *)
(* of it.  lq_packet.c sorts the advertised neighbours, cuts the TC into   *)
(* parts that fit the output buffer and describes the gap between two      *)
(* parts by a border flag of one byte; tc_set.c turns the flags back into  *)
(* border addresses and drops, between them, the edges whose ANSN is older *)
(* than that of the message.  Parts wait in the output buffer with other   *)
(* messages (net_olsr.c), may be lost on the way, and the ANSN is raised   *)
(* by the main loop some time after the neighbourhood changed.             *)
(*                                                                         *)
(* An address is a natural number of IPSIZE bytes of BITS bits, the first  *)
(* byte of the packet the most significant one.  A position in a buffer is *)
(* counted in addresses.  The checks of the message sequence number belong *)
(* to TcSet: parts arrive here in order and once, or not at all.  The TTL  *)
(* of the fisheye option only decides whether a part arrives.              *)
(***************************************************************************)
EXTENDS SeqNo, FiniteSets, SequencesExt

CONSTANTS
    BITS,               \* bits of a byte: 8
    IPSIZE,             \* olsr_cnf->ipsize: bytes of an address
    OFF,                \* size of the OLSR and the TC header
    MAXSIZE,            \* netbuf.maxsize
    Networks,           \* [order, addrs, immediate_send_tc, start] to start from
    FirstAnsn,          \* the ANSN to start from
    MaxChanges,         \* bound: changes of the advertised neighbours
    MaxTcs              \* bound: TC messages generated

ASSUME AdvertiseAssumption ==
    /\ BITS \in Nat \ {0} /\ IPSIZE \in Nat \ {0}
    /\ OFF \in Nat \ {0} /\ MAXSIZE > OFF
    /\ FirstAnsn \in SeqNumbers
    /\ MaxChanges < HALF        \* further apart, two ANSNs have no order
    /\ \A n \in Networks : /\ n.order \in {"network", "host"}
                           /\ n.addrs \subseteq 1 .. 2^(BITS * IPSIZE) - 2
                           /\ n.immediate_send_tc \in BOOLEAN
                           /\ n.start \subseteq SUBSET n.addrs

VARIABLES
    network,            \* the network chosen at the start
    sym,                \* the neighbours that create_lq_tc would advertise
    link_changes,       \* link_set.c: raise the ANSN in this round
    ansn,               \* mpr_selector_set.c
    withdrawn,          \* history: no longer advertised since the ANSN was raised
    prev_empty,         \* lq_packet.c: the last TC generated was empty
    empty_tc,           \* the timer that stops the repetition of empty TCs runs
    outif,              \* output buffer, packets on the air, refused messages
    edge,               \* the receiver's edges from this router, with their ANSN
    got,                \* history: the TC received last and which of its parts
    changes, tcs        \* counters behind the bounds

vars == <<network, sym, link_changes, ansn, withdrawn, prev_empty, empty_tc,
          outif, edge, got, changes, tcs>>

sender == <<network, sym, link_changes, ansn, withdrawn, prev_empty, empty_tc>>

NoEdge == -1
OPEN   == 255           \* the border flag 0xff: no border on this side

Edges == {d \in network.addrs : edge[d] # NoEdge}

-----------------------------------------------------------------------------
(* The order of addresses                                                  *)

Byte(a, i) == (a \div 2^(BITS * i)) % 2^BITS

\* ipcalc.h, avl.c: IPv4 addresses are compared as numbers of the host, so
\* on a little endian host the last byte of the packet is the first to count.
Key(a) ==
    IF network.order = "network" THEN a
    ELSE FoldLeft(LAMBDA k, i : k * 2^BITS + Byte(a, i), 0,
                  [i \in 1 .. IPSIZE |-> i - 1])

avl_comp_default(a, b) == Key(a) - Key(b)

\* create_lq_tc inserts every advertised neighbour at its place.
create_lq_tc(S) ==
    [i \in 1 .. Cardinality(S) |->
        CHOOSE d \in S :
            Cardinality({e \in S : avl_comp_default(e, d) < 0}) = i - 1]

\* Mutant: The borders are those of the bit above the first one that differs.
FlagOffByOne(lower, higher) ==
    2 + Max({b \in 0 .. BITS * IPSIZE - 1 :
                (lower \div 2^b) % 2 # (higher \div 2^b) % 2})

\* The position of the first bit in which two addresses differ, from the
\* last bit of the packet and counted from 1.
calculate_border_flag(lower, higher) ==
    1 + Max({b \in 0 .. BITS * IPSIZE - 1 :
                (lower \div 2^b) % 2 # (higher \div 2^b) % 2})

\* tc_set.c: the address at a border: the bits above the flagged one are
\* those of ip, the flagged one is set and the ones below it are clear.
BorderIp(ip, flag) ==
    (ip \div 2^flag) * 2^flag + 2^(flag - 1)

olsr_calculate_tc_border(m) ==
    [lower |-> IF m.lower = OPEN THEN 0 ELSE BorderIp(Head(m.neigh), m.lower),
     upper |-> IF m.upper = OPEN THEN 2^(BITS * IPSIZE) - 1
               ELSE BorderIp(Last(m.neigh), m.upper)]

-----------------------------------------------------------------------------
(* The output buffer (net_olsr.c)                                          *)

\* Any message of another kind: a HELLO or one that is forwarded.
FOREIGN == [size |-> 1, neigh |-> <<>>]

net_outbuffer_push(out, m) ==
    IF out.pending + m.size > MAXSIZE THEN [out EXCEPT !.refused = @ + 1]
    ELSE [out EXCEPT !.pending = @ + m.size, !.data = Append(@, m)]

\* Mutant: The packet is sent but the counter of the buffer is not reset.
OutputKeepsPending(out) ==
    [out EXCEPT !.data = <<>>,
                !.air = @ \o SelectSeq(out.data, LAMBDA m : m # FOREIGN)]

\* Only the parts of TCs matter on the air.
net_output(out) ==
    [out EXCEPT !.pending = 0, !.data = <<>>,
                !.air = @ \o SelectSeq(out.data, LAMBDA m : m # FOREIGN)]

\* Mutant: The headers are not counted.
RemNoHeader(out) == MAXSIZE - out.pending

\* The room for addresses behind the headers of one more message.
rem(out) == MAXSIZE - out.pending - OFF

\* serialize_lq_tc: a TC that does not fit behind what is pending has that
\* sent first.  It is then cut into parts that fill the buffer; all but the
\* last are sent at once, the last one waits in the buffer.
serialize_lq_tc(neigh, tc) ==
    LET out   == IF rem(outif) < (IF outif.pending > 0 THEN Len(neigh) ELSE 0)
                 THEN net_output(outif) ELSE outif
        room  == rem(out)
        count == IF neigh = <<>> THEN 1 ELSE (Len(neigh) + room - 1) \div room
        Border(i) == calculate_border_flag(neigh[i * room], neigh[i * room + 1])
        Part(i) ==
            LET mine == SubSeq(neigh, (i - 1) * room + 1, Min({i * room, Len(neigh)}))
            IN  [size  |-> OFF + Len(mine),
                 neigh |-> mine,
                 ansn  |-> ansn,
                 lower |-> IF i = 1 THEN OPEN ELSE Border(i - 1),
                 upper |-> IF i = count THEN OPEN ELSE Border(i),
                 part  |-> i,
                 tc    |-> [tc EXCEPT !.parts = count]]
    IN  net_outbuffer_push(
            FoldLeft(LAMBDA o, i : net_output(net_outbuffer_push(o, Part(i))),
                     out, [i \in 1 .. count - 1 |-> i]),
            Part(count))

\* A buffer that is too full for a message is sent before it is pushed.
PushOther(out) ==
    net_outbuffer_push(IF out.pending + FOREIGN.size > MAXSIZE
                       THEN net_output(out) ELSE out, FOREIGN)

-----------------------------------------------------------------------------
(* The router that advertises                                              *)

Init ==
    /\ network \in Networks
    /\ sym \in network.start
    /\ link_changes = FALSE /\ withdrawn = {} /\ empty_tc = FALSE
    /\ ansn = FirstAnsn
    /\ prev_empty = (sym = {})
    /\ outif = [pending |-> 0, data |-> <<>>, air |-> <<>>, refused |-> 0]
    /\ edge = [d \in network.addrs |-> IF d \in sym THEN ansn ELSE NoEdge]
    /\ got = [tc |-> [id |-> 0, all |-> sym, kept |-> {}, parts |-> 1], parts |-> {1}]
    /\ changes = 0 /\ tcs = 0

\* A neighbour becomes one that is advertised.
NeighborAppears(d) ==
    /\ changes < MaxChanges
    /\ d \notin sym
    /\ sym' = sym \cup {d}
    /\ link_changes' = TRUE
    /\ changes' = changes + 1
    /\ UNCHANGED <<network, ansn, withdrawn, prev_empty, empty_tc, outif, edge, got, tcs>>

\* A neighbour is no longer symmetric, no MPR selector any more, or its link
\* costs too much: each of these signals a change of the links.
NeighborGoes(d) ==
    /\ changes < MaxChanges
    /\ d \in sym
    /\ sym' = sym \ {d}
    /\ link_changes' = TRUE
    /\ withdrawn' = withdrawn \cup {d}
    /\ changes' = changes + 1
    /\ UNCHANGED <<network, ansn, prev_empty, empty_tc, outif, edge, got, tcs>>

\* olsr_delete_link_entry deletes the neighbour of the last link as it is,
\* symmetric or not, and signals nothing (its interface was removed).
olsr_delete_link_entry(d) ==
    /\ changes < MaxChanges
    /\ d \in sym
    /\ sym' = sym \ {d}
    /\ withdrawn' = withdrawn \cup {d}
    /\ changes' = changes + 1
    /\ UNCHANGED <<network, link_changes, ansn, prev_empty, empty_tc, outif, edge, got, tcs>>

\* The main loop, after the timers of the round have run.
increase_local_ansn ==
    /\ link_changes
    /\ ansn' = (ansn + 1) % SEQ_MOD
    /\ link_changes' = FALSE
    /\ withdrawn' = {}
    /\ UNCHANGED <<network, sym, prev_empty, empty_tc, outif, edge, got, changes, tcs>>

\* The TC timer.  An empty TC is sent when the one before was not empty, and
\* repeated until the timer started then has run out.
olsr_output_lq_tc ==
    LET empty == sym = {}
        tc    == [id |-> tcs + 1, all |-> sym, kept |-> withdrawn, parts |-> 0]
        out   == IF ~empty \/ ~prev_empty \/ empty_tc
                 THEN serialize_lq_tc(create_lq_tc(sym), tc) ELSE outif
    IN  /\ tcs < MaxTcs
        /\ prev_empty' = empty
        /\ empty_tc' = (empty_tc \/ (empty /\ ~prev_empty))
        /\ outif' = IF network.immediate_send_tc THEN net_output(out) ELSE out
        /\ tcs' = tcs + 1
        /\ UNCHANGED <<network, sym, link_changes, ansn, withdrawn, edge, got, changes>>

EmptyTcTimeout ==
    /\ empty_tc
    /\ empty_tc' = FALSE
    /\ UNCHANGED <<network, sym, link_changes, ansn, withdrawn, prev_empty, outif, edge, got,
                   changes, tcs>>

\* The HELLO timer: this is what sends a buffer in which a TC waits.
olsr_output_lq_hello ==
    /\ outif' = LET out == PushOther(outif)
                IN  IF network.immediate_send_tc THEN out ELSE net_output(out)
    /\ UNCHANGED <<sender, edge, got, changes, tcs>>

\* A message is forwarded through the same interface.
ForwardOther ==
    /\ outif' = PushOther(outif)
    /\ UNCHANGED <<sender, edge, got, changes, tcs>>

-----------------------------------------------------------------------------
(* The network and the router that receives                                *)

Lose ==
    /\ outif.air # <<>>
    /\ outif' = [outif EXCEPT !.air = Tail(@)]
    /\ UNCHANGED <<sender, edge, got, changes, tcs>>

\* Mutant: An edge to the address at the lower border is passed over.
RevokedAbove(e, m) ==
    LET border == olsr_calculate_tc_border(m)
    IN  {d \in network.addrs : /\ e[d] # NoEdge
                               /\ avl_comp_default(border.lower, d) < 0
                               /\ avl_comp_default(border.upper, d) > 0
                               /\ SEQNO_GREATER_THAN(m.ansn, e[d])}

\* olsr_delete_revoked_tc_edges: the edges between the borders that are older.
Revoked(e, m) ==
    LET border == olsr_calculate_tc_border(m)
    IN  {d \in network.addrs : /\ e[d] # NoEdge
                               /\ avl_comp_default(border.lower, d) <= 0
                               /\ avl_comp_default(border.upper, d) > 0
                               /\ SEQNO_GREATER_THAN(m.ansn, e[d])}

\* olsr_input_tc, for a message that passed the checks of its numbers: the
\* edges of the message are updated, then the old ones between the borders
\* go; an empty TC deletes the entry of the router with all its edges.
olsr_input_tc ==
    LET m    == Head(outif.air)
        e    == [d \in network.addrs |->
                    IF \E i \in DOMAIN m.neigh : m.neigh[i] = d THEN m.ansn ELSE edge[d]]
        gone == IF m.neigh = <<>> THEN network.addrs ELSE Revoked(e, m)
    IN  /\ outif.air # <<>>
        /\ edge' = [d \in network.addrs |-> IF d \in gone THEN NoEdge ELSE e[d]]
        /\ got' = [tc    |-> m.tc,
                   parts |-> {m.part} \cup (IF got.tc = m.tc THEN got.parts ELSE {})]
        /\ outif' = [outif EXCEPT !.air = Tail(@)]
        /\ UNCHANGED <<sender, changes, tcs>>

\* Nothing was heard of the router for the validity time.
olsr_expire_tc_entry ==
    /\ Edges # {}
    /\ edge' = [d \in network.addrs |-> NoEdge]
    /\ got' = [got EXCEPT !.parts = {}]
    /\ UNCHANGED <<sender, outif, changes, tcs>>

Next ==
    \/ \E d \in network.addrs :
        NeighborAppears(d) \/ NeighborGoes(d) \/ olsr_delete_link_entry(d)
    \/ increase_local_ansn
    \/ olsr_output_lq_tc
    \/ EmptyTcTimeout
    \/ olsr_output_lq_hello
    \/ ForwardOther
    \/ olsr_input_tc
    \/ Lose
    \/ olsr_expire_tc_entry

Spec == Init /\ [][Next]_vars

-----------------------------------------------------------------------------
(* Properties                                                              *)

\* Types; the buffer holds what its counter says and never more than fits.
TypeOK ==
    /\ network \in Networks
    /\ sym \subseteq network.addrs /\ withdrawn \subseteq network.addrs
    /\ ansn \in SeqNumbers
    /\ {link_changes, prev_empty, empty_tc} \subseteq BOOLEAN
    /\ edge \in [network.addrs -> SeqNumbers \cup {NoEdge}]
    /\ outif.pending \in 0 .. MAXSIZE
    /\ outif.pending = FoldLeft(LAMBDA n, m : n + m.size, 0, outif.data)
    /\ changes \in 0 .. MaxChanges /\ tcs \in 0 .. MaxTcs

\* When every part of a TC has arrived (lq_packet.c serialize_lq_tc, tc_set.c
\* olsr_calculate_tc_border), the receiver has exactly the edges advertised,
\* and besides them at most neighbours withdrawn since the ANSN was raised
\* last, whatever was lost before and wherever the TC was cut.
ReceivedExact ==
    got.parts = 1 .. got.tc.parts
        => /\ got.tc.all \subseteq Edges
           /\ Edges \subseteq got.tc.all \cup got.tc.kept

\* Handling one part of a TC never removes an edge that the same TC advertises
\* in another part, although that part may still be on the way or lost
\* (tc_set.c olsr_delete_revoked_tc_edges).
StillAdvertisedKept ==
    [][(outif.air # <<>> /\ outif'.air = Tail(outif.air) /\ edge' # edge)
            => Edges \cap Head(outif.air).tc.all \subseteq Edges']_vars

\* serialize_lq_tc ignores the result of net_outbuffer_push: the buffer must
\* have room for every part it pushes, whatever was pending before.
PartsQueued == outif.refused = 0

=============================================================================
