-------------------------------- MODULE Flood --------------------------------
(***************************************************************************)
(* Flooding: several routers, each with one or more interfaces, forward    *)
(* the messages of others.  A packet is parsed message by message          *)
(* (parser.c), a message is forwarded when its handler agrees, it comes    *)
(* from an MPR selector and is not in the duplicate set (olsr.c); it waits *)
(* in the output buffers of the interfaces (net_olsr.c) and leaves with    *)
(* the next HELLO.                                                         *)
(*                                                                         *)
(* The neighbourhood is settled: links do not change and each router has   *)
(* MPRs that cover its two hop neighbours (Neighborhood and Mpr are about  *)
(* how they get there).  Of the duplicate set (DuplicateSet) and of the    *)
(* topology set (TcSet) only what they do to sequence numbers within their *)
(* windows is kept: it decides what is forwarded.                          *)
(***************************************************************************)
EXTENDS Integers, FiniteSets, Sequences

CONSTANTS
    Interfaces,         \* all interfaces of all routers
    Owner,              \* the router an interface belongs to
    Ether,              \* the interfaces with mode IF_MODE_ETHER
    Hears,              \* pairs of interfaces: the second receives the first
    MprSets,            \* MPRs of all routers to start from
    MessageSets,        \* the messages to be sent, to choose from: each is
                        \* [type, via, seqno, ttl, size], sent through via; the
                        \* type is "TC", listing neighbours, or "MID" (or HNA)
    TC_SEQNO_WINDOW,    \* 8
    MAX_IGNORED,        \* 32: older TCs ignored in a row
    MAX_TTL,            \* 255
    MAXSIZE,            \* netbuf.maxsize of every interface
    MaxLost             \* bound: packets lost

Nodes == {Owner[i] : i \in Interfaces}

Messages == UNION MessageSets

Originator(m) == Owner[m.via]

\* check_neighbor_link: the link over which interface j hears interface i.
SymLink(i, j) == <<i, j>> \in Hears /\ <<j, i>> \in Hears

\* The neighbours with the status SYM.
SymNeighbors ==
    [n \in Nodes |-> {Owner[j] : j \in {k \in Interfaces :
        Owner[k] # n /\ \E i \in Interfaces : Owner[i] = n /\ SymLink(i, k)}}]

TwoHopNeighbors(n) ==
    (UNION {SymNeighbors[k] : k \in SymNeighbors[n]}) \ (SymNeighbors[n] \cup {n})

\* Every two hop neighbour is reached by an MPR.
Covers(n, M) == TwoHopNeighbors(n) \subseteq UNION {SymNeighbors[k] : k \in M}

ASSUME FloodAssumption ==
    /\ Owner \in [Interfaces -> Nodes]
    /\ Ether \subseteq Interfaces
    /\ Hears \subseteq Interfaces \X Interfaces
    /\ \A l \in Hears : Owner[l[1]] # Owner[l[2]]
    /\ IsFiniteSet(Interfaces) /\ MAXSIZE \in [Interfaces -> Nat]
    /\ MAX_TTL \in Nat /\ MaxLost \in Nat
    /\ MAX_IGNORED \in Nat /\ TC_SEQNO_WINDOW \in Nat
    /\ \A m \in Messages : /\ m.type \in {"TC", "MID"}
                           /\ m.via \in Interfaces
                           /\ m.seqno \in Nat \ {0} /\ m.size \in Nat \ {0}
                           /\ m.ttl \in 1 .. MAX_TTL
    /\ \A m, k \in Messages : m.type = "TC" /\ k.type = "TC" /\ Originator(m) = Originator(k)
                                => m.seqno - k.seqno < TC_SEQNO_WINDOW
    /\ \A f \in MprSets : \A n \in Nodes : f[n] \subseteq SymNeighbors[n] /\ Covers(n, f[n])

VARIABLES
    mpr,                \* the MPRs of every router; n is in mpr[s] iff s is in
                        \* the MPR selector set of n
    todo,               \* messages not yet originated
    sent,               \* history: messages originated
    dup,                \* duplicate sets: per router and originator
    tc,                 \* tc_tree: the TC a router believed last, per originator
    buf,                \* output buffers of the interfaces
    air,                \* packets on their way, per pair in Hears
    delivered,          \* history: who handled which message
    relayed,            \* history: how often a router forwarded a message
    lost                \* counter behind the bound

vars == <<mpr, todo, sent, dup, tc, buf, air, delivered, relayed, lost>>

\* A message in a packet: the header fields that change on the way.
Copy(m) == [msg |-> m, ttl |-> m.ttl, hopcnt |-> 0]

\* An originator without an entry in the duplicate set.
NoEntry == [known |-> FALSE, seen |-> {}]

\* No TC was believed, or only one older than those to be sent.
NoTc == [seqno |-> 0, ignored |-> 0]

-----------------------------------------------------------------------------
(* The output buffers (net_olsr.c).  b is the buffer of interface i, with  *)
(* the packets sent in this step.                                          *)

Empty == [pending |-> 0, data |-> <<>>]

Fits(i, b, c) == b.pending + c.msg.size <= MAXSIZE[i]

\* Mutant: the counter of the buffer is not moved on.
MutantPush(i, b, c) == IF Fits(i, b, c) THEN [b EXCEPT !.data = Append(@, c)] ELSE b

\* A message that does not fit is refused.
net_outbuffer_push(i, b, c) ==
    IF Fits(i, b, c)
    THEN [b EXCEPT !.pending = @ + c.msg.size, !.data = Append(@, c)] ELSE b

net_output(b) ==
    IF b.data = <<>> THEN b
    ELSE [pending |-> 0, data |-> <<>>, sent |-> Append(b.sent, b.data)]

\* A message that is too big to be piggybacked has the buffer sent first.
Queue(i, b, c) ==
    net_outbuffer_push(i, IF Fits(i, b, c) THEN b ELSE net_output(b), c)

\* The buffer of an interface, before anything is sent in this step.
Opened(i) == [pending |-> buf[i].pending, data |-> buf[i].data, sent |-> <<>>]

\* The new buffers of the interfaces in the domain of after; their packets
\* reach everyone in hearing.
Transmit(after, a) ==
    /\ buf' = [i \in Interfaces |->
                IF i \in DOMAIN after
                THEN [pending |-> after[i].pending, data |-> after[i].data] ELSE buf[i]]
    /\ air' = [l \in Hears |-> IF l[1] \in DOMAIN after THEN a[l] \o after[l[1]].sent
                               ELSE a[l]]

-----------------------------------------------------------------------------
(* Forwarding (olsr.c)                                                     *)

\* Mutant: the message is not entered in the duplicate set.
MutantEntered(entry, m) == [entry EXCEPT !.known = TRUE]

\* olsr_message_is_duplicate enters the message; the one that creates the
\* entry of its originator does not set its own bit.
Entered(entry, m) ==
    IF entry.known THEN [entry EXCEPT !.seen = @ \cup {m.seqno}]
    ELSE [entry EXCEPT !.known = TRUE]

is_ttl_1(c) == c.ttl < 2 \/ c.hopcnt + c.ttl > MAX_TTL

\* A message at the end of its life is passed on as it is.
Aged(c) == IF is_ttl_1(c) THEN c ELSE [c EXCEPT !.hopcnt = @ + 1, !.ttl = @ - 1]

\* Not back through an ethernet, and a message at the end of its life through
\* ethernets only.
GoesThrough(i, in, c) ==
    /\ ~(i = in /\ i \in Ether)
    /\ is_ttl_1(c) => i \in Ether

\* The sender is a symmetric neighbour and has chosen n as MPR.
FromSelector(n, s) == s \in SymNeighbors[n] /\ n \in mpr[s]

\* w is what a router has made of a packet so far: its duplicate and topology
\* sets, the history of what it forwarded and the buffers of its interfaces.
Forwarded(w, in, c) ==
    [out |-> [i \in DOMAIN w.out |->
                IF GoesThrough(i, in, c) THEN Queue(i, w.out[i], Aged(c)) ELSE w.out[i]],
     relayed |-> [w.relayed EXCEPT ![c.msg] = @ + 1],
     dup |-> [w.dup EXCEPT ![Originator(c.msg)] = Entered(@, c.msg)],
     tc |-> w.tc]

\* Mutant: the duplicate set is asked before the sender is checked.
MutantForward(w, from, in, c) ==
    IF c.msg.seqno \in w.dup[Originator(c.msg)].seen THEN w
    ELSE IF FromSelector(Owner[in], Owner[from]) THEN Forwarded(w, in, c)
    ELSE [w EXCEPT !.dup[Originator(c.msg)] = Entered(@, c.msg)]

olsr_forward_message(w, from, in, c) ==
    IF /\ FromSelector(Owner[in], Owner[from])
       /\ c.msg.seqno \notin w.dup[Originator(c.msg)].seen
    THEN Forwarded(w, in, c) ELSE w

-----------------------------------------------------------------------------
(* Receiving (parser.c)                                                    *)

InterfacesOf(n) == {i \in Interfaces : Owner[i] = n}

\* A message is handled: our own ones are skipped, and the handlers refuse
\* what comes over a link that is not symmetric.
Handled(from, in, c) == SymLink(from, in) /\ Originator(c.msg) # Owner[in]

\* e is the entry of the originator of a TC.  The TC believed last is refused,
\* as are older ones until too many were ignored.
Refused(e, m) ==
    \/ m.seqno = e.seqno
    \/ m.seqno < e.seqno /\ e.ignored < MAX_IGNORED

olsr_input_tc(e, m) ==
    IF m.seqno = e.seqno THEN e
    ELSE IF Refused(e, m) THEN [e EXCEPT !.ignored = @ + 1]
    ELSE [seqno |-> m.seqno, ignored |-> 0]

\* The handler of a TC enters it; that of a MID or HNA changes nothing here.
Noted(w, c) ==
    IF c.msg.type = "TC"
    THEN [w EXCEPT !.tc[Originator(c.msg)] = olsr_input_tc(@, c.msg)] ELSE w

\* The handler returns TRUE: the message may be forwarded.
Passes(w, c) == c.msg.type = "TC" => ~Refused(w.tc[Originator(c.msg)], c.msg)

\* One message of a packet.
Read(w, from, in, c) ==
    IF ~Handled(from, in, c) THEN w
    ELSE IF Passes(w, c) THEN olsr_forward_message(Noted(w, c), from, in, c)
    ELSE Noted(w, c)

\* A packet is worked off message by message.
Parsed(from, in, packet) ==
    LET n == Owner[in]
        w[k \in 0 .. Len(packet)] ==
            IF k = 0
            THEN [dup |-> dup[n], tc |-> tc[n], relayed |-> relayed[n],
                  out |-> [i \in InterfacesOf(n) |-> Opened(i)]]
            ELSE Read(w[k - 1], from, in, packet[k])
    IN  w[Len(packet)]

\* What is forwarded is in the buffers of our interfaces, or sent.
parse_packet(from, in) ==
    LET n == Owner[in]
        l == <<from, in>>
        packet == Head(air[l])
        w == Parsed(from, in, packet)
    IN  /\ air[l] # <<>>
        /\ delivered' = delivered \cup
                {<<n, packet[k].msg>> : k \in {j \in DOMAIN packet : Handled(from, in, packet[j])}}
        /\ dup' = [dup EXCEPT ![n] = w.dup]
        /\ tc' = [tc EXCEPT ![n] = w.tc]
        /\ relayed' = [relayed EXCEPT ![n] = w.relayed]
        /\ Transmit(w.out, [air EXCEPT ![l] = Tail(@)])
        /\ UNCHANGED <<mpr, todo, sent, lost>>

-----------------------------------------------------------------------------
(* Sending                                                                 *)

\* A message timer: the message is queued for its interface.
Generate(m) ==
    /\ m \in todo
    /\ todo' = todo \ {m}
    /\ sent' = sent \cup {m}
    /\ Transmit([i \in {m.via} |-> Queue(i, Opened(i), Copy(m))], air)
    /\ UNCHANGED <<mpr, dup, tc, delivered, relayed, lost>>

\* The HELLO timer of an interface sends what is pending.
generate_hello(i) ==
    /\ buf[i].data # <<>>
    /\ Transmit([j \in {i} |-> net_output(Opened(j))], air)
    /\ UNCHANGED <<mpr, todo, sent, dup, tc, delivered, relayed, lost>>

\* One receiver misses a packet.
Lose(l) ==
    /\ lost < MaxLost
    /\ air[l] # <<>>
    /\ air' = [air EXCEPT ![l] = Tail(@)]
    /\ lost' = lost + 1
    /\ UNCHANGED <<mpr, todo, sent, dup, tc, buf, delivered, relayed>>

Init ==
    /\ mpr \in MprSets
    /\ todo \in MessageSets
    /\ sent = {}
    /\ \E known \in BOOLEAN :     \* by earlier messages of the originators
        dup = [n \in Nodes |-> [o \in Nodes |-> [NoEntry EXCEPT !.known = known]]]
    /\ tc = [n \in Nodes |-> [o \in Nodes |-> NoTc]]
    /\ buf = [i \in Interfaces |-> Empty]
    /\ air = [l \in Hears |-> <<>>]
    /\ delivered = {}
    /\ relayed = [n \in Nodes |-> [m \in Messages |-> 0]]
    /\ lost = 0

Next ==
    \/ \E m \in Messages : Generate(m)
    \/ \E i \in Interfaces : generate_hello(i)
    \/ \E l \in Hears : parse_packet(l[1], l[2]) \/ Lose(l)

Spec == Init /\ [][Next]_vars

-----------------------------------------------------------------------------
(* Properties                                                              *)

Size(data) ==
    LET size[k \in 0 .. Len(data)] == IF k = 0 THEN 0 ELSE size[k - 1] + data[k].msg.size
    IN  size[Len(data)]

\* Types; a buffer holds what its counter says and never more than fits.
TypeOK ==
    /\ mpr \in MprSets
    /\ todo \subseteq Messages
    /\ dup \in [Nodes -> [Nodes -> [known : BOOLEAN, seen : SUBSET {m.seqno : m \in Messages}]]]
    /\ tc \in [Nodes -> [Nodes -> [seqno : {0} \cup {m.seqno : m \in Messages},
                                   ignored : 0 .. MAX_IGNORED]]]
    /\ \A i \in Interfaces : /\ buf[i].pending \in 0 .. MAXSIZE[i]
                              /\ buf[i].pending = Size(buf[i].data)
    /\ delivered \subseteq Nodes \X Messages
    /\ lost \in 0 .. MaxLost

\* A router forwards a message once, however many copies reach it over
\* however many interfaces (olsr_forward_message); only the message that
\* created the entry of its originator in the duplicate set may be forwarded
\* twice, and nobody forwards his own.
ForwardedOnce ==
    \A n \in Nodes, m \in Messages :
        relayed[n][m] <=
            IF Originator(m) = n THEN 0
            ELSE IF \E k \in Messages \ {m} : /\ Originator(k) = Originator(m)
                                              /\ relayed[n][k] > 1 THEN 1
            ELSE 2

\* The routers that symmetric links join with n, over any number of hops.
Joined(n) ==
    LET Within[k \in 0 .. Cardinality(Nodes)] ==
            IF k = 0 THEN {n}
            ELSE Within[k - 1] \cup UNION {SymNeighbors[r] : r \in Within[k - 1]}
    IN  Within[Cardinality(Nodes)] \ {n}

\* The networks in which flooding is complete.  The interface a message is sent through has all
\* neighbours of its router (a router with several sends a message of its own through each); a
\* message fits in every buffer and has its own sequence number; who is on an ethernet hears all
\* others on it; and a message outlives its way, on which it meets a router at most twice.
WellConnected ==
    /\ \A m \in Messages :
          \A n \in SymNeighbors[Originator(m)] : \E j \in Interfaces : Owner[j] = n /\ SymLink(m.via, j)
    /\ \A m \in Messages, i \in Interfaces : m.size <= MAXSIZE[i]
    /\ \A m, k \in Messages : Originator(m) = Originator(k) /\ m.seqno = k.seqno => m = k
    /\ \A j \in Ether, i, k \in Interfaces :
          SymLink(i, j) /\ SymLink(j, k) => SymLink(i, k) \/ Owner[i] = Owner[k]
    /\ 2 * Cardinality(Nodes) <= MAX_TTL

\* Messages whose flood must be complete.  A TC is ignored when it comes again,
\* so a router that has it from a neighbour that is not its selector first
\* never forwards it: its flood is complete if every router has chosen all its
\* neighbours, as with willingness "always", and no newer TC overtakes it.
Assured(m) ==
    m.type = "TC" =>
        /\ \A n \in Nodes : mpr[n] = SymNeighbors[n]
        /\ \A k \in sent : k.type = "TC" /\ Originator(k) = Originator(m) => k.seqno <= m.seqno

\* No timer has anything to send and no packet is left to read.  Every flood
\* comes to this end: a message is generated once and forwarded at most twice.
Quiet == /\ \A i \in Interfaces : buf[i] = Empty
         /\ \A l \in Hears : air[l] = <<>>

\* When a flood has ended and nothing was lost, a message with enough time to
\* live was handled by every router joined with its originator, in whichever
\* order copies arrived and however full the buffers on the way were: a MID or
\* HNA whichever covering MPRs the routers have chosen, the newest TC of an
\* originator if they have chosen all their neighbours (parse_packet,
\* olsr_input_tc, olsr_forward_message).
FloodComplete ==
    Quiet /\ lost = 0
        => \A m \in sent : m.ttl = MAX_TTL /\ Assured(m)
                => Joined(Originator(m)) \X {m} \subseteq delivered

=============================================================================
