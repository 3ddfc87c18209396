----------------------------- MODULE FloodProofs -----------------------------
(***************************************************************************)
(* Proofs about Flood for every finite network, all covering MPRs and any  *)
(* messages: the types and the counters of the buffers; a message is       *)
(* forwarded once, and twice only if it created the entry of its           *)
(* originator; and a flood without losses reaches every router that is     *)
(* joined with the originator, that of a TC if all neighbours are MPRs.    *)
(***************************************************************************)
EXTENDS Flood, NumberFacts, FiniteSetTheorems, SequenceTheorems, TLAPS

-----------------------------------------------------------------------------
(* Types                                                                   *)

Copies == [msg : Messages, ttl : Nat, hopcnt : Nat]
Packets == Seq(Copies)
Buffers == [pending : Nat, data : Packets]
Outs == [pending : Nat, data : Packets, sent : Seq(Packets)]
Entries == [known : BOOLEAN, seen : SUBSET {m.seqno : m \in Messages}]
TcEntries == [seqno : {0} \cup {m.seqno : m \in Messages}, ignored : 0 .. MAX_IGNORED]
Works(n) == [dup : [Nodes -> Entries], tc : [Nodes -> TcEntries], relayed : [Messages -> Nat],
             out : [InterfacesOf(n) -> Outs]]

\* The assumptions about a message.
LEMMA MessageFacts ==
    ASSUME NEW m \in Messages
    PROVE  /\ m.via \in Interfaces /\ m.size \in Nat /\ m.ttl \in Nat
           /\ m.ttl <= MAX_TTL /\ Originator(m) \in Nodes
           /\ m.seqno \in {k.seqno : k \in Messages}
BY FloodAssumption DEF Originator, Nodes

\* Every router has an interface, every interface a router.
LEMMA OwnerFacts ==
    /\ \A i \in Interfaces : Owner[i] \in Nodes
    /\ \A l \in Hears : /\ l[1] \in Interfaces /\ l[2] \in Interfaces /\ l = <<l[1], l[2]>>
                        /\ Owner[l[1]] # Owner[l[2]]
    /\ Ether \subseteq Interfaces
    /\ MAXSIZE \in [Interfaces -> Nat] /\ MAX_TTL \in Nat /\ MaxLost \in Nat
<1>1. \A i \in Interfaces : Owner[i] \in Nodes
  BY DEF Nodes
<1>2. ASSUME NEW l \in Hears
      PROVE  l[1] \in Interfaces /\ l[2] \in Interfaces /\ l = <<l[1], l[2]>> /\ Owner[l[1]] # Owner[l[2]]
  BY FloodAssumption
<1> QED BY <1>1, <1>2, FloodAssumption

-----------------------------------------------------------------------------
(* What a buffer holds                                                     *)

\* The counter that Size computes.
Counts(f, d) ==
    /\ f \in [0..Len(d) -> Nat]
    /\ f[0] = 0
    /\ \A k \in 1..Len(d) : f[k] = f[k - 1] + d[k].msg.size

\* Size is what such a counter ends with.
LEMMA SizeCounts ==
    ASSUME NEW d \in Packets
    PROVE  /\ \E f : Counts(f, d)
           /\ \A f : Counts(f, d) => Size(d) = f[Len(d)]
<1> DEFINE n == Len(d)
           step == [x \in (1..n) \X Nat |-> x[2] + d[x[1]].msg.size]
           Q(g) == g = [k \in 0..n |-> IF k = 0 THEN 0 ELSE g[k - 1] + d[k].msg.size]
<1>1. n \in Nat
  BY DEF Packets
<1>2. \A k \in 1..n : d[k].msg.size \in Nat
  <2>1. ASSUME NEW k \in 1..n PROVE d[k] \in Copies
    BY DEF Packets
  <2>2. ASSUME NEW c \in Copies PROVE c.msg.size \in Nat
    <3>1. c.msg \in Messages
      BY DEF Copies
    <3> QED BY <3>1, MessageFacts
  <2> QED BY <2>1, <2>2
<1>3. step \in [(1..n) \X Nat -> Nat]
  BY <1>1, <1>2
<1>4. PICK f \in [0..n -> Nat] : Recursion(f, n, 0, step)
  <2> HIDE DEF step
  <2> QED BY <1>1, <1>3, RecursionExists
<1>5. f[0] = 0 /\ \A k \in 1..n : f[k] = f[k - 1] + d[k].msg.size
  <2>1. ASSUME NEW k \in 1..n, NEW g \in [0..n -> Nat]
        PROVE  step[<<k, g[k - 1]>>] = g[k - 1] + d[k].msg.size
    BY <1>1
  <2> HIDE DEF step
  <2> QED BY <1>4, <2>1 DEF Recursion
<1>6. Counts(f, d)
  BY <1>1, <1>4, <1>5 DEF Counts
<1>7. Q(f)
  BY <1>1, <1>5
<1> DEFINE h == CHOOSE g : Q(g)
<1>8. Size(d) = h[n]
  BY DEF Size
<1>9. Q(h)
  BY <1>7
<1> HIDE DEF h
<1>10. h[0] = 0 /\ \A k \in 1..n : h[k] = h[k - 1] + d[k].msg.size
  BY <1>1, <1>9
<1>11. ASSUME NEW g, Counts(g, d) PROVE Size(d) = g[n]
  <2> DEFINE S == {k \in 0..n : h[k] = g[k]}
  <2>1. 0 \in S
    BY <1>1, <1>10, <1>11 DEF Counts
  <2>2. \A k \in 1..n : k - 1 \in S => k \in S
    BY <1>1, <1>10, <1>11 DEF Counts
  <2> HIDE DEF S
  <2>3. 0..n \subseteq S
    BY <1>1, <2>1, <2>2, IntervalInduction
  <2> QED BY <1>1, <1>8, <2>3 DEF S
<1> QED BY <1>6, <1>11

\* The size of a packet, when it is empty and when a message is added.
LEMMA SizeFacts ==
    /\ Size(<<>>) = 0
    /\ \A d \in Packets, c \in Copies : /\ Append(d, c) \in Packets
                                        /\ Size(d) \in Nat
                                        /\ Size(Append(d, c)) = Size(d) + c.msg.size
<1>1. <<>> \in Packets /\ Len(<<>>) = 0
  BY DEF Packets
<1>2. Size(<<>>) = 0
  BY <1>1, SizeCounts DEF Counts
<1>3. ASSUME NEW d \in Packets, NEW c \in Copies
      PROVE  /\ Append(d, c) \in Packets /\ Size(d) \in Nat
             /\ Size(Append(d, c)) = Size(d) + c.msg.size
  <2> DEFINE n == Len(d)
             e == Append(d, c)
  <2>1. n \in Nat /\ e \in Packets /\ Len(e) = n + 1 /\ e[n + 1] = c /\ \A k \in 1..n : e[k] = d[k]
    BY DEF Packets
  <2>2. PICK f : Counts(f, d)
    BY SizeCounts
  <2>3. Size(d) = f[n] /\ f[n] \in Nat
    <3>1. Size(d) = f[n]
      BY <2>2, SizeCounts
    <3>2. f[n] \in Nat
      BY <2>1, <2>2 DEF Counts
    <3> QED BY <3>1, <3>2
  <2>4. c.msg.size \in Nat
    BY MessageFacts DEF Copies
  <2> DEFINE g == [k \in 0..(n + 1) |-> IF k = n + 1 THEN f[n] + c.msg.size ELSE f[k]]
  <2>5. g[n + 1] = Size(d) + c.msg.size
    BY <2>1, <2>3
  <2> HIDE DEF e
  <2>6. g \in [0..Len(e) -> Nat]
    BY <2>1, <2>2, <2>3, <2>4 DEF Counts
  <2>7. g[0] = 0
    BY <2>1, <2>2 DEF Counts
  <2>8. ASSUME NEW k \in 1..Len(e) PROVE g[k] = g[k - 1] + e[k].msg.size
    <3>1. g[k - 1] = f[k - 1]
      BY <2>1
    <3>2. CASE k = n + 1
      BY <2>1, <3>1, <3>2
    <3>3. CASE k # n + 1
      BY <2>1, <2>2, <3>1, <3>3 DEF Counts
    <3> QED BY <3>2, <3>3
  <2>9. Counts(g, e)
    BY <2>6, <2>7, <2>8 DEF Counts
  <2> HIDE DEF g
  <2>10. Size(e) = g[n + 1]
    BY <2>1, <2>9, SizeCounts
  <2> QED BY <2>1, <2>3, <2>5, <2>10 DEF e
<1> QED BY <1>2, <1>3

-----------------------------------------------------------------------------
(* The buffers                                                             *)

Elements(s) == {s[k] : k \in 1..Len(s)}

\* The copies in a sequence of packets.
Aboard(s) == UNION {Elements(d) : d \in Elements(s)}

\* The copies an interface has in its buffer or has sent in this step.
Held(b) == Elements(b.data) \cup Aboard(b.sent)

OutOK(i, b) == b \in Outs /\ b.pending = Size(b.data) /\ b.pending <= MAXSIZE[i]

\* The elements of sequences that are put together or taken apart.
LEMMA ElementFacts ==
    ASSUME NEW S
    PROVE  /\ Elements(<<>>) = {}
           /\ \A s \in Seq(S) : Elements(s) \subseteq S
           /\ \A s \in Seq(S), x \in S : Elements(Append(s, x)) = Elements(s) \cup {x}
           /\ \A s, t \in Seq(S) : Elements(s \o t) = Elements(s) \cup Elements(t)
           /\ \A s \in Seq(S) : s # <<>> => /\ Head(s) \in S /\ Tail(s) \in Seq(S)
                                            /\ Elements(s) = Elements(Tail(s)) \cup {Head(s)}
<1>1. Elements(<<>>) = {}
  BY DEF Elements
<1>2. ASSUME NEW s \in Seq(S) PROVE Elements(s) \subseteq S
  BY DEF Elements
<1>3. ASSUME NEW s \in Seq(S), NEW x \in S PROVE Elements(Append(s, x)) = Elements(s) \cup {x}
  <2> DEFINE n == Len(s)
             e == Append(s, x)
  <2>1. n \in Nat /\ Len(e) = n + 1 /\ e[n + 1] = x /\ \A k \in 1..n : e[k] = s[k]
    OBVIOUS
  <2> HIDE DEF e
  <2>2. Elements(e) \subseteq Elements(s) \cup {x}
    BY <2>1 DEF Elements
  <2>3. n + 1 \in 1..Len(e) /\ 1..n \subseteq 1..Len(e)
    BY <2>1
  <2>4. Elements(s) \cup {x} \subseteq Elements(e)
    BY <2>1, <2>3 DEF Elements
  <2> QED BY <2>2, <2>4 DEF e
<1>4. ASSUME NEW s \in Seq(S), NEW t \in Seq(S) PROVE Elements(s \o t) = Elements(s) \cup Elements(t)
  <2> DEFINE n == Len(s)
             m == Len(t)
             e == s \o t
  <2>1. /\ n \in Nat /\ m \in Nat /\ Len(e) = n + m
        /\ \A k \in 1..(n + m) : e[k] = IF k <= n THEN s[k] ELSE t[k - n]
    OBVIOUS
  <2> HIDE DEF e
  <2>2. ASSUME NEW k \in 1..(n + m) PROVE e[k] \in Elements(s) \cup Elements(t)
    <3>1. CASE k <= n
      BY <2>1, <3>1 DEF Elements
    <3>2. CASE ~(k <= n)
      <4>1. e[k] = t[k - n] /\ k - n \in 1..m
        BY <2>1, <3>2
      <4> QED BY <4>1 DEF Elements
    <3> QED BY <3>1, <3>2
  <2>3. ASSUME NEW k \in 1..n PROVE s[k] \in Elements(e)
    <3>1. k \in 1..Len(e) /\ e[k] = s[k]
      BY <2>1
    <3> QED BY <3>1 DEF Elements
  <2>4. ASSUME NEW k \in 1..m PROVE t[k] \in Elements(e)
    <3>1. k + n \in 1..Len(e) /\ ~(k + n <= n) /\ (k + n) - n = k /\ k + n \in 1..(n + m)
      BY <2>1
    <3>2. e[k + n] = t[k]
      BY <2>1, <3>1
    <3> QED BY <3>1, <3>2 DEF Elements
  <2> QED BY <2>1, <2>2, <2>3, <2>4 DEF Elements, e
<1>5. ASSUME NEW s \in Seq(S), s # <<>>
      PROVE  /\ Head(s) \in S /\ Tail(s) \in Seq(S)
             /\ Elements(s) = Elements(Tail(s)) \cup {Head(s)}
  <2> DEFINE n == Len(s)
             e == Tail(s)
  <2>1. /\ n \in Nat /\ n >= 1 /\ Len(e) = n - 1 /\ Head(s) = s[1] /\ Head(s) \in S /\ e \in Seq(S)
        /\ \A k \in 1..(n - 1) : e[k] = s[k + 1]
    BY <1>5
  <2> HIDE DEF e
  <2>2. ASSUME NEW k \in 1..n PROVE s[k] \in Elements(e) \cup {Head(s)}
    <3>1. CASE k = 1
      BY <2>1, <3>1
    <3>2. CASE k # 1
      <4>1. k - 1 \in 1..Len(e) /\ k - 1 \in 1..(n - 1) /\ (k - 1) + 1 = k
        BY <2>1, <3>2
      <4>2. e[k - 1] = s[k]
        BY <2>1, <4>1
      <4> QED BY <4>1, <4>2 DEF Elements
    <3> QED BY <3>1, <3>2
  <2>3. ASSUME NEW k \in 1..(n - 1) PROVE e[k] \in Elements(s)
    <3>1. k + 1 \in 1..Len(s) /\ e[k] = s[k + 1]
      BY <2>1
    <3> QED BY <3>1 DEF Elements
  <2>4. Head(s) \in Elements(s)
    <3>1. 1 \in 1..Len(s)
      BY <2>1
    <3> QED BY <2>1, <3>1 DEF Elements
  <2> QED BY <2>1, <2>2, <2>3, <2>4 DEF Elements, e
<1> QED BY <1>1, <1>2, <1>3, <1>4, <1>5

\* The copies of packets that are sent or received.
LEMMA AboardFacts ==
    /\ Aboard(<<>>) = {}
    /\ \A s \in Seq(Packets) : Aboard(s) \subseteq Copies
    /\ \A s \in Seq(Packets), d \in Packets : Aboard(Append(s, d)) = Aboard(s) \cup Elements(d)
    /\ \A s, t \in Seq(Packets) : s \o t \in Seq(Packets) /\ Aboard(s \o t) = Aboard(s) \cup Aboard(t)
    /\ \A s \in Seq(Packets) :
          s # <<>> => /\ Head(s) \in Packets /\ Tail(s) \in Seq(Packets)
                      /\ Aboard(s) = Aboard(Tail(s)) \cup Elements(Head(s))
<1>1. Aboard(<<>>) = {}
  BY ElementFacts DEF Aboard
<1>2. ASSUME NEW s \in Seq(Packets) PROVE Aboard(s) \subseteq Copies
  <2>1. \A d \in Elements(s) : d \in Packets
    BY ElementFacts
  <2>2. \A d \in Packets : Elements(d) \subseteq Copies
    BY ElementFacts DEF Packets
  <2> QED BY <2>1, <2>2 DEF Aboard
<1>3. ASSUME NEW s \in Seq(Packets), NEW d \in Packets
      PROVE  Aboard(Append(s, d)) = Aboard(s) \cup Elements(d)
  <2>1. Elements(Append(s, d)) = Elements(s) \cup {d}
    BY ElementFacts
  <2> QED BY <2>1 DEF Aboard
<1>4. ASSUME NEW s \in Seq(Packets), NEW t \in Seq(Packets)
      PROVE  s \o t \in Seq(Packets) /\ Aboard(s \o t) = Aboard(s) \cup Aboard(t)
  <2>1. Elements(s \o t) = Elements(s) \cup Elements(t)
    BY ElementFacts
  <2>2. s \o t \in Seq(Packets)
    OBVIOUS
  <2> QED BY <2>1, <2>2 DEF Aboard
<1>5. ASSUME NEW s \in Seq(Packets), s # <<>>
      PROVE  /\ Head(s) \in Packets /\ Tail(s) \in Seq(Packets)
             /\ Aboard(s) = Aboard(Tail(s)) \cup Elements(Head(s))
  <2>1. /\ Head(s) \in Packets /\ Tail(s) \in Seq(Packets)
        /\ Elements(s) = Elements(Tail(s)) \cup {Head(s)}
    BY <1>5, ElementFacts
  <2> QED BY <2>1 DEF Aboard
<1> QED BY <1>1, <1>2, <1>3, <1>4, <1>5

\* A buffer that is sent keeps its copies, among the packets now.
LEMMA OutputFacts ==
    ASSUME NEW i \in Interfaces, NEW b, OutOK(i, b)
    PROVE  OutOK(i, net_output(b)) /\ Held(net_output(b)) = Held(b)
<1>1. b \in Outs /\ MAXSIZE[i] \in Nat
  BY OwnerFacts DEF OutOK
<1>2. CASE b.data = <<>>
  BY <1>2 DEF net_output
<1>3. CASE b.data # <<>>
  <2> DEFINE a == [pending |-> 0, data |-> <<>>, sent |-> Append(b.sent, b.data)]
  <2>1. net_output(b) = a
    BY <1>3 DEF net_output
  <2>2. b.data \in Packets /\ b.sent \in Seq(Packets)
    BY <1>1 DEF Outs
  <2>3. Append(b.sent, b.data) \in Seq(Packets) /\ <<>> \in Packets
    BY <2>2 DEF Packets
  <2>4. a \in Outs
    BY <2>3 DEF Outs
  <2>5. a.pending = 0 /\ a.data = <<>> /\ a.sent = Append(b.sent, b.data)
    OBVIOUS
  <2> HIDE DEF a
  <2>6. OutOK(i, a)
    BY <1>1, <2>4, <2>5, SizeFacts DEF OutOK
  <2>7. Elements(<<>>) = {} /\ Aboard(Append(b.sent, b.data)) = Aboard(b.sent) \cup Elements(b.data)
    BY <2>2, ElementFacts, AboardFacts
  <2>8. Held(a) = Held(b)
    BY <2>5, <2>7 DEF Held
  <2> QED BY <2>1, <2>6, <2>8
<1> QED BY <1>2, <1>3

\* A message that fits is put in the buffer, another changes nothing.
LEMMA PushFacts ==
    ASSUME NEW i \in Interfaces, NEW b, OutOK(i, b), NEW c \in Copies
    PROVE  /\ OutOK(i, net_outbuffer_push(i, b, c))
           /\ Fits(i, b, c) => Held(net_outbuffer_push(i, b, c)) = Held(b) \cup {c}
           /\ ~Fits(i, b, c) => net_outbuffer_push(i, b, c) = b
<1>1. /\ b \in Outs /\ MAXSIZE[i] \in Nat
      /\ b.data \in Packets /\ b.sent \in Seq(Packets) /\ b.pending \in Nat /\ b.pending = Size(b.data)
  BY OwnerFacts DEF OutOK, Outs
<1>2. c.msg.size \in Nat
  <2>1. c.msg \in Messages
    BY DEF Copies
  <2> QED BY <2>1, MessageFacts
<1>3. CASE ~Fits(i, b, c)
  BY <1>3 DEF net_outbuffer_push
<1>4. CASE Fits(i, b, c)
  <2> DEFINE a == [b EXCEPT !.pending = @ + c.msg.size, !.data = Append(@, c)]
  <2>1. net_outbuffer_push(i, b, c) = a
    BY <1>4 DEF net_outbuffer_push
  <2>2. a.pending = b.pending + c.msg.size /\ a.data = Append(b.data, c) /\ a.sent = b.sent
    BY <1>1 DEF Outs
  <2>3. /\ Append(b.data, c) \in Packets /\ Size(Append(b.data, c)) = Size(b.data) + c.msg.size
        /\ Elements(Append(b.data, c)) = Elements(b.data) \cup {c}
    BY <1>1, SizeFacts, ElementFacts DEF Packets
  <2>4. a \in Outs
    <3>1. a = [b EXCEPT !.pending = b.pending + c.msg.size, !.data = Append(b.data, c)]
      BY <1>1 DEF Outs
    <3>2. b.pending + c.msg.size \in Nat
      BY <1>1, <1>2
    <3> QED BY <1>1, <2>3, <3>1, <3>2 DEF Outs
  <2> HIDE DEF a
  <2>5. a.pending <= MAXSIZE[i]
    BY <1>4, <2>2 DEF Fits
  <2>6. OutOK(i, a)
    BY <1>1, <2>2, <2>3, <2>4, <2>5 DEF OutOK
  <2>7. Held(a) = Held(b) \cup {c}
    BY <2>2, <2>3 DEF Held
  <2> QED BY <1>4, <2>1, <2>6, <2>7
<1> QED BY <1>3, <1>4

\* Queueing loses no copy, adds no other, and adds this one if it is not too big for the interface.
LEMMA QueueFacts ==
    ASSUME NEW i \in Interfaces, NEW b, OutOK(i, b), NEW c \in Copies
    PROVE  /\ OutOK(i, Queue(i, b, c))
           /\ Held(b) \subseteq Held(Queue(i, b, c))
           /\ Held(Queue(i, b, c)) \subseteq Held(b) \cup {c}
           /\ c.msg.size <= MAXSIZE[i] => c \in Held(Queue(i, b, c))
<1> DEFINE a == IF Fits(i, b, c) THEN b ELSE net_output(b)
<1>1. OutOK(i, a) /\ Held(a) = Held(b)
  BY OutputFacts
<1>2. ~Fits(i, b, c) /\ c.msg.size <= MAXSIZE[i] => Fits(i, a, c)
  <2>1. SUFFICES ASSUME ~Fits(i, b, c), c.msg.size <= MAXSIZE[i] PROVE Fits(i, a, c)
    OBVIOUS
  <2>2. b.pending \in Nat /\ b.pending = Size(b.data) /\ MAXSIZE[i] \in Nat
    BY OwnerFacts DEF OutOK, Outs
  <2>3. c.msg.size \in Nat
    <3>1. c.msg \in Messages
      BY DEF Copies
    <3> QED BY <3>1, MessageFacts
  <2>4. b.data # <<>>
    <3>1. CASE b.data = <<>>
      <4>1. b.pending = 0
        BY <2>2, <3>1, SizeFacts
      <4> QED BY <2>1, <2>3, <4>1 DEF Fits
    <3> QED BY <3>1
  <2>5. a.pending = 0
    BY <2>1, <2>4 DEF net_output
  <2> HIDE DEF a
  <2> QED BY <2>1, <2>3, <2>5 DEF Fits
<1>3. Fits(i, b, c) => a = b
  OBVIOUS
<1>4. Queue(i, b, c) = net_outbuffer_push(i, a, c)
  BY DEF Queue
<1> HIDE DEF a
<1>5. /\ OutOK(i, net_outbuffer_push(i, a, c))
      /\ Fits(i, a, c) => Held(net_outbuffer_push(i, a, c)) = Held(a) \cup {c}
      /\ ~Fits(i, a, c) => net_outbuffer_push(i, a, c) = a
  BY <1>1, PushFacts
<1> QED BY <1>1, <1>2, <1>3, <1>4, <1>5

-----------------------------------------------------------------------------
(* Parsing a packet, message by message                                    *)

WorkOK(n, w) == w \in Works(n) /\ \A i \in InterfacesOf(n) : OutOK(i, w.out[i])

\* What a router has before the first message of a packet.
Start(n) == [dup |-> dup[n], tc |-> tc[n], relayed |-> relayed[n],
             out |-> [i \in InterfacesOf(n) |-> Opened(i)]]

\* A copy that is forwarded is one of the same message.
LEMMA AgedFacts ==
    ASSUME NEW c \in Copies
    PROVE  /\ Aged(c) \in Copies /\ Aged(c).msg = c.msg
           /\ ~is_ttl_1(c) => Aged(c).hopcnt = c.hopcnt + 1 /\ Aged(c).ttl = c.ttl - 1
<1>1. c.msg \in Messages /\ c.ttl \in Nat /\ c.hopcnt \in Nat
  BY DEF Copies
<1>2. CASE is_ttl_1(c)
  BY <1>2 DEF Aged
<1>3. CASE ~is_ttl_1(c)
  <2>1. ~(c.ttl < 2)
    BY <1>3 DEF is_ttl_1
  <2>2. c.hopcnt + 1 \in Nat /\ c.ttl - 1 \in Nat
    BY <1>1, <2>1
  <2>3. Aged(c) = [c EXCEPT !.hopcnt = c.hopcnt + 1, !.ttl = c.ttl - 1]
    BY <1>3 DEF Aged, Copies
  <2> QED BY <1>1, <2>2, <2>3 DEF Copies
<1> QED BY <1>2, <1>3

\* The entry of the originator, after a message of it.
LEMMA EnteredFacts ==
    ASSUME NEW e \in Entries, NEW m \in Messages
    PROVE  /\ Entered(e, m) \in Entries /\ Entered(e, m).known
           /\ e.known => Entered(e, m).seen = e.seen \cup {m.seqno}
           /\ ~e.known => Entered(e, m).seen = e.seen
<1>1. e.known \in BOOLEAN /\ e.seen \in SUBSET {k.seqno : k \in Messages}
  BY DEF Entries
<1>2. e.seen \cup {m.seqno} \in SUBSET {k.seqno : k \in Messages}
  BY <1>1
<1>3. CASE e.known
  <2>1. Entered(e, m) = [e EXCEPT !.seen = e.seen \cup {m.seqno}]
    BY <1>3 DEF Entered, Entries
  <2>2. Entered(e, m) \in Entries
    BY <1>2, <2>1 DEF Entries
  <2>3. Entered(e, m).seen = e.seen \cup {m.seqno} /\ Entered(e, m).known = e.known
    BY <2>1 DEF Entries
  <2> QED BY <1>3, <2>2, <2>3
<1>4. CASE ~e.known
  <2>1. Entered(e, m) = [e EXCEPT !.known = TRUE]
    BY <1>4 DEF Entered
  <2> QED BY <1>4, <2>1 DEF Entries
<1> QED BY <1>3, <1>4

\* What forwarding a copy changes.
LEMMA ForwardedFacts ==
    ASSUME NEW in \in Interfaces, NEW w, WorkOK(Owner[in], w), NEW c \in Copies
    PROVE  LET o == Originator(c.msg)
               v == Forwarded(w, in, c)
           IN  /\ WorkOK(Owner[in], v)
               /\ v.relayed[c.msg] = w.relayed[c.msg] + 1
               /\ \A m \in Messages \ {c.msg} : v.relayed[m] = w.relayed[m]
               /\ v.dup[o] = Entered(w.dup[o], c.msg)
               /\ \A q \in Nodes \ {o} : v.dup[q] = w.dup[q]
               /\ v.tc = w.tc
               /\ \A i \in InterfacesOf(Owner[in]) :
                     v.out[i] = IF GoesThrough(i, in, c) THEN Queue(i, w.out[i], Aged(c)) ELSE w.out[i]
<1> DEFINE n == Owner[in]
           o == Originator(c.msg)
           v == Forwarded(w, in, c)
           I == InterfacesOf(n)
<1>1. c.msg \in Messages /\ o \in Nodes /\ Aged(c) \in Copies
  <2>1. c.msg \in Messages
    BY DEF Copies
  <2> QED BY <2>1, MessageFacts, AgedFacts
<1>2. /\ w.dup \in [Nodes -> Entries] /\ w.relayed \in [Messages -> Nat] /\ w.out \in [I -> Outs]
      /\ w.tc \in [Nodes -> TcEntries]
  BY DEF WorkOK, Works
<1>3. v.relayed = [w.relayed EXCEPT ![c.msg] = w.relayed[c.msg] + 1]
  BY <1>1, <1>2 DEF Forwarded
<1>4. v.dup = [w.dup EXCEPT ![o] = Entered(w.dup[o], c.msg)]
  BY <1>1, <1>2 DEF Forwarded
<1>5. v.out = [i \in I |-> IF GoesThrough(i, in, c) THEN Queue(i, w.out[i], Aged(c)) ELSE w.out[i]]
  BY <1>2 DEF Forwarded
<1>6. v.relayed \in [Messages -> Nat]
  BY <1>1, <1>2, <1>3
<1>7. v.dup \in [Nodes -> Entries]
  <2>1. w.dup[o] \in Entries
    BY <1>1, <1>2
  <2>2. Entered(w.dup[o], c.msg) \in Entries
    BY <1>1, <2>1, EnteredFacts
  <2> QED BY <1>1, <1>2, <1>4, <2>2
<1>8. ASSUME NEW i \in I PROVE OutOK(i, v.out[i])
  <2>1. i \in Interfaces /\ OutOK(i, w.out[i])
    BY DEF WorkOK, InterfacesOf
  <2>2. OutOK(i, Queue(i, w.out[i], Aged(c)))
    BY <1>1, <2>1, QueueFacts
  <2> QED BY <1>5, <2>1, <2>2
<1>9. v.out \in [I -> Outs]
  <2>1. \A i \in I : v.out[i] \in Outs
    BY <1>8 DEF OutOK
  <2>2. v.out = [i \in I |-> v.out[i]]
    BY <1>5
  <2> HIDE DEF v, I
  <2> QED BY <2>1, <2>2
<1>10. v = [out |-> v.out, relayed |-> v.relayed, dup |-> v.dup, tc |-> v.tc] /\ v.tc = w.tc
  BY DEF Forwarded
<1>11. WorkOK(n, v)
  <2> HIDE DEF v
  <2>1. v \in Works(n)
    BY <1>2, <1>6, <1>7, <1>9, <1>10 DEF Works
  <2> QED BY <1>8, <2>1 DEF WorkOK
<1> HIDE DEF v
<1>12. v.relayed[c.msg] = w.relayed[c.msg] + 1 /\ \A m \in Messages \ {c.msg} : v.relayed[m] = w.relayed[m]
  BY <1>1, <1>2, <1>3
<1>13. v.dup[o] = Entered(w.dup[o], c.msg) /\ \A q \in Nodes \ {o} : v.dup[q] = w.dup[q]
  BY <1>1, <1>2, <1>4
<1>14. \A i \in I : v.out[i] = IF GoesThrough(i, in, c) THEN Queue(i, w.out[i], Aged(c)) ELSE w.out[i]
  BY <1>5
<1> QED BY <1>10, <1>11, <1>12, <1>13, <1>14 DEF v

\* The entry of the originator of a TC, after it was handled.
LEMMA InputTcFacts ==
    ASSUME NEW e \in TcEntries, NEW m \in Messages
    PROVE  /\ olsr_input_tc(e, m) \in TcEntries
           /\ Refused(e, m) => olsr_input_tc(e, m).seqno = e.seqno /\ m.seqno <= e.seqno
           /\ ~Refused(e, m) => olsr_input_tc(e, m).seqno = m.seqno
<1>1. e.seqno \in {0} \cup {k.seqno : k \in Messages} /\ e.ignored \in 0 .. MAX_IGNORED
  BY DEF TcEntries
<1>2. \A k \in Messages : k.seqno \in Nat
  BY FloodAssumption
<1>3. e.seqno \in Nat /\ m.seqno \in Nat /\ MAX_IGNORED \in Nat
  BY <1>1, <1>2, FloodAssumption
<1>4. CASE m.seqno = e.seqno
  BY <1>3, <1>4 DEF olsr_input_tc, Refused
<1>5. CASE m.seqno # e.seqno /\ Refused(e, m)
  <2>1. m.seqno < e.seqno /\ e.ignored + 1 \in 0 .. MAX_IGNORED
    BY <1>1, <1>3, <1>5 DEF Refused
  <2>2. olsr_input_tc(e, m) = [e EXCEPT !.ignored = e.ignored + 1]
    BY <1>5 DEF olsr_input_tc, TcEntries
  <2> QED BY <1>3, <1>5, <2>1, <2>2 DEF TcEntries
<1>6. CASE m.seqno # e.seqno /\ ~Refused(e, m)
  <2>1. olsr_input_tc(e, m) = [seqno |-> m.seqno, ignored |-> 0]
    BY <1>6 DEF olsr_input_tc
  <2> QED BY <1>3, <1>6, <2>1 DEF TcEntries
<1> QED BY <1>4, <1>5, <1>6 DEF Refused

\* Handling a message changes at most the entry of a TC's originator.
LEMMA NotedFacts ==
    ASSUME NEW in \in Interfaces, NEW w, WorkOK(Owner[in], w), NEW c \in Copies
    PROVE  LET o == Originator(c.msg)
               v == Noted(w, c)
           IN  /\ WorkOK(Owner[in], v)
               /\ v.dup = w.dup /\ v.relayed = w.relayed /\ v.out = w.out
               /\ \A q \in Nodes : v.tc[q] = IF c.msg.type = "TC" /\ q = o
                                             THEN olsr_input_tc(w.tc[o], c.msg) ELSE w.tc[q]
<1> DEFINE n == Owner[in]
           o == Originator(c.msg)
           v == Noted(w, c)
<1>1. c.msg \in Messages /\ o \in Nodes
  BY MessageFacts DEF Copies
<1>2. w \in Works(n) /\ w.tc \in [Nodes -> TcEntries] /\ \A i \in InterfacesOf(n) : OutOK(i, w.out[i])
  BY DEF WorkOK, Works
<1>3. CASE c.msg.type = "TC"
  <2> DEFINE e == olsr_input_tc(w.tc[o], c.msg)
             t == [w.tc EXCEPT ![o] = e]
  <2>1. v = [w EXCEPT !.tc = t]
    BY <1>1, <1>2, <1>3 DEF Noted, Works
  <2>2. e \in TcEntries
    BY <1>1, <1>2, InputTcFacts
  <2> HIDE DEF e
  <2>3. t \in [Nodes -> TcEntries] /\ t[o] = e /\ \A q \in Nodes \ {o} : t[q] = w.tc[q]
    BY <1>1, <1>2, <2>2
  <2> HIDE DEF t, v
  <2>4. v \in Works(n) /\ v.dup = w.dup /\ v.relayed = w.relayed /\ v.out = w.out /\ v.tc = t
    BY <1>2, <2>1, <2>3 DEF Works
  <2> QED BY <1>2, <1>3, <2>3, <2>4 DEF WorkOK, v, e
<1>4. CASE c.msg.type # "TC"
  BY <1>4 DEF Noted
<1> QED BY <1>3, <1>4

\* The types are kept.
LEMMA StepType ==
    ASSUME NEW from, NEW in \in Interfaces, NEW w, WorkOK(Owner[in], w), NEW c \in Copies
    PROVE  WorkOK(Owner[in], Read(w, from, in, c))
<1>1. WorkOK(Owner[in], Noted(w, c))
  BY NotedFacts
<1>2. WorkOK(Owner[in], Forwarded(Noted(w, c), in, c))
  BY <1>1, ForwardedFacts
<1> QED BY <1>1, <1>2 DEF Read, olsr_forward_message

\* The states of a router as it works off a packet.
WorkSteps(f, from, in, packet) ==
    /\ \A k \in 0..Len(packet) : WorkOK(Owner[in], f[k])
    /\ f[0] = Start(Owner[in])
    /\ \A k \in 1..Len(packet) : f[k] = Read(f[k - 1], from, in, packet[k])

\* The router ends with the last of them.
LEMMA ParsedDefined ==
    ASSUME NEW from, NEW in \in Interfaces, NEW packet \in Packets, WorkOK(Owner[in], Start(Owner[in]))
    PROVE  \E f : WorkSteps(f, from, in, packet) /\ Parsed(from, in, packet) = f[Len(packet)]
<1> DEFINE n == Owner[in]
           N == Len(packet)
           A == {w \in Works(n) : WorkOK(n, w)}
           base == Start(n)
           step == [x \in (1..N) \X A |-> Read(x[2], from, in, packet[x[1]])]
           Q(g) == g = [k \in 0..N |-> IF k = 0 THEN base ELSE Read(g[k - 1], from, in, packet[k])]
<1>1. N \in Nat /\ \A k \in 1..N : packet[k] \in Copies
  BY DEF Packets
<1>2. base \in A /\ \A w : WorkOK(n, w) <=> w \in A
  BY DEF WorkOK
<1>3. ASSUME NEW k \in 1..N, NEW w \in A PROVE Read(w, from, in, packet[k]) \in A
  <2> DEFINE c == packet[k]
  <2>1. WorkOK(n, w) /\ c \in Copies
    BY <1>1, <1>2
  <2> HIDE DEF c, A
  <2>2. WorkOK(n, Read(w, from, in, c))
    BY <2>1, StepType
  <2> QED BY <1>2, <2>2 DEF c
<1> HIDE DEF A, base
<1>4. step \in [(1..N) \X A -> A]
  BY <1>1, <1>3
<1>5. PICK f \in [0..N -> A] : Recursion(f, N, base, step)
  <2> HIDE DEF step
  <2> QED BY <1>1, <1>2, <1>4, RecursionExists
<1>6. ASSUME NEW k \in 1..N, NEW g \in [0..N -> A]
      PROVE  step[<<k, g[k - 1]>>] = Read(g[k - 1], from, in, packet[k])
  BY <1>1
<1>7. f[0] = base /\ \A k \in 1..N : f[k] = Read(f[k - 1], from, in, packet[k])
  <2> HIDE DEF step
  <2> QED BY <1>5, <1>6 DEF Recursion
<1>8. Q(f)
  BY <1>1, <1>5, <1>7
<1> DEFINE h == CHOOSE g : Q(g)
<1>9. Parsed(from, in, packet) = h[N]
  BY DEF Parsed, base, Start
<1>10. Q(h)
  BY <1>8
<1> HIDE DEF h
<1>11. h[0] = base /\ \A k \in 1..N : h[k] = Read(h[k - 1], from, in, packet[k])
  BY <1>1, <1>10
<1>12. \A k \in 0..N : h[k] = f[k]
  <2> DEFINE S == {k \in 0..N : h[k] = f[k]}
  <2>1. 0 \in S
    BY <1>1, <1>7, <1>11
  <2>2. \A k \in 1..N : k - 1 \in S => k \in S
    BY <1>1, <1>7, <1>11
  <2> HIDE DEF S
  <2>3. 0..N \subseteq S
    BY <1>1, <2>1, <2>2, IntervalInduction
  <2> QED BY <2>3 DEF S
<1>13. WorkSteps(f, from, in, packet)
  BY <1>2, <1>5, <1>7 DEF WorkSteps, base
<1> QED BY <1>1, <1>9, <1>12, <1>13

-----------------------------------------------------------------------------
(* Type correctness                                                        *)

BufOK == /\ buf \in [Interfaces -> Buffers]
         /\ \A i \in Interfaces : buf[i].pending = Size(buf[i].data) /\ buf[i].pending <= MAXSIZE[i]

TypeInv ==
    /\ mpr \in MprSets
    /\ todo \subseteq Messages /\ sent \subseteq Messages
    /\ dup \in [Nodes -> [Nodes -> Entries]]
    /\ tc \in [Nodes -> [Nodes -> TcEntries]]
    /\ relayed \in [Nodes -> [Messages -> Nat]]
    /\ BufOK
    /\ air \in [Hears -> Seq(Packets)]
    /\ delivered \subseteq Nodes \X Messages
    /\ lost \in 0 .. MaxLost

\* The copies on their way over a link: in the buffer of its sender, or sent.
Flight(l) == Elements(buf[l[1]].data) \cup Aboard(air[l])

\* The buffer of an interface at the start of a step.
LEMMA OpenedFacts ==
    ASSUME BufOK, NEW i \in Interfaces
    PROVE  OutOK(i, Opened(i)) /\ Held(Opened(i)) = Elements(buf[i].data)
<1>1. buf[i].pending \in Nat /\ buf[i].data \in Packets
  BY DEF BufOK, Buffers
<1>2. /\ Opened(i).pending = buf[i].pending /\ Opened(i).data = buf[i].data
      /\ Opened(i).sent = <<>> /\ Opened(i) \in Outs
  BY <1>1 DEF Opened, Outs
<1>3. OutOK(i, Opened(i))
  BY <1>2 DEF OutOK, BufOK
<1> QED BY <1>2, <1>3, AboardFacts DEF Held

\* A router is in order before it works off a packet.
LEMMA StartOK ==
    ASSUME TypeInv, NEW n \in Nodes
    PROVE  WorkOK(n, Start(n))
<1> DEFINE out == [i \in InterfacesOf(n) |-> Opened(i)]
<1>1. \A i \in InterfacesOf(n) : i \in Interfaces
  BY DEF InterfacesOf
<1>2. \A i \in InterfacesOf(n) : OutOK(i, out[i])
  BY <1>1, OpenedFacts DEF TypeInv
<1>3. out \in [InterfacesOf(n) -> Outs]
  BY <1>2 DEF OutOK
<1>4. dup[n] \in [Nodes -> Entries] /\ tc[n] \in [Nodes -> TcEntries] /\ relayed[n] \in [Messages -> Nat]
  BY DEF TypeInv
<1>5. Start(n) = [dup |-> dup[n], tc |-> tc[n], relayed |-> relayed[n], out |-> out]
  BY DEF Start
<1> HIDE DEF out
<1> QED BY <1>2, <1>3, <1>4, <1>5 DEF WorkOK, Works

\* What is sent is on its way: no copy is lost in a transmission, and none added.
LEMMA TransmitFacts ==
    ASSUME BufOK, NEW J \in SUBSET Interfaces, NEW after \in [J -> Outs],
           \A i \in J : OutOK(i, after[i]),
           NEW a \in [Hears -> Seq(Packets)], Transmit(after, a)
    PROVE  /\ BufOK' /\ air' \in [Hears -> Seq(Packets)]
           /\ \A l \in Hears :
                 Flight(l)' = Aboard(a[l]) \cup
                     IF l[1] \in J THEN Held(after[l[1]]) ELSE Elements(buf[l[1]].data)
<1>1. buf' = [i \in Interfaces |->
                IF i \in J THEN [pending |-> after[i].pending, data |-> after[i].data] ELSE buf[i]]
  BY DEF Transmit
<1>2. air' = [l \in Hears |-> IF l[1] \in J THEN a[l] \o after[l[1]].sent ELSE a[l]]
  BY DEF Transmit
<1>3. ASSUME NEW i \in Interfaces
      PROVE  buf'[i] \in Buffers /\ buf'[i].pending = Size(buf'[i].data) /\ buf'[i].pending <= MAXSIZE[i]
  <2>1. CASE i \in J
    <3>1. after[i].pending \in Nat /\ after[i].data \in Packets /\ OutOK(i, after[i])
      BY <2>1 DEF Outs
    <3> QED BY <1>1, <2>1, <3>1 DEF OutOK, Buffers
  <2>2. CASE i \notin J
    BY <1>1, <2>2 DEF BufOK
  <2> QED BY <2>1, <2>2
<1>4. BufOK'
  BY <1>1, <1>3 DEF BufOK
<1>5. ASSUME NEW l \in Hears
      PROVE  /\ air'[l] \in Seq(Packets)
             /\ Flight(l)' = Aboard(a[l]) \cup
                    IF l[1] \in J THEN Held(after[l[1]]) ELSE Elements(buf[l[1]].data)
  <2>1. l[1] \in Interfaces
    BY OwnerFacts
  <2>2. Flight(l)' = Elements(buf'[l[1]].data) \cup Aboard(air'[l])
    BY DEF Flight
  <2>3. CASE l[1] \in J
    <3>1. after[l[1]].sent \in Seq(Packets) /\ buf'[l[1]].data = after[l[1]].data
      BY <1>1, <2>1, <2>3 DEF Outs
    <3>2. air'[l] = a[l] \o after[l[1]].sent
      BY <1>2, <2>3
    <3>3. a[l] \in Seq(Packets)
      OBVIOUS
    <3>4. air'[l] \in Seq(Packets) /\ Aboard(air'[l]) = Aboard(a[l]) \cup Aboard(after[l[1]].sent)
      BY <3>1, <3>2, <3>3, AboardFacts
    <3> QED BY <2>2, <2>3, <3>1, <3>4 DEF Held
  <2>4. CASE l[1] \notin J
    BY <1>1, <1>2, <2>1, <2>2, <2>4
  <2> QED BY <2>3, <2>4
<1>6. air' \in [Hears -> Seq(Packets)]
  BY <1>2, <1>5
<1> QED BY <1>4, <1>5, <1>6

\* What a packet l[1] has sent does to the router that reads it, f being the states of its work.
ParseStep(l, packet, f) ==
    LET n == Owner[l[2]]
        w == f[Len(packet)]
    IN  /\ air[l] # <<>> /\ packet = Head(air[l]) /\ packet \in Packets
        /\ WorkSteps(f, l[1], l[2], packet)
        /\ delivered' = delivered \cup
              {<<n, packet[k].msg>> : k \in {j \in DOMAIN packet : Handled(l[1], l[2], packet[j])}}
        /\ dup' = [dup EXCEPT ![n] = w.dup]
        /\ tc' = [tc EXCEPT ![n] = w.tc]
        /\ relayed' = [relayed EXCEPT ![n] = w.relayed]
        /\ UNCHANGED <<mpr, todo, sent, lost>>
        /\ BufOK' /\ air' \in [Hears -> Seq(Packets)]
        /\ \A k \in Hears :
              IF Owner[k[1]] = n THEN Flight(k)' = Aboard(air[k]) \cup Held(w.out[k[1]])
              ELSE IF k = l THEN Flight(k)' \cup Elements(packet) = Flight(k) /\ Flight(k)' \subseteq Flight(k)
              ELSE Flight(k)' = Flight(k)

\* parse_packet is such a step.
LEMMA ParseFacts ==
    ASSUME TypeInv, NEW l \in Hears, parse_packet(l[1], l[2])
    PROVE  \E f : ParseStep(l, Head(air[l]), f)
<1> DEFINE from == l[1]
           in == l[2]
           n == Owner[in]
           packet == Head(air[l])
           w == Parsed(from, in, packet)
           a == [air EXCEPT ![l] = Tail(air[l])]
<1>1. l = <<from, in>> /\ in \in Interfaces /\ from \in Interfaces /\ n \in Nodes /\ Owner[from] # n
  BY OwnerFacts
<1>2. air[l] # <<>> /\ air[l] \in Seq(Packets) /\ air \in [Hears -> Seq(Packets)]
  BY <1>1 DEF parse_packet, TypeInv
<1>3. packet \in Packets /\ Tail(air[l]) \in Seq(Packets) /\ Aboard(air[l]) = Aboard(Tail(air[l])) \cup Elements(packet)
  BY <1>2, AboardFacts
<1>4. a \in [Hears -> Seq(Packets)] /\ a[l] = Tail(air[l]) /\ \A k \in Hears \ {l} : a[k] = air[k]
  BY <1>2, <1>3
<1>5. WorkOK(n, Start(n))
  BY <1>1, StartOK
<1>6. PICK f : WorkSteps(f, from, in, packet) /\ w = f[Len(packet)]
  <2> HIDE DEF packet, w
  <2> QED BY <1>1, <1>3, <1>5, ParsedDefined DEF w
<1>7. WorkOK(n, w) /\ Len(packet) \in Nat
  <2>1. Len(packet) \in Nat
    <3> HIDE DEF packet
    <3> QED BY <1>3 DEF Packets
  <2> QED BY <1>6, <2>1 DEF WorkSteps
<1>8. Transmit(w.out, a)
  BY <1>1, <1>2 DEF parse_packet
<1>9. /\ delivered' = delivered \cup
              {<<n, packet[k].msg>> : k \in {j \in DOMAIN packet : Handled(from, in, packet[j])}}
      /\ dup' = [dup EXCEPT ![n] = w.dup]
      /\ tc' = [tc EXCEPT ![n] = w.tc]
      /\ relayed' = [relayed EXCEPT ![n] = w.relayed]
      /\ UNCHANGED <<mpr, todo, sent, lost>>
  BY <1>1 DEF parse_packet
<1> HIDE DEF w, a
<1>10. /\ w.out \in [InterfacesOf(n) -> Outs] /\ \A i \in InterfacesOf(n) : OutOK(i, w.out[i])
       /\ InterfacesOf(n) \in SUBSET Interfaces /\ BufOK
  BY <1>7 DEF WorkOK, Works, InterfacesOf, TypeInv
<1>11. /\ BufOK' /\ air' \in [Hears -> Seq(Packets)]
       /\ \A k \in Hears :
             Flight(k)' = Aboard(a[k]) \cup
                 IF k[1] \in InterfacesOf(n) THEN Held(w.out[k[1]]) ELSE Elements(buf[k[1]].data)
  <2> DEFINE J == InterfacesOf(n)
             after == w.out
  <2>1. /\ J \in SUBSET Interfaces /\ after \in [J -> Outs] /\ \A i \in J : OutOK(i, after[i])
        /\ a \in [Hears -> Seq(Packets)] /\ Transmit(after, a) /\ BufOK
    BY <1>4, <1>8, <1>10
  <2> HIDE DEF J, after
  <2>2. /\ BufOK' /\ air' \in [Hears -> Seq(Packets)]
        /\ \A k \in Hears :
             Flight(k)' = Aboard(a[k]) \cup
                 IF k[1] \in J THEN Held(after[k[1]]) ELSE Elements(buf[k[1]].data)
    BY <2>1, TransmitFacts, ZenonT(40)
  <2> QED BY <2>2 DEF J, after
<1>12. ASSUME NEW k \in Hears
       PROVE  IF Owner[k[1]] = n THEN Flight(k)' = Aboard(air[k]) \cup Held(w.out[k[1]])
              ELSE IF k = l THEN Flight(k)' \cup Elements(packet) = Flight(k) /\ Flight(k)' \subseteq Flight(k)
              ELSE Flight(k)' = Flight(k)
  <2> HIDE DEF packet
  <2>1. k[1] \in Interfaces /\ (k[1] \in InterfacesOf(n) <=> Owner[k[1]] = n)
    BY OwnerFacts DEF InterfacesOf
  <2>2. CASE Owner[k[1]] = n
    <3>1. k # l
      BY <1>1, <2>2
    <3> QED BY <1>4, <1>11, <2>1, <2>2, <3>1
  <2>3. CASE Owner[k[1]] # n /\ k = l
    <3>1. Flight(k)' = Aboard(Tail(air[l])) \cup Elements(buf[k[1]].data)
      BY <1>4, <1>11, <2>1, <2>3
    <3>2. Flight(k) = Aboard(air[l]) \cup Elements(buf[k[1]].data)
      BY <2>3 DEF Flight
    <3> QED BY <1>3, <2>3, <3>1, <3>2
  <2>4. CASE Owner[k[1]] # n /\ k # l
    <3>1. Flight(k)' = Aboard(air[k]) \cup Elements(buf[k[1]].data)
      BY <1>4, <1>11, <2>1, <2>4
    <3> QED BY <2>4, <3>1 DEF Flight
  <2> QED BY <2>2, <2>3, <2>4
<1>13. ParseStep(l, packet, f)
  <2> HIDE DEF packet
  <2> QED BY <1>2, <1>3, <1>6, <1>9, <1>11, <1>12 DEF ParseStep, packet
<1> QED BY <1>13

\* A transmission of one interface.
LEMMA TransmitOne ==
    ASSUME TypeInv, NEW i \in Interfaces, NEW b, OutOK(i, b), Transmit([j \in {i} |-> b], air)
    PROVE  /\ BufOK' /\ air' \in [Hears -> Seq(Packets)]
           /\ \A l \in Hears :
                 Flight(l)' = Aboard(air[l]) \cup IF l[1] = i THEN Held(b) ELSE Elements(buf[l[1]].data)
<1> DEFINE after == [j \in {i} |-> b]
           J == {i}
<1>1. /\ J \in SUBSET Interfaces /\ after \in [J -> Outs] /\ \A j \in J : OutOK(j, after[j])
      /\ air \in [Hears -> Seq(Packets)] /\ Transmit(after, air) /\ BufOK
  BY DEF OutOK, TypeInv
<1>2. after[i] = b /\ \A j : j \in J <=> j = i
  OBVIOUS
<1> HIDE DEF after, J
<1>3. /\ BufOK' /\ air' \in [Hears -> Seq(Packets)]
      /\ \A l \in Hears :
            Flight(l)' = Aboard(air[l]) \cup
                IF l[1] \in J THEN Held(after[l[1]]) ELSE Elements(buf[l[1]].data)
  BY <1>1, TransmitFacts, ZenonT(40)
<1> QED BY <1>2, <1>3

\* A new message is put in the buffer of its interface.
LEMMA GenerateFacts ==
    ASSUME TypeInv, NEW m \in Messages, Generate(m)
    PROVE  /\ BufOK' /\ air' \in [Hears -> Seq(Packets)] /\ Copy(m) \in Copies
           /\ \A l \in Hears :
                 /\ Flight(l) \subseteq Flight(l)'
                 /\ Flight(l)' \subseteq Flight(l) \cup (IF l[1] = m.via THEN {Copy(m)} ELSE {})
                 /\ l[1] = m.via /\ m.size <= MAXSIZE[m.via] => Copy(m) \in Flight(l)'
<1> DEFINE i == m.via
           b == Queue(i, Opened(i), Copy(m))
<1>1. i \in Interfaces /\ m.ttl \in Nat /\ BufOK
  BY MessageFacts DEF TypeInv
<1>2. Copy(m) \in Copies /\ Copy(m).msg = m
  BY <1>1 DEF Copy, Copies
<1>3. OutOK(i, Opened(i)) /\ Held(Opened(i)) = Elements(buf[i].data)
  BY <1>1, OpenedFacts
<1>4. /\ OutOK(i, b)
      /\ Held(Opened(i)) \subseteq Held(b) /\ Held(b) \subseteq Held(Opened(i)) \cup {Copy(m)}
      /\ m.size <= MAXSIZE[i] => Copy(m) \in Held(b)
  <2>1. /\ OutOK(i, b)
        /\ Held(Opened(i)) \subseteq Held(b) /\ Held(b) \subseteq Held(Opened(i)) \cup {Copy(m)}
        /\ Copy(m).msg.size <= MAXSIZE[i] => Copy(m) \in Held(b)
    BY <1>1, <1>2, <1>3, QueueFacts
  <2> QED BY <1>2, <2>1
<1>5. Transmit([j \in {i} |-> b], air)
  <2>1. [j \in {i} |-> Queue(j, Opened(j), Copy(m))] = [j \in {i} |-> b]
    OBVIOUS
  <2> QED BY <2>1 DEF Generate
<1> HIDE DEF b
<1>6. /\ BufOK' /\ air' \in [Hears -> Seq(Packets)]
      /\ \A l \in Hears :
            Flight(l)' = Aboard(air[l]) \cup IF l[1] = i THEN Held(b) ELSE Elements(buf[l[1]].data)
  BY <1>1, <1>4, <1>5, TransmitOne
<1>7. ASSUME NEW l \in Hears
      PROVE  /\ Flight(l) \subseteq Flight(l)'
             /\ Flight(l)' \subseteq Flight(l) \cup (IF l[1] = m.via THEN {Copy(m)} ELSE {})
             /\ l[1] = m.via /\ m.size <= MAXSIZE[m.via] => Copy(m) \in Flight(l)'
  <2>1. Flight(l) = Elements(buf[l[1]].data) \cup Aboard(air[l])
    BY DEF Flight
  <2>2. CASE l[1] = i
    <3>1. Flight(l)' = Aboard(air[l]) \cup Held(b)
      BY <1>6, <2>2
    <3> QED BY <1>3, <1>4, <2>1, <2>2, <3>1
  <2>3. CASE l[1] # i
    <3>1. Flight(l)' = Aboard(air[l]) \cup Elements(buf[l[1]].data)
      BY <1>6, <2>3
    <3> QED BY <2>1, <2>3, <3>1
  <2> QED BY <2>2, <2>3
<1> QED BY <1>2, <1>6, <1>7

\* Sending a buffer moves its copies to the packets on their way.
LEMMA HelloFacts ==
    ASSUME TypeInv, NEW i \in Interfaces, generate_hello(i)
    PROVE  BufOK' /\ air' \in [Hears -> Seq(Packets)] /\ \A l \in Hears : Flight(l)' = Flight(l)
<1> DEFINE b == net_output(Opened(i))
<1>1. OutOK(i, Opened(i)) /\ Held(Opened(i)) = Elements(buf[i].data)
  BY OpenedFacts DEF TypeInv
<1>2. OutOK(i, b) /\ Held(b) = Held(Opened(i))
  BY <1>1, OutputFacts
<1>3. Transmit([j \in {i} |-> b], air)
  <2>1. [j \in {i} |-> net_output(Opened(j))] = [j \in {i} |-> b]
    OBVIOUS
  <2> QED BY <2>1 DEF generate_hello
<1> HIDE DEF b
<1>4. /\ BufOK' /\ air' \in [Hears -> Seq(Packets)]
      /\ \A l \in Hears :
            Flight(l)' = Aboard(air[l]) \cup IF l[1] = i THEN Held(b) ELSE Elements(buf[l[1]].data)
  BY <1>2, <1>3, TransmitOne
<1> QED BY <1>1, <1>2, <1>4 DEF Flight

\* A packet that is missed takes its copies with it.
LEMMA LoseFacts ==
    ASSUME TypeInv, NEW l \in Hears, Lose(l)
    PROVE  BufOK' /\ air' \in [Hears -> Seq(Packets)] /\ \A k \in Hears : Flight(k)' \subseteq Flight(k)
<1>1. air \in [Hears -> Seq(Packets)] /\ air[l] # <<>>
  BY DEF TypeInv, Lose
<1>2. air' = [air EXCEPT ![l] = Tail(air[l])]
  BY <1>1 DEF Lose
<1>3. Tail(air[l]) \in Seq(Packets) /\ Aboard(Tail(air[l])) \subseteq Aboard(air[l])
  BY <1>1, AboardFacts
<1>4. BufOK'
  BY DEF TypeInv, BufOK, Lose
<1>5. ASSUME NEW k \in Hears PROVE Flight(k)' \subseteq Flight(k)
  <2>1. Flight(k)' = Elements(buf[k[1]].data) \cup Aboard(air'[k])
    BY DEF Flight, Lose
  <2>2. Aboard(air'[k]) \subseteq Aboard(air[k])
    BY <1>1, <1>2, <1>3
  <2> QED BY <2>1, <2>2 DEF Flight
<1> QED BY <1>1, <1>2, <1>3, <1>4, <1>5

\* A copy in a packet that is read is one, and of a message.
LEMMA PacketFacts ==
    ASSUME NEW packet \in Packets
    PROVE  /\ DOMAIN packet = 1..Len(packet) /\ Len(packet) \in Nat
           /\ \A k \in 1..Len(packet) : packet[k] \in Copies /\ packet[k].msg \in Messages
<1>1. DOMAIN packet = 1..Len(packet) /\ Len(packet) \in Nat /\ \A k \in 1..Len(packet) : packet[k] \in Copies
  BY DEF Packets
<1> QED BY <1>1 DEF Copies

\* Types hold at the start.
LEMMA TypeInit == ASSUME Init PROVE TypeInv
<1>1. BufOK
  <2>1. Empty \in Buffers /\ Empty.pending = 0 /\ Empty.data = <<>>
    BY DEF Empty, Buffers, Packets
  <2>2. \A i \in Interfaces : MAXSIZE[i] \in Nat /\ 0 <= MAXSIZE[i]
    BY OwnerFacts
  <2> QED BY <2>1, <2>2, SizeFacts DEF Init, BufOK
<1>2. dup \in [Nodes -> [Nodes -> Entries]]
  <2>1. PICK b \in BOOLEAN : dup = [n \in Nodes |-> [o \in Nodes |-> [NoEntry EXCEPT !.known = b]]]
    BY DEF Init
  <2>2. [NoEntry EXCEPT !.known = b] \in Entries
    BY DEF NoEntry, Entries
  <2> QED BY <2>1, <2>2
<1>3. air \in [Hears -> Seq(Packets)]
  BY DEF Init
<1>4. lost \in 0..MaxLost
  BY OwnerFacts DEF Init
<1>5. todo \subseteq Messages
  BY DEF Init, Messages
<1>6. tc \in [Nodes -> [Nodes -> TcEntries]]
  <2>1. NoTc \in TcEntries
    BY FloodAssumption DEF NoTc, TcEntries
  <2> QED BY <2>1 DEF Init
<1> QED BY <1>1, <1>2, <1>3, <1>4, <1>5, <1>6 DEF Init, TypeInv

\* Every step keeps the types.
LEMMA TypeStep == ASSUME TypeInv, [Next]_vars PROVE TypeInv'
<1>1. ASSUME NEW m \in Messages, Generate(m) PROVE TypeInv'
  <2>1. BufOK' /\ air' \in [Hears -> Seq(Packets)]
    BY <1>1, GenerateFacts
  <2>2. todo' \subseteq Messages /\ sent' \subseteq Messages
    BY <1>1 DEF Generate, TypeInv
  <2>3. UNCHANGED <<mpr, dup, tc, delivered, relayed, lost>>
    BY <1>1 DEF Generate
  <2> QED BY <2>1, <2>2, <2>3 DEF TypeInv
<1>2. ASSUME NEW i \in Interfaces, generate_hello(i) PROVE TypeInv'
  <2>1. BufOK' /\ air' \in [Hears -> Seq(Packets)]
    BY <1>2, HelloFacts
  <2>2. UNCHANGED <<mpr, todo, sent, dup, tc, delivered, relayed, lost>>
    BY <1>2 DEF generate_hello
  <2> QED BY <2>1, <2>2 DEF TypeInv
<1>3. ASSUME NEW l \in Hears, parse_packet(l[1], l[2]) PROVE TypeInv'
  <2> DEFINE n == Owner[l[2]]
             packet == Head(air[l])
  <2>1. PICK f : ParseStep(l, packet, f)
    BY <1>3, ParseFacts
  <2> DEFINE w == f[Len(packet)]
  <2>2. packet \in Packets /\ n \in Nodes
    BY <2>1, OwnerFacts DEF ParseStep
  <2> HIDE DEF packet
  <2>3. Len(packet) \in Nat /\ DOMAIN packet = 1..Len(packet) /\ \A k \in 1..Len(packet) : packet[k].msg \in Messages
    BY <2>2, PacketFacts
  <2>4. WorkOK(n, w)
    <3>1. WorkSteps(f, l[1], l[2], packet) /\ Len(packet) \in 0..Len(packet)
      BY <2>1, <2>3 DEF ParseStep
    <3> QED BY <3>1 DEF WorkSteps
  <2>5. w.dup \in [Nodes -> Entries] /\ w.tc \in [Nodes -> TcEntries] /\ w.relayed \in [Messages -> Nat]
    BY <2>4 DEF WorkOK, Works
  <2>6. /\ dup' \in [Nodes -> [Nodes -> Entries]] /\ tc' \in [Nodes -> [Nodes -> TcEntries]]
        /\ relayed' \in [Nodes -> [Messages -> Nat]]
    BY <2>1, <2>2, <2>5 DEF ParseStep, TypeInv
  <2>7. delivered' \subseteq Nodes \X Messages
    BY <2>1, <2>2, <2>3 DEF ParseStep, TypeInv
  <2>8. BufOK' /\ air' \in [Hears -> Seq(Packets)] /\ UNCHANGED <<mpr, todo, sent, lost>>
    BY <2>1 DEF ParseStep
  <2> QED BY <2>6, <2>7, <2>8 DEF TypeInv
<1>4. ASSUME NEW l \in Hears, Lose(l) PROVE TypeInv'
  <2>1. BufOK' /\ air' \in [Hears -> Seq(Packets)]
    BY <1>4, LoseFacts
  <2>2. lost' \in 0..MaxLost
    BY <1>4, OwnerFacts DEF Lose, TypeInv
  <2>3. UNCHANGED <<mpr, todo, sent, dup, tc, delivered, relayed>>
    BY <1>4 DEF Lose
  <2> QED BY <2>1, <2>2, <2>3 DEF TypeInv
<1>5. CASE UNCHANGED vars
  BY <1>5 DEF vars, TypeInv, BufOK
<1> QED BY <1>1, <1>2, <1>3, <1>4, <1>5 DEF Next

\* The variables of Flood have their types, and the counter of a buffer is the size of what it
\* holds, which is never more than fits (net_outbuffer_push, net_output).
THEOREM FloodTypeCorrect == Spec => []TypeOK
<1>1. Init => TypeInv
  BY TypeInit
<1>2. TypeInv /\ [Next]_vars => TypeInv'
  BY TypeStep
<1>3. TypeInv => TypeOK
  <2> SUFFICES ASSUME TypeInv PROVE TypeOK
    OBVIOUS
  <2>1. \A i \in Interfaces : buf[i].pending \in 0 .. MAXSIZE[i] /\ buf[i].pending = Size(buf[i].data)
    BY OwnerFacts DEF TypeInv, BufOK, Buffers
  <2> QED BY <2>1 DEF TypeInv, TypeOK, Entries, TcEntries
<1> QED BY <1>1, <1>2, <1>3, PTL DEF Spec

-----------------------------------------------------------------------------
(* A message is forwarded once                                             *)

\* How often m was forwarded, and may be yet: d is a router's duplicate set, r what it forwarded.
Turns(d, r, m) == r[m] + IF m.seqno \in d[Originator(m)].seen THEN 0 ELSE 1

\* A message is forwarded before its bit is set and once more when it is, which happens at once
\* but to the message that creates the entry; so only one message has two turns.
Once(n, d, r) ==
    /\ \A m \in Messages :
          /\ Originator(m) = n => r[m] = 0
          /\ r[m] <= IF m.seqno \in d[Originator(m)].seen THEN 2 ELSE 1
          /\ ~d[Originator(m)].known => r[m] = 0
    /\ \A m, k \in Messages :
          m # k /\ Originator(m) = Originator(k) => Turns(d, r, m) <= 1 \/ Turns(d, r, k) <= 1

\* Forwarding keeps this.
LEMMA OnceForwarded ==
    ASSUME NEW in \in Interfaces, NEW w, WorkOK(Owner[in], w), NEW c \in Copies,
           Once(Owner[in], w.dup, w.relayed), Originator(c.msg) # Owner[in],
           c.msg.seqno \notin w.dup[Originator(c.msg)].seen
    PROVE  Once(Owner[in], Forwarded(w, in, c).dup, Forwarded(w, in, c).relayed)
<1> DEFINE n == Owner[in]
           v == Forwarded(w, in, c)
           x == c.msg
           o == Originator(x)
           d == w.dup
           r == w.relayed
           dd == v.dup
           rr == v.relayed
<1>1. x \in Messages
  BY DEF Copies
<1>2. o \in Nodes /\ \A m \in Messages : Originator(m) \in Nodes
  BY <1>1, MessageFacts
<1>3. /\ d \in [Nodes -> Entries] /\ r \in [Messages -> Nat] /\ WorkOK(n, v)
      /\ rr[x] = r[x] + 1 /\ \A m \in Messages \ {x} : rr[m] = r[m]
      /\ dd[o] = Entered(d[o], x) /\ \A q \in Nodes \ {o} : dd[q] = d[q]
  BY ForwardedFacts DEF WorkOK, Works
<1>4. rr \in [Messages -> Nat]
  BY <1>3 DEF WorkOK, Works
<1>5. Once(n, d, r) /\ o # n /\ x.seqno \notin d[o].seen
  OBVIOUS
<1> HIDE DEF v, x, o, d, r, n, dd, rr
<1>6. d[o] \in Entries /\ dd[o].known
  BY <1>1, <1>2, <1>3, EnteredFacts
<1>7. r[x] <= 1
  <2>1. o = Originator(x)
    BY DEF o, x
  <2>2. r[x] <= IF x.seqno \in d[Originator(x)].seen THEN 2 ELSE 1
    BY <1>1, <1>5 DEF Once
  <2> QED BY <1>5, <2>1, <2>2
<1>0. o = Originator(x)
  BY DEF o, x
<1>8. CASE d[o].known
  <2>1. dd[o].seen = d[o].seen \cup {x.seqno}
    BY <1>1, <1>3, <1>6, <1>8, EnteredFacts
  <2>2. \A m \in Messages : m.seqno \in d[Originator(m)].seen => m.seqno \in dd[Originator(m)].seen
    BY <1>2, <1>3, <2>1
  <2>3. ASSUME NEW m \in Messages
        PROVE  /\ Originator(m) = n => rr[m] = 0
               /\ rr[m] <= IF m.seqno \in dd[Originator(m)].seen THEN 2 ELSE 1
               /\ ~dd[Originator(m)].known => rr[m] = 0
               /\ Turns(dd, rr, m) <= Turns(d, r, m)
    <3>1. /\ r[m] \in Nat /\ r[x] \in Nat
          /\ Originator(m) = n => r[m] = 0
          /\ r[m] <= IF m.seqno \in d[Originator(m)].seen THEN 2 ELSE 1
          /\ ~d[Originator(m)].known => r[m] = 0
      BY <1>1, <1>3, <1>5 DEF Once
    <3>2. CASE m = x
      <4>1. rr[m] = r[x] + 1 /\ m.seqno \in dd[o].seen /\ Originator(m) = o
        BY <1>0, <1>3, <2>1, <3>2
      <4>2. Turns(dd, rr, m) = r[x] + 1 /\ Turns(d, r, m) = r[x] + 1
        BY <1>5, <3>1, <3>2, <4>1 DEF Turns
      <4> QED BY <1>5, <1>6, <1>7, <3>1, <4>1, <4>2
    <3>3. CASE m # x
      <4>1. rr[m] = r[m]
        BY <1>3, <3>3
      <4>2. rr[m] <= IF m.seqno \in dd[Originator(m)].seen THEN 2 ELSE 1
        BY <2>2, <3>1, <4>1
      <4>3. Turns(dd, rr, m) <= Turns(d, r, m)
        BY <2>2, <3>1, <4>1 DEF Turns
      <4>4. ~dd[Originator(m)].known => rr[m] = 0
        BY <1>2, <1>3, <1>6, <3>1, <4>1
      <4> QED BY <3>1, <4>1, <4>2, <4>3, <4>4
    <3> QED BY <3>2, <3>3
  <2>4. \A m \in Messages : Turns(dd, rr, m) \in Nat /\ Turns(d, r, m) \in Nat
    BY <1>3, <1>4 DEF Turns
  <2>5. ASSUME NEW m \in Messages, NEW k \in Messages, m # k, Originator(m) = Originator(k)
        PROVE  Turns(dd, rr, m) <= 1 \/ Turns(dd, rr, k) <= 1
    <3>1. Turns(d, r, m) <= 1 \/ Turns(d, r, k) <= 1
      BY <1>5, <2>5 DEF Once
    <3> QED BY <2>3, <2>4, <3>1
  <2>6. Once(n, dd, rr)
    BY <2>3, <2>5 DEF Once
  <2> QED BY <2>6 DEF n, dd, rr, v
<1>9. CASE ~d[o].known
  <2>1. dd[o].seen = d[o].seen
    BY <1>1, <1>3, <1>6, <1>9, EnteredFacts
  <2>2. \A m \in Messages : dd[Originator(m)].seen = d[Originator(m)].seen
    BY <1>2, <1>3, <2>1
  <2>3. \A m \in Messages : Originator(m) = o => r[m] = 0
    BY <1>5, <1>9 DEF Once
  <2>4. ASSUME NEW m \in Messages
        PROVE  /\ Originator(m) = n => rr[m] = 0
               /\ rr[m] <= IF m.seqno \in dd[Originator(m)].seen THEN 2 ELSE 1
               /\ ~dd[Originator(m)].known => rr[m] = 0
               /\ m # x => Turns(dd, rr, m) = Turns(d, r, m)
               /\ m # x /\ Originator(m) = o => Turns(dd, rr, m) <= 1
    <3>1. /\ r[m] \in Nat /\ r[x] \in Nat /\ rr[m] \in Nat
          /\ Originator(m) = n => r[m] = 0
          /\ r[m] <= IF m.seqno \in d[Originator(m)].seen THEN 2 ELSE 1
          /\ ~d[Originator(m)].known => r[m] = 0
      BY <1>1, <1>3, <1>4, <1>5 DEF Once
    <3>2. CASE m = x
      <4>1. rr[m] = 1
        BY <1>0, <1>1, <1>3, <2>3, <3>2
      <4> QED BY <1>0, <1>5, <1>6, <3>2, <4>1
    <3>3. CASE m # x
      <4>1. rr[m] = r[m]
        BY <1>3, <3>3
      <4>2. Turns(dd, rr, m) = Turns(d, r, m)
        BY <2>2, <4>1 DEF Turns
      <4>3. Originator(m) = o => Turns(dd, rr, m) <= 1
        BY <2>3, <4>1 DEF Turns
      <4>4. ~dd[Originator(m)].known => rr[m] = 0
        BY <1>2, <1>3, <1>6, <3>1, <4>1
      <4> QED BY <2>2, <3>1, <3>3, <4>1, <4>2, <4>3, <4>4
    <3> QED BY <3>2, <3>3
  <2>5. ASSUME NEW m \in Messages, NEW k \in Messages, m # k, Originator(m) = Originator(k)
        PROVE  Turns(dd, rr, m) <= 1 \/ Turns(dd, rr, k) <= 1
    <3>1. CASE m = x \/ k = x
      BY <1>0, <2>4, <2>5, <3>1
    <3>2. CASE m # x /\ k # x
      BY <1>5, <2>4, <2>5, <3>2 DEF Once
    <3> QED BY <3>1, <3>2
  <2>6. Once(n, dd, rr)
    BY <2>4, <2>5 DEF Once
  <2> QED BY <2>6 DEF n, dd, rr, v
<1> QED BY <1>8, <1>9

\* A router works off a packet and has forwarded no message too often.
LEMMA OnceParsed ==
    ASSUME NEW from, NEW in \in Interfaces, NEW packet \in Packets, NEW f,
           WorkSteps(f, from, in, packet), Once(Owner[in], f[0].dup, f[0].relayed)
    PROVE  Once(Owner[in], f[Len(packet)].dup, f[Len(packet)].relayed)
<1> DEFINE n == Owner[in]
           N == Len(packet)
           S == {k \in 0..N : Once(n, f[k].dup, f[k].relayed)}
<1>1. N \in Nat /\ \A k \in 1..N : packet[k] \in Copies
  BY PacketFacts
<1>2. 0 \in S
  BY <1>1
<1>3. ASSUME NEW k \in 1..N, k - 1 \in S PROVE k \in S
  <2> DEFINE w == f[k - 1]
             c == packet[k]
             v == Noted(w, c)
  <2>1. WorkOK(n, w) /\ Once(n, w.dup, w.relayed) /\ c \in Copies /\ f[k] = Read(w, from, in, c)
    BY <1>1, <1>3 DEF WorkSteps
  <2> HIDE DEF w, c
  <2>2. WorkOK(n, v) /\ v.dup = w.dup /\ v.relayed = w.relayed
    BY <2>1, NotedFacts
  <2>3. CASE f[k] = w \/ f[k] = v
    <3> HIDE DEF v
    <3> QED BY <1>1, <2>1, <2>2, <2>3
  <2>4. CASE f[k] # w /\ f[k] # v
    <3>1. /\ f[k] = Forwarded(v, in, c) /\ Originator(c.msg) # n
          /\ c.msg.seqno \notin v.dup[Originator(c.msg)].seen
      BY <2>1, <2>4 DEF Read, olsr_forward_message, Handled
    <3> HIDE DEF v
    <3>2. Once(n, Forwarded(v, in, c).dup, Forwarded(v, in, c).relayed)
      BY <2>1, <2>2, <3>1, OnceForwarded
    <3> QED BY <1>1, <3>1, <3>2
  <2> QED BY <2>3, <2>4
<1> HIDE DEF S
<1>4. 0..N \subseteq S
  BY <1>1, <1>2, <1>3, IntervalInduction
<1>5. N \in S
  BY <1>1, <1>4
<1> QED BY <1>5 DEF S

OnceInv == \A n \in Nodes : Once(n, dup[n], relayed[n])

\* Nothing was forwarded at the start.
LEMMA OnceInit == ASSUME Init PROVE OnceInv
<1> SUFFICES ASSUME NEW n \in Nodes PROVE Once(n, dup[n], relayed[n])
  BY DEF OnceInv
<1>1. PICK b \in BOOLEAN : dup = [q \in Nodes |-> [o \in Nodes |-> [NoEntry EXCEPT !.known = b]]]
  BY DEF Init
<1>2. \A o \in Nodes : dup[n][o].seen = {}
  BY <1>1 DEF NoEntry
<1>3. \A m \in Messages : relayed[n][m] = 0 /\ Originator(m) \in Nodes
  BY MessageFacts DEF Init
<1>4. \A m \in Messages : Turns(dup[n], relayed[n], m) = 1
  BY <1>2, <1>3 DEF Turns
<1> QED BY <1>2, <1>3, <1>4 DEF Once

\* Only parse_packet forwards.
LEMMA OnceStep == ASSUME TypeInv, OnceInv, [Next]_vars PROVE OnceInv'
<1>1. CASE UNCHANGED <<dup, relayed>>
  BY <1>1 DEF OnceInv
<1>2. ASSUME NEW l \in Hears, parse_packet(l[1], l[2]) PROVE OnceInv'
  <2> DEFINE n == Owner[l[2]]
             packet == Head(air[l])
  <2>1. PICK f : ParseStep(l, packet, f)
    BY <1>2, ParseFacts
  <2> DEFINE w == f[Len(packet)]
  <2>2. packet \in Packets /\ n \in Nodes /\ l[2] \in Interfaces /\ WorkSteps(f, l[1], l[2], packet)
    BY <2>1, OwnerFacts DEF ParseStep
  <2>3. f[0].dup = dup[n] /\ f[0].relayed = relayed[n]
    BY <2>2 DEF WorkSteps, Start
  <2>4. Once(n, f[0].dup, f[0].relayed)
    BY <2>2, <2>3 DEF OnceInv
  <2> HIDE DEF packet
  <2>5. Once(n, w.dup, w.relayed)
    BY <2>2, <2>4, OnceParsed
  <2>6. dup' = [dup EXCEPT ![n] = w.dup] /\ relayed' = [relayed EXCEPT ![n] = w.relayed]
    BY <2>1 DEF ParseStep
  <2> HIDE DEF w
  <2>7. DOMAIN dup = Nodes /\ DOMAIN relayed = Nodes
    BY DEF TypeInv
  <2>8. ASSUME NEW q \in Nodes PROVE Once(q, dup'[q], relayed'[q])
    <3>1. CASE q = n
      <4>1. dup'[q] = w.dup /\ relayed'[q] = w.relayed
        BY <2>6, <2>7, <3>1
      <4> QED BY <2>5, <3>1, <4>1
    <3>2. CASE q # n
      <4>1. dup'[q] = dup[q] /\ relayed'[q] = relayed[q]
        BY <2>6, <2>7, <3>2
      <4> QED BY <4>1 DEF OnceInv
    <3> QED BY <3>1, <3>2
  <2> QED BY <2>8 DEF OnceInv
<1> QED BY <1>1, <1>2 DEF Next, vars, Generate, generate_hello, Lose

\* A router forwards a message once, however many copies reach it; twice only if the message
\* created the entry of its originator in the duplicate set (olsr_forward_message,
\* olsr_message_is_duplicate).  This holds on every network, with any loss and whatever MPRs.
THEOREM EveryMessageForwardedOnce == Spec => []ForwardedOnce
<1>1. Init => TypeInv /\ OnceInv
  BY TypeInit, OnceInit
<1>2. TypeInv /\ OnceInv /\ [Next]_vars => (TypeInv /\ OnceInv)'
  BY TypeStep, OnceStep
<1>3. TypeInv /\ OnceInv => ForwardedOnce
  <2> SUFFICES ASSUME TypeInv, OnceInv, NEW n \in Nodes, NEW m \in Messages
               PROVE  relayed[n][m] <=
                        IF Originator(m) = n THEN 0
                        ELSE IF \E k \in Messages \ {m} : /\ Originator(k) = Originator(m)
                                                          /\ relayed[n][k] > 1 THEN 1
                        ELSE 2
    BY DEF ForwardedOnce
  <2> DEFINE d == dup[n]
             r == relayed[n]
  <2>1. Once(n, d, r) /\ r \in [Messages -> Nat]
    BY DEF OnceInv, TypeInv
  <2> HIDE DEF d, r
  <2>2. r[m] \in Nat /\ r[m] <= 2 /\ (Originator(m) = n => r[m] = 0)
    BY <2>1 DEF Once
  <2>3. ASSUME NEW k \in Messages \ {m}, Originator(k) = Originator(m), r[k] > 1 PROVE r[m] <= 1
    <3>1. r[k] \in Nat /\ Turns(d, r, k) >= r[k] /\ Turns(d, r, m) >= r[m]
      BY <2>1 DEF Turns
    <3>2. Turns(d, r, m) <= 1 \/ Turns(d, r, k) <= 1
      BY <2>1, <2>3 DEF Once
    <3>3. Turns(d, r, k) \in Nat /\ Turns(d, r, m) \in Nat
      BY <2>1 DEF Turns
    <3> QED BY <2>2, <2>3, <3>1, <3>2, <3>3
  <2> QED BY <2>2, <2>3 DEF r
<1> QED BY <1>1, <1>2, <1>3, PTL DEF Spec

\* Symmetric links join neighbours.
LEMMA NeighborFacts ==
    /\ \A n \in Nodes : SymNeighbors[n] \subseteq Nodes
    /\ \A i, j \in Interfaces : SymLink(i, j) => /\ SymLink(j, i) /\ <<i, j>> \in Hears
                                                 /\ Owner[i] # Owner[j]
                                                 /\ Owner[j] \in SymNeighbors[Owner[i]]
    /\ \A n \in Nodes : \A k \in SymNeighbors[n] :
          \E i, j \in Interfaces : Owner[i] = n /\ Owner[j] = k /\ SymLink(i, j)
    /\ \A n \in Nodes : \A k \in SymNeighbors[n] : n \in SymNeighbors[k]
<1>1. \A n \in Nodes : SymNeighbors[n] \subseteq Nodes
  BY OwnerFacts DEF SymNeighbors
<1>2. ASSUME NEW i \in Interfaces, NEW j \in Interfaces, SymLink(i, j)
      PROVE  /\ SymLink(j, i) /\ <<i, j>> \in Hears /\ Owner[i] # Owner[j]
             /\ Owner[j] \in SymNeighbors[Owner[i]]
  <2>1. SymLink(j, i) /\ <<i, j>> \in Hears
    BY <1>2 DEF SymLink
  <2>2. <<i, j>>[1] = i /\ <<i, j>>[2] = j
    OBVIOUS
  <2>3. Owner[i] # Owner[j]
    BY <2>1, <2>2, OwnerFacts
  <2>4. Owner[i] \in Nodes
    BY OwnerFacts
  <2> QED BY <1>2, <2>1, <2>3, <2>4 DEF SymNeighbors
<1>3. ASSUME NEW n \in Nodes, NEW k \in SymNeighbors[n]
      PROVE  \E i, j \in Interfaces : Owner[i] = n /\ Owner[j] = k /\ SymLink(i, j)
  BY DEF SymNeighbors
<1>4. ASSUME NEW n \in Nodes, NEW k \in SymNeighbors[n] PROVE n \in SymNeighbors[k]
  <2>1. PICK i \in Interfaces, j \in Interfaces : Owner[i] = n /\ Owner[j] = k /\ SymLink(i, j)
    BY <1>3
  <2>2. SymLink(j, i)
    BY <1>2, <2>1
  <2>3. Owner[i] \in SymNeighbors[Owner[j]]
    BY <1>2, <2>2
  <2> QED BY <2>1, <2>3
<1> QED BY <1>1, <1>2, <1>3, <1>4

-----------------------------------------------------------------------------
(* Flooding is complete: what a packet makes of its reader                 *)

\* The router is to take the message over: it is handled and from a selector.
Taken(from, in, c) == Handled(from, in, c) /\ FromSelector(Owner[in], Owner[from])

\* After k messages of a packet, with s the state before the packet and w the one reached:
\* what was forwarded is in the buffers, and nothing else is new there.
Progress(s, w, from, in, packet, k) ==
    /\ \A m \in Messages : w.relayed[m] >= s.relayed[m]
    /\ \A i \in InterfacesOf(Owner[in]) : Held(s.out[i]) \subseteq Held(w.out[i])
    /\ \A j \in 1..k : Taken(from, in, packet[j]) /\ Assured(packet[j].msg)
                            => w.relayed[packet[j].msg] >= 1
    /\ \A m \in Messages :
          w.relayed[m] > s.relayed[m] =>
              \E j \in 1..k : /\ packet[j].msg = m /\ Taken(from, in, packet[j])
                              /\ \A i \in InterfacesOf(Owner[in]) :
                                    GoesThrough(i, in, packet[j]) => Aged(packet[j]) \in Held(w.out[i])
    /\ \A i \in InterfacesOf(Owner[in]) : \A c \in Held(w.out[i]) :
          \/ c \in Held(s.out[i])
          \/ \E j \in 1..k : c = Aged(packet[j]) /\ w.relayed[c.msg] > s.relayed[c.msg]
    /\ \A m \in Messages : m.seqno \in w.dup[Originator(m)].seen => w.relayed[m] >= 1

\* The TC a router believed last was sent, and forwarded if all routers have chosen all their
\* neighbours; t and r are its topology set and what it forwarded.
TcDone(t, r) ==
    \A o \in Nodes :
        \/ t[o].seqno = 0
        \/ \E x \in sent : /\ x.type = "TC" /\ Originator(x) = o /\ x.seqno = t[o].seqno
                           /\ (\A n \in Nodes : mpr[n] = SymNeighbors[n]) => r[x] >= 1

\* A message that its handler refuses was forwarded before, or need not be.
LEMMA RefusedDone ==
    ASSUME WellConnected, NEW in \in Interfaces, NEW w, WorkOK(Owner[in], w), NEW c \in Copies,
           TcDone(w.tc, w.relayed), sent \subseteq Messages, ~Passes(w, c), Assured(c.msg)
    PROVE  w.relayed[c.msg] >= 1
<1> DEFINE o == Originator(c.msg)
<1>1. c.msg \in Messages /\ o \in Nodes
  BY MessageFacts DEF Copies
<1>2. c.msg.type = "TC" /\ Refused(w.tc[o], c.msg)
  BY DEF Passes
<1>3. w.tc[o] \in TcEntries
  BY <1>1 DEF WorkOK, Works
<1>4. c.msg.seqno \in Nat \ {0} /\ \A x \in sent : x.seqno \in Nat
  BY <1>1, FloodAssumption
<1>5. c.msg.seqno <= w.tc[o].seqno
  BY <1>1, <1>2, <1>3, InputTcFacts
<1>6. w.tc[o].seqno # 0
  BY <1>4, <1>5
<1>7. PICK x \in sent : /\ x.type = "TC" /\ Originator(x) = o /\ x.seqno = w.tc[o].seqno
                        /\ (\A n \in Nodes : mpr[n] = SymNeighbors[n]) => w.relayed[x] >= 1
  BY <1>1, <1>6 DEF TcDone
<1>8. x.seqno <= c.msg.seqno /\ \A n \in Nodes : mpr[n] = SymNeighbors[n]
  BY <1>2, <1>7 DEF Assured
<1>9. x.seqno = c.msg.seqno
  BY <1>4, <1>5, <1>7, <1>8
<1>10. x = c.msg
  BY <1>1, <1>7, <1>9 DEF WellConnected
<1> QED BY <1>7, <1>8, <1>10

\* A TC that is believed is sent on at once, if all routers have chosen all their neighbours.
LEMMA TcDoneRead ==
    ASSUME NEW from \in Interfaces, NEW in \in Interfaces, NEW w, WorkOK(Owner[in], w), NEW c \in Copies,
           TcDone(w.tc, w.relayed), sent \subseteq Messages, c.msg \in sent,
           \A m \in Messages : m.seqno \in w.dup[Originator(m)].seen => w.relayed[m] >= 1
    PROVE  TcDone(Read(w, from, in, c).tc, Read(w, from, in, c).relayed)
<1> DEFINE n == Owner[in]
           x == c.msg
           o == Originator(x)
           v == Noted(w, c)
           u == Read(w, from, in, c)
           All == \A q \in Nodes : mpr[q] = SymNeighbors[q]
<1>1. x \in Messages /\ o \in Nodes /\ n \in Nodes /\ Owner[from] \in Nodes
  BY MessageFacts, OwnerFacts DEF Copies
<1>2. /\ WorkOK(n, v) /\ v.dup = w.dup /\ v.relayed = w.relayed
      /\ \A q \in Nodes : v.tc[q] = IF x.type = "TC" /\ q = o THEN olsr_input_tc(w.tc[o], x) ELSE w.tc[q]
  BY NotedFacts
<1>3. /\ Forwarded(v, in, c).relayed[x] = v.relayed[x] + 1 /\ Forwarded(v, in, c).tc = v.tc
      /\ \A m \in Messages \ {x} : Forwarded(v, in, c).relayed[m] = v.relayed[m]
  BY <1>2, ForwardedFacts
<1>4. \A m \in Messages : w.relayed[m] \in Nat
  BY DEF WorkOK, Works
<1>5. u = w \/ u = v \/ u = Forwarded(v, in, c)
  BY DEF Read, olsr_forward_message
<1>6. \A m \in Messages : w.relayed[m] >= 1 => u.relayed[m] >= 1
  <2> HIDE DEF u, v
  <2> QED BY <1>1, <1>2, <1>3, <1>4, <1>5
<1>7. /\ u = w => u.tc = w.tc
      /\ u # w => u.tc = v.tc
  <2> HIDE DEF u, v
  <2> QED BY <1>3, <1>5
<1>8. ASSUME NEW q \in Nodes, u.tc[q].seqno = w.tc[q].seqno
      PROVE  \/ u.tc[q].seqno = 0
             \/ \E y \in sent : /\ y.type = "TC" /\ Originator(y) = q /\ y.seqno = u.tc[q].seqno
                                /\ All => u.relayed[y] >= 1
  <2> HIDE DEF u
  <2> QED BY <1>6, <1>8 DEF TcDone
<1>9. ASSUME NEW q \in Nodes, u.tc[q].seqno # w.tc[q].seqno
      PROVE  /\ x.type = "TC" /\ q = o /\ x.seqno = u.tc[q].seqno
             /\ All => u.relayed[x] >= 1
  <2>1. u # w /\ u.tc = v.tc
    BY <1>7, <1>9
  <2>2. x.type = "TC" /\ q = o /\ v.tc[q] = olsr_input_tc(w.tc[o], x)
    <3> HIDE DEF u, v
    <3> QED BY <1>2, <1>9, <2>1
  <2>3. w.tc[o] \in TcEntries
    BY <1>1 DEF WorkOK, Works
  <2>4. ~Refused(w.tc[o], x) /\ u.tc[q].seqno = x.seqno
    <3> HIDE DEF u, v
    <3> QED BY <1>1, <1>9, <2>1, <2>2, <2>3, InputTcFacts
  <2>5. Handled(from, in, c) /\ u = olsr_forward_message(v, from, in, c)
    BY <2>1, <2>2, <2>4 DEF Read, Passes
  <2>6. ASSUME All PROVE u.relayed[x] >= 1
    <3>1. SymLink(from, in)
      BY <2>5 DEF Handled
    <3>2. n \in SymNeighbors[Owner[from]] /\ Owner[from] \in SymNeighbors[n]
      BY <1>1, <3>1, NeighborFacts
    <3>3. FromSelector(n, Owner[from])
      BY <1>1, <2>6, <3>2 DEF FromSelector
    <3>4. CASE x.seqno \in v.dup[o].seen
      <4>1. w.relayed[x] >= 1
        <5> HIDE DEF v
        <5> QED BY <1>1, <1>2, <3>4
      <4> QED BY <1>1, <1>6, <4>1
    <3>5. CASE x.seqno \notin v.dup[o].seen
      <4>1. u = Forwarded(v, in, c)
        BY <2>5, <3>3, <3>5 DEF olsr_forward_message
      <4> HIDE DEF u, v
      <4> QED BY <1>1, <1>2, <1>3, <1>4, <4>1
    <3> QED BY <3>4, <3>5
  <2> QED BY <2>2, <2>4, <2>6
<1> HIDE DEF u
<1>10. TcDone(u.tc, u.relayed)
  <2> HIDE DEF x
  <2>1. x \in sent /\ o = Originator(x)
    BY DEF x
  <2> QED BY <1>8, <1>9, <2>1 DEF TcDone
<1> QED BY <1>10 DEF u

\* A message that is not forwarded was forwarded before, or need not be.
LEMMA ProgressSkips ==
    ASSUME WellConnected, NEW from, NEW in \in Interfaces, NEW s, NEW w, NEW packet \in Packets,
           NEW k \in 1..Len(packet), Progress(s, w, from, in, packet, k - 1),
           Taken(from, in, packet[k]) /\ Assured(packet[k].msg) => w.relayed[packet[k].msg] >= 1
    PROVE  Progress(s, w, from, in, packet, k)
<1>1. k \in Nat /\ 1..(k - 1) \subseteq 1..k /\ \A j \in 1..k : j \in 1..(k - 1) \/ j = k
  BY PacketFacts
<1>2. packet[k].msg \in Messages
  BY PacketFacts
<1>4. \A j \in 1..k : Taken(from, in, packet[j]) /\ Assured(packet[j].msg)
                        => w.relayed[packet[j].msg] >= 1
  BY <1>1 DEF Progress
<1>5. ASSUME NEW m \in Messages, w.relayed[m] > s.relayed[m]
      PROVE  \E j \in 1..k : /\ packet[j].msg = m /\ Taken(from, in, packet[j])
                             /\ \A i \in InterfacesOf(Owner[in]) :
                                   GoesThrough(i, in, packet[j]) => Aged(packet[j]) \in Held(w.out[i])
  BY <1>1, <1>5 DEF Progress
<1>6. ASSUME NEW i \in InterfacesOf(Owner[in]), NEW c \in Held(w.out[i])
      PROVE  \/ c \in Held(s.out[i])
             \/ \E j \in 1..k : c = Aged(packet[j]) /\ w.relayed[c.msg] > s.relayed[c.msg]
  BY <1>1 DEF Progress
<1> QED BY <1>4, <1>5, <1>6 DEF Progress

\* A message that is forwarded is put in the buffers it goes through.
LEMMA ProgressForwards ==
    ASSUME WellConnected, NEW from, NEW in \in Interfaces, NEW s, NEW w, NEW packet \in Packets,
           WorkOK(Owner[in], s), WorkOK(Owner[in], w),
           NEW k \in 1..Len(packet), Progress(s, w, from, in, packet, k - 1), Taken(from, in, packet[k])
    PROVE  Progress(s, Forwarded(w, in, packet[k]), from, in, packet, k)
<1> DEFINE n == Owner[in]
           c == packet[k]
           x == c.msg
           v == Forwarded(w, in, c)
<1>1. k \in Nat /\ k \in 1..k /\ 1..(k - 1) \subseteq 1..k /\ \A j \in 1..k : j \in 1..(k - 1) \/ j = k
  BY PacketFacts
<1>2. c \in Copies /\ x \in Messages /\ Aged(c) \in Copies /\ Aged(c).msg = x /\ Originator(x) \in Nodes
  BY PacketFacts, AgedFacts, MessageFacts
<1>3. Taken(from, in, c) /\ c = packet[k] /\ x = c.msg
  OBVIOUS
<1> HIDE DEF c, x
<1>4. /\ WorkOK(n, v)
      /\ v.relayed[x] = w.relayed[x] + 1
      /\ \A m \in Messages \ {x} : v.relayed[m] = w.relayed[m]
      /\ v.dup[Originator(x)] = Entered(w.dup[Originator(x)], x)
      /\ \A q \in Nodes \ {Originator(x)} : v.dup[q] = w.dup[q]
      /\ \A i \in InterfacesOf(n) :
            v.out[i] = IF GoesThrough(i, in, c) THEN Queue(i, w.out[i], Aged(c)) ELSE w.out[i]
  <2>1. /\ WorkOK(n, v)
        /\ v.relayed[c.msg] = w.relayed[c.msg] + 1
        /\ \A m \in Messages \ {c.msg} : v.relayed[m] = w.relayed[m]
        /\ v.dup[Originator(c.msg)] = Entered(w.dup[Originator(c.msg)], c.msg)
        /\ \A q \in Nodes \ {Originator(c.msg)} : v.dup[q] = w.dup[q]
        /\ \A i \in InterfacesOf(n) :
              v.out[i] = IF GoesThrough(i, in, c) THEN Queue(i, w.out[i], Aged(c)) ELSE w.out[i]
    BY <1>2, ForwardedFacts
  <2> HIDE DEF v
  <2> QED BY <1>3, <2>1
<1> HIDE DEF v
<1>5. \A m \in Messages : s.relayed[m] \in Nat /\ w.relayed[m] \in Nat /\ v.relayed[m] \in Nat
  BY <1>4 DEF WorkOK, Works
<1>6. \A m \in Messages : v.relayed[m] >= w.relayed[m] /\ w.relayed[m] >= s.relayed[m]
  BY <1>4, <1>5 DEF Progress
<1>7. \A m \in Messages : v.relayed[m] >= s.relayed[m]
  BY <1>5, <1>6
<1>8. ASSUME NEW i \in InterfacesOf(n)
      PROVE  /\ Held(w.out[i]) \subseteq Held(v.out[i])
             /\ Held(v.out[i]) \subseteq Held(w.out[i]) \cup {Aged(c)}
             /\ GoesThrough(i, in, c) => Aged(c) \in Held(v.out[i])
  <2>1. i \in Interfaces /\ OutOK(i, w.out[i])
    BY DEF WorkOK, InterfacesOf
  <2>2. x.size <= MAXSIZE[i]
    BY <1>2, <2>1 DEF WellConnected
  <2>3. Held(w.out[i]) \subseteq Held(Queue(i, w.out[i], Aged(c)))
    BY <1>2, <2>1, QueueFacts
  <2>4. Held(Queue(i, w.out[i], Aged(c))) \subseteq Held(w.out[i]) \cup {Aged(c)}
    BY <1>2, <2>1, QueueFacts
  <2>5. Aged(c).msg.size <= MAXSIZE[i] => Aged(c) \in Held(Queue(i, w.out[i], Aged(c)))
    BY <1>2, <2>1, QueueFacts
  <2> QED BY <1>2, <1>4, <2>2, <2>3, <2>4, <2>5
<1>9. \A i \in InterfacesOf(n) : Held(s.out[i]) \subseteq Held(v.out[i])
  BY <1>8 DEF Progress
<1>10. ASSUME NEW j \in 1..k, Taken(from, in, packet[j]), Assured(packet[j].msg)
       PROVE  v.relayed[packet[j].msg] >= 1
  <2>1. packet[j].msg \in Messages
    BY PacketFacts
  <2>2. CASE j = k
    <3>1. packet[j].msg = x /\ v.relayed[x] = w.relayed[x] + 1 /\ w.relayed[x] \in Nat
      BY <1>2, <1>3, <1>4, <1>5, <2>2
    <3> QED BY <3>1
  <2>3. CASE j \in 1..(k - 1)
    <3>1. w.relayed[packet[j].msg] >= 1
      BY <1>10, <2>3 DEF Progress
    <3> QED BY <1>5, <1>6, <2>1, <3>1
  <2> QED BY <1>1, <2>2, <2>3
<1>11. ASSUME NEW m \in Messages, v.relayed[m] > s.relayed[m]
       PROVE  \E j \in 1..k : /\ packet[j].msg = m /\ Taken(from, in, packet[j])
                              /\ \A i \in InterfacesOf(n) :
                                    GoesThrough(i, in, packet[j]) => Aged(packet[j]) \in Held(v.out[i])
  <2>1. CASE m = x
    BY <1>1, <1>3, <1>8, <2>1
  <2>2. CASE m # x
    <3>1. w.relayed[m] > s.relayed[m]
      BY <1>4, <1>11, <2>2
    <3>2. PICK j \in 1..(k - 1) :
             /\ packet[j].msg = m /\ Taken(from, in, packet[j])
             /\ \A i \in InterfacesOf(n) :
                   GoesThrough(i, in, packet[j]) => Aged(packet[j]) \in Held(w.out[i])
      BY <3>1 DEF Progress
    <3> QED BY <1>1, <1>8, <3>2
  <2> QED BY <2>1, <2>2
<1>12. ASSUME NEW i \in InterfacesOf(n), NEW e \in Held(v.out[i])
       PROVE  \/ e \in Held(s.out[i])
              \/ \E j \in 1..k : e = Aged(packet[j]) /\ v.relayed[e.msg] > s.relayed[e.msg]
  <2>1. CASE e \in Held(w.out[i])
    <3>1. CASE e \in Held(s.out[i])
      BY <3>1
    <3>2. CASE e \notin Held(s.out[i])
      <4>1. PICK j \in 1..(k - 1) : e = Aged(packet[j]) /\ w.relayed[e.msg] > s.relayed[e.msg]
        BY <2>1, <3>2 DEF Progress
      <4>2. e.msg \in Messages
        <5>1. packet[j] \in Copies /\ packet[j].msg \in Messages
          BY <1>1, PacketFacts
        <5> QED BY <4>1, <5>1, AgedFacts
      <4>3. v.relayed[e.msg] > s.relayed[e.msg]
        <5> DEFINE a == v.relayed[e.msg]
                   b == w.relayed[e.msg]
                   d == s.relayed[e.msg]
        <5>1. a \in Nat /\ b \in Nat /\ d \in Nat /\ a >= b /\ b > d
          BY <1>5, <1>6, <4>1, <4>2
        <5> HIDE DEF a, b, d
        <5>2. a > d
          BY <5>1
        <5> QED BY <5>2 DEF a, d
      <4> QED BY <1>1, <4>1, <4>3
    <3> QED BY <3>1, <3>2
  <2>2. CASE e = Aged(c)
    <3>1. e.msg = x
      BY <1>2, <2>2
    <3>2. v.relayed[x] > s.relayed[x]
      BY <1>2, <1>4, <1>5, <1>6
    <3> QED BY <1>1, <1>3, <2>2, <3>1, <3>2
  <2> QED BY <1>8, <2>1, <2>2
<1>13. ASSUME NEW m \in Messages, m.seqno \in v.dup[Originator(m)].seen PROVE v.relayed[m] >= 1
  <2>1. CASE m.seqno \in w.dup[Originator(m)].seen
    <3>1. w.relayed[m] >= 1
      BY <2>1 DEF Progress
    <3> QED BY <1>5, <1>6, <3>1
  <2>2. CASE m.seqno \notin w.dup[Originator(m)].seen
    <3>1. Originator(m) \in Nodes
      BY MessageFacts
    <3>2. Originator(m) = Originator(x)
      BY <1>4, <1>13, <2>2, <3>1
    <3>3. w.dup[Originator(x)] \in Entries
      BY <1>2 DEF WorkOK, Works
    <3>4. m.seqno = x.seqno
      BY <1>2, <1>4, <1>13, <2>2, <3>2, <3>3, EnteredFacts
    <3>5. m = x
      BY <1>2, <3>2, <3>4 DEF WellConnected
    <3> QED BY <1>4, <1>5, <3>5
  <2> QED BY <2>1, <2>2
<1>14. Progress(s, v, from, in, packet, k)
  BY <1>7, <1>9, <1>10, <1>11, <1>12, <1>13 DEF Progress
<1> QED BY <1>3, <1>14 DEF v

\* The topology set has no part in it.
LEMMA ProgressSame ==
    ASSUME NEW s, NEW w, NEW v, NEW from, NEW in, NEW packet, NEW k,
           v.dup = w.dup, v.relayed = w.relayed, v.out = w.out, Progress(s, w, from, in, packet, k)
    PROVE  Progress(s, v, from, in, packet, k)
<1>1. v.dup = w.dup /\ v.relayed = w.relayed /\ v.out = w.out
  OBVIOUS
<1>2. /\ \A m \in Messages : v.relayed[m] >= s.relayed[m]
      /\ \A i \in InterfacesOf(Owner[in]) : Held(s.out[i]) \subseteq Held(v.out[i])
      /\ \A j \in 1..k : Taken(from, in, packet[j]) /\ Assured(packet[j].msg)
                              => v.relayed[packet[j].msg] >= 1
  BY <1>1 DEF Progress
<1>3. ASSUME NEW m \in Messages, v.relayed[m] > s.relayed[m]
      PROVE  \E j \in 1..k : /\ packet[j].msg = m /\ Taken(from, in, packet[j])
                             /\ \A i \in InterfacesOf(Owner[in]) :
                                   GoesThrough(i, in, packet[j]) => Aged(packet[j]) \in Held(v.out[i])
  <2>1. w.relayed[m] > s.relayed[m]
    BY <1>1, <1>3
  <2>2. PICK j \in 1..k : /\ packet[j].msg = m /\ Taken(from, in, packet[j])
                          /\ \A i \in InterfacesOf(Owner[in]) :
                                GoesThrough(i, in, packet[j]) => Aged(packet[j]) \in Held(w.out[i])
    BY <2>1 DEF Progress
  <2> QED BY <1>1, <2>2
<1>4. \A i \in InterfacesOf(Owner[in]) : \A c \in Held(v.out[i]) :
         \/ c \in Held(s.out[i])
         \/ \E j \in 1..k : c = Aged(packet[j]) /\ v.relayed[c.msg] > s.relayed[c.msg]
  BY <1>1 DEF Progress
<1>5. \A m \in Messages : m.seqno \in v.dup[Originator(m)].seen => v.relayed[m] >= 1
  BY <1>1 DEF Progress
<1> QED BY <1>2, <1>3, <1>4, <1>5 DEF Progress

\* What the whole packet does.
LEMMA ProgressParsed ==
    ASSUME WellConnected, NEW from \in Interfaces, NEW in \in Interfaces, NEW packet \in Packets, NEW f,
           WorkSteps(f, from, in, packet), sent \subseteq Messages,
           \A k \in 1..Len(packet) : packet[k].msg \in sent,
           \A m \in Messages : m.seqno \in f[0].dup[Originator(m)].seen => f[0].relayed[m] >= 1,
           TcDone(f[0].tc, f[0].relayed)
    PROVE  /\ Progress(f[0], f[Len(packet)], from, in, packet, Len(packet))
           /\ TcDone(f[Len(packet)].tc, f[Len(packet)].relayed)
<1> DEFINE n == Owner[in]
           N == Len(packet)
           S == {k \in 0..N : Progress(f[0], f[k], from, in, packet, k) /\ TcDone(f[k].tc, f[k].relayed)}
<1>1. N \in Nat /\ \A k \in 1..N : packet[k] \in Copies
  BY PacketFacts
<1>2. WorkOK(n, f[0])
  BY <1>1 DEF WorkSteps
<1>3. 0 \in S
  <2>1. \A m \in Messages : f[0].relayed[m] \in Nat
    BY <1>2 DEF WorkOK, Works
  <2>2. \A m \in Messages : f[0].relayed[m] >= f[0].relayed[m] /\ ~(f[0].relayed[m] > f[0].relayed[m])
    BY <2>1
  <2>3. \A j \in 1..0 : FALSE
    OBVIOUS
  <2>4. Progress(f[0], f[0], from, in, packet, 0)
    BY <2>2, <2>3 DEF Progress
  <2> QED BY <1>1, <2>4
<1>4. ASSUME NEW k \in 1..N, k - 1 \in S PROVE k \in S
  <2> DEFINE w == f[k - 1]
             c == packet[k]
             v == Noted(w, c)
  <2>1. /\ WorkOK(n, w) /\ Progress(f[0], w, from, in, packet, k - 1) /\ TcDone(w.tc, w.relayed)
        /\ f[k] = Read(w, from, in, c)
    BY <1>1, <1>4 DEF WorkSteps
  <2>2. c = packet[k] /\ c \in Copies /\ c.msg \in sent /\ c.msg \in Messages
    BY <1>1
  <2> HIDE DEF w, c
  <2>3. \A m \in Messages : m.seqno \in w.dup[Originator(m)].seen => w.relayed[m] >= 1
    BY <2>1 DEF Progress
  <2>4. TcDone(f[k].tc, f[k].relayed)
    BY <2>1, <2>2, <2>3, TcDoneRead
  <2>5. WorkOK(n, v) /\ v.dup = w.dup /\ v.relayed = w.relayed /\ v.out = w.out
    BY <2>1, <2>2, NotedFacts
  <2>6. Progress(f[0], v, from, in, packet, k - 1)
    BY <2>1, <2>5, ProgressSame
  <2>7. CASE ~Handled(from, in, c)
    <3>1. f[k] = w /\ ~Taken(from, in, c)
      BY <2>1, <2>7 DEF Read, Taken
    <3>2. Progress(f[0], w, from, in, packet, k)
      BY <2>1, <2>2, <3>1, ProgressSkips
    <3> QED BY <1>1, <2>4, <3>1, <3>2
  <2>8. CASE Handled(from, in, c) /\ ~Passes(w, c)
    <3>1. f[k] = v
      BY <2>1, <2>8 DEF Read
    <3>2. Assured(c.msg) => w.relayed[c.msg] >= 1
      BY <2>1, <2>2, <2>8, RefusedDone
    <3> HIDE DEF v
    <3>3. Progress(f[0], v, from, in, packet, k)
      BY <2>2, <2>5, <2>6, <3>2, ProgressSkips
    <3> QED BY <1>1, <2>4, <3>1, <3>3
  <2>9. CASE Handled(from, in, c) /\ Passes(w, c)
    <3>1. f[k] = olsr_forward_message(v, from, in, c)
      BY <2>1, <2>9 DEF Read
    <3> HIDE DEF v
    <3>2. CASE Taken(from, in, c) /\ c.msg.seqno \notin v.dup[Originator(c.msg)].seen
      <4>1. f[k] = Forwarded(v, in, c)
        BY <3>1, <3>2 DEF olsr_forward_message, Taken
      <4>2. Progress(f[0], Forwarded(v, in, packet[k]), from, in, packet, k)
        BY <1>2, <2>2, <2>5, <2>6, <3>2, ProgressForwards
      <4> QED BY <1>1, <2>2, <2>4, <4>1, <4>2
    <3>3. CASE ~(Taken(from, in, c) /\ c.msg.seqno \notin v.dup[Originator(c.msg)].seen)
      <4>1. f[k] = v
        BY <2>9, <3>1, <3>3 DEF olsr_forward_message, Taken
      <4>2. Taken(from, in, c) => v.relayed[c.msg] >= 1
        BY <2>2, <2>3, <2>5, <3>3
      <4>3. Progress(f[0], v, from, in, packet, k)
        BY <2>2, <2>6, <4>2, ProgressSkips
      <4> QED BY <1>1, <2>4, <4>1, <4>3
    <3> QED BY <3>2, <3>3
  <2> QED BY <2>7, <2>8, <2>9
<1> HIDE DEF S
<1>5. 0..N \subseteq S
  BY <1>1, <1>3, <1>4, IntervalInduction
<1>6. N \in S
  BY <1>1, <1>5
<1> QED BY <1>6 DEF S

\* A router knows the number of a message only when it has forwarded it; the TC it believed last
\* it has forwarded, if all routers have chosen all their neighbours.
SeenInv ==
    /\ \A n \in Nodes, m \in Messages : m.seqno \in dup[n][Originator(m)].seen => relayed[n][m] >= 1
    /\ \A n \in Nodes : TcDone(tc[n], relayed[n])

\* What reading a packet from link l does to the copies on their way.
ParseEffect(l, packet) ==
    LET n == Owner[l[2]]
    IN  /\ Elements(packet) \subseteq Flight(l)
        /\ \A k \in Hears : \A c \in Flight(k) : c \in Flight(k)' \/ (k = l /\ c \in Elements(packet))
        /\ \A k \in Hears : \A c \in Flight(k)' :
              \/ c \in Flight(k)
              \/ /\ Owner[k[1]] = n
                 /\ \E p \in Elements(packet) : c = Aged(p) /\ relayed'[n][c.msg] > relayed[n][c.msg]
        /\ delivered \subseteq delivered'
        /\ \A p \in Elements(packet) :
              /\ Handled(l[1], l[2], p) => <<n, p.msg>> \in delivered'
              /\ Taken(l[1], l[2], p) /\ Assured(p.msg) => relayed'[n][p.msg] >= 1
        /\ \A x \in delivered' \ delivered : \E p \in Elements(packet) :
              Handled(l[1], l[2], p) /\ x = <<n, p.msg>>
        /\ \A m \in Messages :
              /\ \A q \in Nodes \ {n} : relayed'[q][m] = relayed[q][m]
              /\ relayed'[n][m] >= relayed[n][m]
              /\ relayed'[n][m] > relayed[n][m] =>
                    \E p \in Elements(packet) :
                        /\ p.msg = m /\ Taken(l[1], l[2], p)
                        /\ \A k \in Hears : Owner[k[1]] = n /\ GoesThrough(k[1], l[2], p)
                                                => Aged(p) \in Flight(k)'
        /\ SeenInv'
        /\ UNCHANGED <<mpr, todo, sent, lost>>

\* parse_packet has this effect.
LEMMA ParseHasEffect ==
    ASSUME WellConnected, TypeInv, SeenInv, NEW l \in Hears, parse_packet(l[1], l[2]),
           \A c \in Flight(l) : c.msg \in sent
    PROVE  \E packet \in Packets : ParseEffect(l, packet)
<1> DEFINE n == Owner[l[2]]
           in == l[2]
           from == l[1]
           packet == Head(air[l])
<1>1. PICK f : ParseStep(l, packet, f)
  BY ParseFacts
<1> DEFINE w == f[Len(packet)]
           s == f[0]
<1>2. packet \in Packets /\ n \in Nodes /\ in \in Interfaces /\ from \in Interfaces /\ Owner[from] # n
  BY <1>1, OwnerFacts DEF ParseStep
<1>3. WorkSteps(f, from, in, packet) /\ air[l] # <<>> /\ air[l] \in Seq(Packets)
  BY <1>1 DEF ParseStep, TypeInv
<1>4. Elements(packet) \subseteq Aboard(air[l])
  BY <1>3, AboardFacts
<1>5. /\ delivered' = delivered \cup
            {<<n, packet[k].msg>> : k \in {j \in DOMAIN packet : Handled(from, in, packet[j])}}
      /\ dup' = [dup EXCEPT ![n] = w.dup] /\ relayed' = [relayed EXCEPT ![n] = w.relayed]
      /\ tc' = [tc EXCEPT ![n] = w.tc]
      /\ UNCHANGED <<mpr, todo, sent, lost>>
      /\ \A k \in Hears :
            IF Owner[k[1]] = n THEN Flight(k)' = Aboard(air[k]) \cup Held(w.out[k[1]])
            ELSE IF k = l THEN Flight(k)' \cup Elements(packet) = Flight(k) /\ Flight(k)' \subseteq Flight(k)
            ELSE Flight(k)' = Flight(k)
  BY <1>1 DEF ParseStep
<1> HIDE DEF packet
<1>6. DOMAIN packet = 1..Len(packet) /\ Len(packet) \in Nat
  BY <1>2, PacketFacts
<1>7. \A p \in Elements(packet) : \E j \in 1..Len(packet) : p = packet[j]
  BY DEF Elements
<1>8. \A j \in 1..Len(packet) : packet[j] \in Elements(packet)
  BY DEF Elements
<1>9. /\ s.dup = dup[n] /\ s.relayed = relayed[n] /\ s.tc = tc[n] /\ WorkOK(n, w) /\ WorkOK(n, s)
      /\ \A i \in InterfacesOf(n) : s.out[i] = Opened(i)
  BY <1>3, <1>6 DEF WorkSteps, Start
<1>10. \A i \in InterfacesOf(n) : i \in Interfaces /\ Held(s.out[i]) = Elements(buf[i].data)
  BY <1>9, OpenedFacts DEF TypeInv, InterfacesOf
<1>11. Progress(s, w, from, in, packet, Len(packet)) /\ TcDone(w.tc, w.relayed)
  <2>1. /\ \A m \in Messages : m.seqno \in s.dup[Originator(m)].seen => s.relayed[m] >= 1
        /\ TcDone(s.tc, s.relayed)
    BY <1>2, <1>9 DEF SeenInv
  <2>2. \A j \in 1..Len(packet) : packet[j].msg \in sent
    BY <1>4, <1>8 DEF Flight
  <2>3. sent \subseteq Messages
    BY DEF TypeInv
  <2> QED BY <1>2, <1>3, <2>1, <2>2, <2>3, ProgressParsed
<1>12. \A k \in Hears : Owner[k[1]] = n <=> k[1] \in InterfacesOf(n)
  BY OwnerFacts DEF InterfacesOf
<1>13. /\ relayed'[n] = w.relayed /\ dup'[n] = w.dup /\ tc'[n] = w.tc
       /\ \A q \in Nodes \ {n} : relayed'[q] = relayed[q] /\ dup'[q] = dup[q] /\ tc'[q] = tc[q]
  BY <1>2, <1>5 DEF TypeInv
<1> HIDE DEF w, s
<1>14. Elements(packet) \subseteq Flight(l)
  BY <1>4 DEF Flight
<1>15. ASSUME NEW k \in Hears, NEW c \in Flight(k) PROVE c \in Flight(k)' \/ (k = l /\ c \in Elements(packet))
  <2>1. CASE Owner[k[1]] = n
    <3>1. Flight(k)' = Aboard(air[k]) \cup Held(w.out[k[1]])
      BY <1>5, <2>1
    <3>2. Flight(k) = Aboard(air[k]) \cup Elements(buf[k[1]].data)
      BY DEF Flight
    <3>3. Elements(buf[k[1]].data) \subseteq Held(w.out[k[1]])
      BY <1>10, <1>11, <1>12, <2>1 DEF Progress
    <3> QED BY <3>1, <3>2, <3>3
  <2>2. CASE Owner[k[1]] # n /\ k = l
    <3>1. Flight(k)' \cup Elements(packet) = Flight(k)
      BY <1>5, <2>2
    <3> QED BY <2>2, <3>1
  <2>3. CASE Owner[k[1]] # n /\ k # l
    <3>1. Flight(k)' = Flight(k)
      BY <1>5, <2>3
    <3> QED BY <3>1
  <2> QED BY <2>1, <2>2, <2>3
<1>16. ASSUME NEW k \in Hears, NEW c \in Flight(k)'
       PROVE  \/ c \in Flight(k)
              \/ /\ Owner[k[1]] = n
                 /\ \E p \in Elements(packet) : c = Aged(p) /\ relayed'[n][c.msg] > relayed[n][c.msg]
  <2>1. CASE Owner[k[1]] = n
    <3>1. Flight(k)' = Aboard(air[k]) \cup Held(w.out[k[1]])
      BY <1>5, <2>1
    <3>2. Flight(k) = Aboard(air[k]) \cup Elements(buf[k[1]].data)
      BY DEF Flight
    <3>3. CASE c \in Held(w.out[k[1]])
      <4>1. \/ c \in Held(s.out[k[1]])
            \/ \E j \in 1..Len(packet) : c = Aged(packet[j]) /\ w.relayed[c.msg] > s.relayed[c.msg]
        BY <1>11, <1>12, <2>1, <3>3 DEF Progress
      <4>2. CASE c \in Held(s.out[k[1]])
        BY <1>10, <1>12, <2>1, <3>2, <4>2
      <4>3. CASE \E j \in 1..Len(packet) : c = Aged(packet[j]) /\ w.relayed[c.msg] > s.relayed[c.msg]
        BY <1>8, <1>9, <1>13, <2>1, <4>3
      <4> QED BY <4>1, <4>2, <4>3
    <3>4. CASE c \in Aboard(air[k])
      BY <3>2, <3>4
    <3> QED BY <3>1, <3>3, <3>4
  <2>2. CASE Owner[k[1]] # n
    <3>1. Flight(k)' \subseteq Flight(k)
      BY <1>5, <2>2
    <3> QED BY <3>1
  <2> QED BY <2>1, <2>2
<1>17. delivered \subseteq delivered'
  BY <1>5
<1>18. ASSUME NEW p \in Elements(packet)
       PROVE  /\ Handled(l[1], l[2], p) => <<n, p.msg>> \in delivered'
              /\ Taken(l[1], l[2], p) /\ Assured(p.msg) => relayed'[n][p.msg] >= 1
  <2>1. PICK j \in 1..Len(packet) : p = packet[j]
    BY <1>7
  <2>2. Handled(l[1], l[2], p) => <<n, p.msg>> \in delivered'
    BY <1>5, <1>6, <2>1
  <2>3. Taken(l[1], l[2], p) /\ Assured(p.msg) => w.relayed[p.msg] >= 1
    BY <1>11, <2>1 DEF Progress
  <2> QED BY <1>13, <2>2, <2>3
<1>19. ASSUME NEW x \in delivered' \ delivered
       PROVE  \E p \in Elements(packet) : Handled(l[1], l[2], p) /\ x = <<n, p.msg>>
  BY <1>5, <1>6, <1>8
<1>20. ASSUME NEW m \in Messages
       PROVE  /\ \A q \in Nodes \ {n} : relayed'[q][m] = relayed[q][m]
              /\ relayed'[n][m] >= relayed[n][m]
              /\ relayed'[n][m] > relayed[n][m] =>
                    \E p \in Elements(packet) :
                        /\ p.msg = m /\ Taken(l[1], l[2], p)
                        /\ \A k \in Hears : Owner[k[1]] = n /\ GoesThrough(k[1], l[2], p)
                                                => Aged(p) \in Flight(k)'
  <2>1. \A q \in Nodes \ {n} : relayed'[q][m] = relayed[q][m]
    BY <1>13
  <2>2. relayed'[n][m] >= relayed[n][m]
    BY <1>9, <1>11, <1>13 DEF Progress
  <2>3. ASSUME relayed'[n][m] > relayed[n][m]
        PROVE  \E p \in Elements(packet) :
                   /\ p.msg = m /\ Taken(l[1], l[2], p)
                   /\ \A k \in Hears : Owner[k[1]] = n /\ GoesThrough(k[1], l[2], p)
                                           => Aged(p) \in Flight(k)'
    <3>1. w.relayed[m] > s.relayed[m]
      BY <1>9, <1>13, <2>3
    <3>2. PICK j \in 1..Len(packet) :
             /\ packet[j].msg = m /\ Taken(from, in, packet[j])
             /\ \A i \in InterfacesOf(n) : GoesThrough(i, in, packet[j]) => Aged(packet[j]) \in Held(w.out[i])
      BY <1>11, <3>1 DEF Progress
    <3>3. ASSUME NEW k \in Hears, Owner[k[1]] = n, GoesThrough(k[1], l[2], packet[j])
          PROVE  Aged(packet[j]) \in Flight(k)'
      <4>1. Flight(k)' = Aboard(air[k]) \cup Held(w.out[k[1]])
        BY <1>5, <3>3
      <4>2. Aged(packet[j]) \in Held(w.out[k[1]])
        BY <1>12, <3>2, <3>3
      <4> QED BY <4>1, <4>2
    <3> QED BY <1>8, <3>2, <3>3
  <2> QED BY <2>1, <2>2, <2>3
<1>21. SeenInv'
  <2>1. ASSUME NEW q \in Nodes, NEW m \in Messages, m.seqno \in dup'[q][Originator(m)].seen
        PROVE  relayed'[q][m] >= 1
    <3>1. CASE q = n
      BY <1>11, <1>13, <2>1, <3>1 DEF Progress
    <3>2. CASE q # n
      BY <1>13, <2>1, <3>2 DEF SeenInv
    <3> QED BY <3>1, <3>2
  <2>2. ASSUME NEW q \in Nodes PROVE TcDone(tc[q], relayed[q])'
    <3>1. CASE q = n
      BY <1>5, <1>11, <1>13, <3>1 DEF TcDone
    <3>2. CASE q # n
      BY <1>5, <1>13, <3>2 DEF SeenInv, TcDone
    <3> QED BY <3>1, <3>2
  <2> QED BY <2>1, <2>2 DEF SeenInv
<1>22. ParseEffect(l, packet)
  BY <1>5, <1>14, <1>15, <1>16, <1>17, <1>18, <1>19, <1>20, <1>21 DEF ParseEffect
<1> QED BY <1>2, <1>22

-----------------------------------------------------------------------------
(* Flooding is complete: copies and their origin                           *)

\* The occasions on which m was forwarded, r being the history of all routers.
Relays(r, m) == {x \in (Nodes \ {Originator(m)}) \X (1..2) : x[2] <= r[x[1]][m]}

\* There are finitely many routers.
LEMMA NodesFinite == IsFiniteSet(Nodes)
<1> DEFINE f == [i \in Interfaces |-> Owner[i]]
<1>1. f \in Surjection(Interfaces, Nodes)
  BY DEF Surjection, Nodes
<1> QED BY <1>1, FS_Surjection, FloodAssumption

\* A message is forwarded on few occasions, and each is one more.
LEMMA RelaysFacts ==
    ASSUME NEW m \in Messages, NEW r \in [Nodes -> [Messages -> Nat]]
    PROVE  /\ Cardinality(Relays(r, m)) \in Nat
           /\ Cardinality(Relays(r, m)) <= 2 * Cardinality(Nodes) - 2
           /\ \A q \in [Nodes -> [Messages -> Nat]] :
                 (\A n \in Nodes : q[n][m] >= r[n][m]) =>
                    /\ Cardinality(Relays(r, m)) <= Cardinality(Relays(q, m))
                    /\ \A n \in Nodes \ {Originator(m)} :
                          q[n][m] > r[n][m] /\ q[n][m] <= 2 =>
                              Cardinality(Relays(r, m)) + 1 <= Cardinality(Relays(q, m))
<1> DEFINE A == Nodes \ {Originator(m)}
           B == A \X (1..2)
<1>1. Originator(m) \in Nodes
  BY MessageFacts
<1>2. IsFiniteSet(A) /\ Cardinality(A) = Cardinality(Nodes) - 1
  BY <1>1, NodesFinite, FS_RemoveElement
<1>3. IsFiniteSet(1..2) /\ Cardinality(1..2) = 2
  <2>1. \A a, b \in Int : IsFiniteSet(a..b) /\ Cardinality(a..b) = IF a > b THEN 0 ELSE b - a + 1
    BY FS_Interval
  <2>2. 1 \in Int /\ 2 \in Int
    OBVIOUS
  <2>3. IsFiniteSet(1..2) /\ Cardinality(1..2) = IF 1 > 2 THEN 0 ELSE 2 - 1 + 1
    BY <2>1, <2>2, Zenon
  <2>4. (IF 1 > 2 THEN 0 ELSE 2 - 1 + 1) = 2
    OBVIOUS
  <2> QED BY <2>3, <2>4
<1> HIDE DEF A
<1>4. IsFiniteSet(B) /\ Cardinality(B) = Cardinality(A) * 2
  BY <1>2, <1>3, FS_Product
<1>5. Cardinality(Nodes) \in Nat /\ Cardinality(A) \in Nat
  BY <1>2, NodesFinite, FS_CardinalityType
<1>6. ASSUME NEW q \in [Nodes -> [Messages -> Nat]]
      PROVE  Relays(q, m) \in SUBSET B /\ IsFiniteSet(Relays(q, m)) /\ Cardinality(Relays(q, m)) \in Nat
             /\ Cardinality(Relays(q, m)) <= Cardinality(B)
  <2>1. Relays(q, m) \in SUBSET B
    BY DEF Relays, A
  <2>2. IsFiniteSet(Relays(q, m)) /\ Cardinality(Relays(q, m)) <= Cardinality(B)
    BY <1>4, <2>1, FS_Subset
  <2> QED BY <2>1, <2>2, FS_CardinalityType
<1>7. Cardinality(Relays(r, m)) <= 2 * Cardinality(Nodes) - 2
  BY <1>2, <1>4, <1>5, <1>6
<1>8. ASSUME NEW q \in [Nodes -> [Messages -> Nat]], \A n \in Nodes : q[n][m] >= r[n][m]
      PROVE  /\ Cardinality(Relays(r, m)) <= Cardinality(Relays(q, m))
             /\ \A n \in Nodes \ {Originator(m)} :
                   q[n][m] > r[n][m] /\ q[n][m] <= 2 =>
                       Cardinality(Relays(r, m)) + 1 <= Cardinality(Relays(q, m))
  <2>1. Relays(r, m) \in SUBSET Relays(q, m)
    <3>1. ASSUME NEW x \in Relays(r, m) PROVE x \in Relays(q, m)
      <4>1. x \in (Nodes \ {Originator(m)}) \X (1..2) /\ x[2] <= r[x[1]][m]
        BY DEF Relays
      <4>2. x[1] \in Nodes /\ x[2] \in Nat /\ r[x[1]][m] \in Nat /\ q[x[1]][m] \in Nat /\ q[x[1]][m] >= r[x[1]][m]
        BY <1>8, <4>1
      <4>3. x[2] <= q[x[1]][m]
        BY <4>1, <4>2
      <4> QED BY <4>1, <4>3 DEF Relays
    <3> QED BY <3>1
  <2>2. IsFiniteSet(Relays(q, m)) /\ IsFiniteSet(Relays(r, m))
    BY <1>6
  <2>3. Cardinality(Relays(r, m)) <= Cardinality(Relays(q, m))
    BY <2>1, <2>2, FS_Subset
  <2>4. ASSUME NEW n \in Nodes \ {Originator(m)}, q[n][m] > r[n][m], q[n][m] <= 2
        PROVE  Cardinality(Relays(r, m)) + 1 <= Cardinality(Relays(q, m))
    <3> DEFINE x == <<n, q[n][m]>>
               T == Relays(r, m) \cup {x}
    <3>1. q[n][m] \in Nat /\ r[n][m] \in Nat
      OBVIOUS
    <3>2. q[n][m] \in 1..2 /\ ~(q[n][m] <= r[n][m]) /\ q[n][m] <= q[n][m]
      <4>1. \A a, b \in Nat : a > b /\ a <= 2 => a \in 1..2 /\ ~(a <= b) /\ a <= a
        OBVIOUS
      <4> QED BY <2>4, <3>1, <4>1
    <3>3. x \in Relays(q, m) /\ x \notin Relays(r, m)
      BY <3>2 DEF Relays
    <3>4. Cardinality(T) = Cardinality(Relays(r, m)) + 1
      BY <2>2, <3>3, FS_AddElement
    <3>5. T \in SUBSET Relays(q, m)
      BY <2>1, <3>3
    <3>6. Cardinality(T) <= Cardinality(Relays(q, m))
      <4> HIDE DEF T
      <4> QED BY <2>2, <3>5, FS_Subset
    <3> QED BY <3>4, <3>6
  <2> QED BY <2>3, <2>4
<1> QED BY <1>6, <1>7, <1>8

\* The router has sent the message on its way.
Emitted(e, m) == m \in sent /\ (e = Originator(m) \/ relayed[e][m] >= 1)

\* A copy is as old as it has been forwarded, and has enough time left.
Lively(c) ==
    c.msg.ttl = MAX_TTL =>
        c.ttl + c.hopcnt = MAX_TTL /\ c.hopcnt <= Cardinality(Relays(relayed, c.msg))

\* Copies come from routers that sent them; a message was handled by who forwarded it, and who
\* handled it had it from a neighbour that sent it.
FlightInv ==
    /\ todo \cap sent = {}
    /\ SeenInv
    /\ \A l \in Hears : \A c \in Flight(l) : Emitted(Owner[l[1]], c.msg) /\ Lively(c)
    /\ \A n \in Nodes, m \in Messages : relayed[n][m] >= 1 => <<n, m>> \in delivered
    /\ \A n \in Nodes, m \in Messages : <<n, m>> \in delivered =>
          n # Originator(m) /\ \E e \in Nodes : n \in SymNeighbors[e] /\ Emitted(e, m)

\* A lively copy of a message that may live longest is not at the end of its life.
LEMMA LivelyGoesOn ==
    ASSUME WellConnected, TypeInv, NEW c \in Copies, Lively(c), c.msg.ttl = MAX_TTL
    PROVE  ~is_ttl_1(c)
<1>1. c.ttl \in Nat /\ c.hopcnt \in Nat /\ c.msg \in Messages /\ MAX_TTL \in Nat
  BY OwnerFacts DEF Copies
<1>2. c.ttl + c.hopcnt = MAX_TTL /\ c.hopcnt <= Cardinality(Relays(relayed, c.msg))
  BY DEF Lively
<1>3. relayed \in [Nodes -> [Messages -> Nat]] /\ Cardinality(Nodes) \in Nat
  BY NodesFinite, FS_CardinalityType DEF TypeInv
<1>4. /\ Cardinality(Relays(relayed, c.msg)) \in Nat
      /\ Cardinality(Relays(relayed, c.msg)) <= 2 * Cardinality(Nodes) - 2
  BY <1>1, <1>3, RelaysFacts
<1>5. 2 * Cardinality(Nodes) <= MAX_TTL
  BY DEF WellConnected
<1>6. c.ttl >= 2
  BY <1>1, <1>2, <1>3, <1>4, <1>5
<1> QED BY <1>1, <1>2, <1>6 DEF is_ttl_1

\* The copies on their way are copies of messages.
LEMMA FlightType ==
    ASSUME TypeInv, NEW l \in Hears
    PROVE  Flight(l) \subseteq Copies
<1>1. l[1] \in Interfaces
  BY OwnerFacts
<1>2. buf[l[1]].data \in Seq(Copies) /\ air[l] \in Seq(Packets)
  BY <1>1 DEF TypeInv, BufOK, Buffers, Packets
<1>3. Elements(buf[l[1]].data) \subseteq Copies /\ Aboard(air[l]) \subseteq Copies
  BY <1>2, ElementFacts, AboardFacts
<1> QED BY <1>3 DEF Flight

\* What was sent stays sent, and copies do not age on their way.
LEMMA EmittedKept ==
    ASSUME TypeInv, TypeInv', sent \subseteq sent',
           \A n \in Nodes, m \in Messages : relayed'[n][m] >= relayed[n][m]
    PROVE  /\ \A n \in Nodes, m \in Messages : Emitted(n, m) => Emitted(n, m)'
           /\ \A c \in Copies : Lively(c) => Lively(c)'
<1>1. \A n \in Nodes, m \in Messages : relayed[n][m] \in Nat /\ relayed'[n][m] \in Nat
  BY DEF TypeInv
<1>2. ASSUME NEW n \in Nodes, NEW m \in Messages, Emitted(n, m) PROVE Emitted(n, m)'
  <2>1. relayed[n][m] >= 1 => relayed'[n][m] >= 1
    BY <1>1
  <2> QED BY <1>2, <2>1 DEF Emitted
<1>3. ASSUME NEW c \in Copies, Lively(c), c.msg.ttl = MAX_TTL
      PROVE  c.ttl + c.hopcnt = MAX_TTL /\ c.hopcnt <= Cardinality(Relays(relayed', c.msg))
  <2> DEFINE m == c.msg
             r == relayed
             q == relayed'
  <2>1. m \in Messages /\ c.hopcnt \in Nat
    BY DEF Copies
  <2>2. r \in [Nodes -> [Messages -> Nat]] /\ q \in [Nodes -> [Messages -> Nat]]
    BY DEF TypeInv
  <2>3. \A n \in Nodes : q[n][m] >= r[n][m]
    BY <2>1
  <2>4. c.ttl + c.hopcnt = MAX_TTL /\ c.hopcnt <= Cardinality(Relays(r, m))
    BY <1>3 DEF Lively
  <2> HIDE DEF m, r, q
  <2>5. /\ Cardinality(Relays(r, m)) <= Cardinality(Relays(q, m))
        /\ Cardinality(Relays(r, m)) \in Nat /\ Cardinality(Relays(q, m)) \in Nat
    BY <2>1, <2>2, <2>3, RelaysFacts
  <2>6. c.hopcnt <= Cardinality(Relays(q, m))
    BY <2>1, <2>4, <2>5
  <2> QED BY <2>4, <2>6 DEF m, q
<1>4. \A c \in Copies : Lively(c) => Lively(c)'
  BY <1>3 DEF Lively
<1> QED BY <1>2, <1>4

\* At the start nothing is on its way.
LEMMA FlightInit == ASSUME Init PROVE FlightInv
<1>1. SeenInv
  <2>1. PICK b \in BOOLEAN : dup = [q \in Nodes |-> [o \in Nodes |-> [NoEntry EXCEPT !.known = b]]]
    BY DEF Init
  <2>2. \A n, o \in Nodes : dup[n][o].seen = {}
    BY <2>1 DEF NoEntry
  <2>3. \A n, o \in Nodes : tc[n][o].seqno = 0
    BY DEF Init, NoTc
  <2> QED BY <2>2, <2>3, MessageFacts DEF SeenInv, TcDone
<1>2. ASSUME NEW l \in Hears PROVE Flight(l) = {}
  <2>1. l[1] \in Interfaces
    BY OwnerFacts
  <2>2. buf[l[1]].data = <<>> /\ air[l] = <<>>
    BY <2>1 DEF Init, Empty
  <2> QED BY <2>2, ElementFacts, AboardFacts DEF Flight
<1>3. \A n \in Nodes, m \in Messages : ~(relayed[n][m] >= 1)
  BY DEF Init
<1>4. todo \cap sent = {} /\ delivered = {}
  BY DEF Init
<1> QED BY <1>1, <1>2, <1>3, <1>4 DEF FlightInv

\* A copy that a router puts on its way has the age it should have.
LEMMA AgedLively ==
    ASSUME WellConnected, TypeInv, TypeInv', OnceInv', NEW p \in Copies, Lively(p), NEW n \in Nodes,
           \A q \in Nodes, m \in Messages : relayed'[q][m] >= relayed[q][m],
           relayed'[n][p.msg] > relayed[n][p.msg]
    PROVE  Lively(Aged(p))'
<1> DEFINE m == p.msg
           c == Aged(p)
           r == relayed
           q == relayed'
<1>1. m \in Messages /\ p.hopcnt \in Nat /\ p.ttl \in Nat
  BY DEF Copies
<1>2. c.msg = m /\ (~is_ttl_1(p) => c.hopcnt = p.hopcnt + 1 /\ c.ttl = p.ttl - 1)
  BY AgedFacts
<1>3. SUFFICES ASSUME m.ttl = MAX_TTL
               PROVE  c.ttl + c.hopcnt = MAX_TTL /\ c.hopcnt <= Cardinality(Relays(q, m))
  BY <1>2 DEF Lively
<1>4. p.ttl + p.hopcnt = MAX_TTL /\ p.hopcnt <= Cardinality(Relays(r, m))
  BY <1>3 DEF Lively
<1>5. ~is_ttl_1(p)
  BY <1>3, LivelyGoesOn
<1>6. r \in [Nodes -> [Messages -> Nat]] /\ q \in [Nodes -> [Messages -> Nat]]
  BY DEF TypeInv
<1>7. (\A k \in Nodes : q[k][m] >= r[k][m]) /\ q[n][m] > r[n][m]
  BY <1>1
<1>8. n # Originator(m) /\ q[n][m] <= 2
  <2>1. Once(n, dup'[n], q[n])
    BY DEF OnceInv
  <2>2. q[n][m] \in Nat /\ r[n][m] \in Nat
    BY <1>1, <1>6
  <2>3. (Originator(m) = n => q[n][m] = 0) /\ q[n][m] <= IF m.seqno \in dup'[n][Originator(m)].seen THEN 2 ELSE 1
    BY <1>1, <2>1 DEF Once
  <2> HIDE DEF q, r, m
  <2> QED BY <1>7, <2>2, <2>3
<1> HIDE DEF m, r, q
<1>9. /\ Cardinality(Relays(r, m)) + 1 <= Cardinality(Relays(q, m))
      /\ Cardinality(Relays(r, m)) \in Nat /\ Cardinality(Relays(q, m)) \in Nat
  BY <1>1, <1>6, <1>7, <1>8, RelaysFacts
<1>10. MAX_TTL \in Nat
  BY OwnerFacts
<1> HIDE DEF c
<1> QED BY <1>1, <1>2, <1>4, <1>5, <1>9, <1>10

\* Reading a packet keeps the origin of the copies.
LEMMA FlightParse ==
    ASSUME WellConnected, TypeInv, TypeInv', OnceInv', FlightInv, NEW l \in Hears, parse_packet(l[1], l[2])
    PROVE  FlightInv'
<1> DEFINE n == Owner[l[2]]
<1>1. PICK packet \in Packets : ParseEffect(l, packet)
  BY ParseHasEffect DEF FlightInv, Emitted
<1>2. /\ n \in Nodes /\ l[1] \in Interfaces /\ l[2] \in Interfaces /\ Owner[l[1]] \in Nodes
      /\ \A k \in Hears : Owner[k[1]] \in Nodes
  BY OwnerFacts
<1>3. UNCHANGED <<mpr, todo, sent, lost>> /\ SeenInv' /\ Elements(packet) \subseteq Flight(l)
  BY <1>1 DEF ParseEffect
<1>4. \A q \in Nodes, m \in Messages : relayed[q][m] \in Nat /\ relayed'[q][m] \in Nat
  BY DEF TypeInv
<1>5. \A q \in Nodes, m \in Messages : relayed'[q][m] >= relayed[q][m]
  <2>1. ASSUME NEW q \in Nodes, NEW m \in Messages PROVE relayed'[q][m] >= relayed[q][m]
    <3>1. CASE q = n
      BY <1>1, <3>1 DEF ParseEffect
    <3>2. CASE q # n
      <4>1. relayed'[q][m] = relayed[q][m]
        BY <1>1, <3>2 DEF ParseEffect
      <4> QED BY <1>4, <4>1
    <3> QED BY <3>1, <3>2
  <2> QED BY <2>1
<1>6. /\ \A q \in Nodes, m \in Messages : Emitted(q, m) => Emitted(q, m)'
      /\ \A c \in Copies : Lively(c) => Lively(c)'
  BY <1>3, <1>5, EmittedKept
<1>7. \A p \in Elements(packet) : p \in Copies /\ p.msg \in Messages /\ Emitted(Owner[l[1]], p.msg) /\ Lively(p)
  <2>1. \A p \in Elements(packet) : p \in Copies /\ Emitted(Owner[l[1]], p.msg) /\ Lively(p)
    BY <1>3, FlightType DEF FlightInv
  <2> QED BY <2>1 DEF Copies
<1>8. ASSUME NEW k \in Hears, NEW c \in Flight(k)'
      PROVE  Emitted(Owner[k[1]], c.msg)' /\ Lively(c)'
  <2>1. CASE c \in Flight(k)
    <3>1. c \in Copies /\ Emitted(Owner[k[1]], c.msg) /\ Lively(c)
      BY <2>1, FlightType DEF FlightInv
    <3>2. c.msg \in Messages
      BY <3>1 DEF Copies
    <3> QED BY <1>2, <1>6, <3>1, <3>2
  <2>2. CASE c \notin Flight(k)
    <3>1. /\ Owner[k[1]] = n
          /\ \E p \in Elements(packet) : c = Aged(p) /\ relayed'[n][c.msg] > relayed[n][c.msg]
      BY <1>1, <2>2 DEF ParseEffect
    <3>2. PICK p \in Elements(packet) : c = Aged(p) /\ relayed'[n][c.msg] > relayed[n][c.msg]
      BY <3>1
    <3>3. p \in Copies /\ p.msg \in Messages /\ Emitted(Owner[l[1]], p.msg) /\ Lively(p)
      BY <1>7
    <3>4. c.msg = p.msg
      BY <3>2, <3>3, AgedFacts
    <3>5. Lively(Aged(p))'
      BY <1>2, <1>5, <3>2, <3>3, <3>4, AgedLively
    <3>6. relayed'[n][c.msg] >= 1
      BY <1>2, <1>4, <3>2, <3>3, <3>4
    <3>7. c.msg \in sent'
      BY <1>3, <3>3, <3>4 DEF Emitted
    <3>8. Emitted(Owner[k[1]], c.msg)'
      BY <3>1, <3>6, <3>7 DEF Emitted
    <3> QED BY <3>2, <3>5, <3>8
  <2> QED BY <2>1, <2>2
<1>9. ASSUME NEW q \in Nodes, NEW m \in Messages, relayed'[q][m] >= 1 PROVE <<q, m>> \in delivered'
  <2>1. CASE relayed[q][m] >= 1
    BY <1>1, <2>1 DEF FlightInv, ParseEffect
  <2>2. CASE ~(relayed[q][m] >= 1)
    <3>1. relayed'[q][m] > relayed[q][m]
      BY <1>4, <1>9, <2>2
    <3>2. q = n
      <4>1. CASE q # n
        <5>1. relayed'[q][m] = relayed[q][m]
          BY <1>1, <4>1 DEF ParseEffect
        <5> QED BY <1>9, <2>2, <5>1
      <4> QED BY <4>1
    <3>3. PICK p \in Elements(packet) : p.msg = m /\ Taken(l[1], l[2], p)
      BY <1>1, <3>1, <3>2 DEF ParseEffect
    <3>4. Handled(l[1], l[2], p)
      BY <3>3 DEF Taken
    <3> QED BY <1>1, <3>2, <3>3, <3>4 DEF ParseEffect
  <2> QED BY <2>1, <2>2
<1>10. ASSUME NEW q \in Nodes, NEW m \in Messages, <<q, m>> \in delivered'
       PROVE  q # Originator(m) /\ \E e \in Nodes : q \in SymNeighbors[e] /\ Emitted(e, m)'
  <2>1. CASE <<q, m>> \in delivered
    BY <1>6, <2>1 DEF FlightInv
  <2>2. CASE <<q, m>> \notin delivered
    <3>1. PICK p \in Elements(packet) : Handled(l[1], l[2], p) /\ <<q, m>> = <<n, p.msg>>
      BY <1>1, <1>10, <2>2 DEF ParseEffect
    <3>2. q = n /\ m = p.msg
      BY <3>1
    <3>3. Originator(m) # n /\ SymLink(l[1], l[2])
      BY <3>1, <3>2 DEF Handled
    <3>4. n \in SymNeighbors[Owner[l[1]]]
      BY <1>2, <3>3, NeighborFacts
    <3>5. Emitted(Owner[l[1]], m)'
      BY <1>2, <1>6, <1>7, <3>2
    <3> QED BY <1>2, <3>2, <3>3, <3>4, <3>5
  <2> QED BY <2>1, <2>2
<1>11. todo' \cap sent' = {}
  BY <1>3 DEF FlightInv
<1> QED BY <1>3, <1>8, <1>9, <1>10, <1>11 DEF FlightInv

\* A new message is on its way from its originator.
LEMMA FlightGenerate ==
    ASSUME TypeInv, TypeInv', FlightInv, NEW x \in Messages, Generate(x)
    PROVE  FlightInv'
<1>1. /\ x \in todo /\ todo' = todo \ {x} /\ sent' = sent \cup {x}
      /\ UNCHANGED <<mpr, dup, tc, delivered, relayed, lost>>
  BY DEF Generate
<1>2. /\ Copy(x) \in Copies
      /\ \A l \in Hears : Flight(l)' \subseteq Flight(l) \cup (IF l[1] = x.via THEN {Copy(x)} ELSE {})
  BY GenerateFacts
<1>3. \A n \in Nodes, m \in Messages : relayed'[n][m] >= relayed[n][m]
  BY <1>1 DEF TypeInv
<1>4. /\ \A n \in Nodes, m \in Messages : Emitted(n, m) => Emitted(n, m)'
      /\ \A c \in Copies : Lively(c) => Lively(c)'
  BY <1>1, <1>3, EmittedKept
<1>5. ASSUME NEW l \in Hears, NEW c \in Flight(l)'
      PROVE  Emitted(Owner[l[1]], c.msg)' /\ Lively(c)'
  <2>1. CASE c \in Flight(l)
    <3>1. c \in Copies /\ Emitted(Owner[l[1]], c.msg) /\ Lively(c)
      BY <2>1, FlightType DEF FlightInv
    <3>2. c.msg \in Messages /\ Owner[l[1]] \in Nodes
      BY <3>1, OwnerFacts DEF Copies
    <3> QED BY <1>4, <3>1, <3>2
  <2>2. CASE c \notin Flight(l)
    <3>1. c = Copy(x) /\ l[1] = x.via
      BY <1>2, <2>2
    <3>2. c.msg = x /\ c.ttl = x.ttl /\ c.hopcnt = 0
      BY <3>1 DEF Copy
    <3>3. Emitted(Owner[l[1]], c.msg)'
      BY <1>1, <3>1, <3>2 DEF Emitted, Originator
    <3>4. relayed' \in [Nodes -> [Messages -> Nat]] /\ MAX_TTL \in Nat
      BY OwnerFacts DEF TypeInv
    <3>5. Cardinality(Relays(relayed', x)) \in Nat
      BY <3>4, RelaysFacts
    <3>6. Lively(c)'
      BY <3>2, <3>4, <3>5 DEF Lively
    <3> QED BY <3>3, <3>6
  <2> QED BY <2>1, <2>2
<1>6. SeenInv'
  BY <1>1 DEF FlightInv, SeenInv, TcDone
<1>7. todo' \cap sent' = {}
  BY <1>1 DEF FlightInv
<1>8. ASSUME NEW n \in Nodes, NEW m \in Messages, <<n, m>> \in delivered'
      PROVE  n # Originator(m) /\ \E e \in Nodes : n \in SymNeighbors[e] /\ Emitted(e, m)'
  BY <1>1, <1>4, <1>8 DEF FlightInv
<1>9. \A n \in Nodes, m \in Messages : relayed'[n][m] >= 1 => <<n, m>> \in delivered'
  BY <1>1 DEF FlightInv
<1> QED BY <1>5, <1>6, <1>7, <1>8, <1>9 DEF FlightInv

\* Copies that move on or are lost change nothing.
LEMMA FlightMoves ==
    ASSUME FlightInv, UNCHANGED <<mpr, todo, sent, dup, tc, delivered, relayed>>,
           \A l \in Hears : Flight(l)' \subseteq Flight(l)
    PROVE  FlightInv'
<1>1. SeenInv'
  BY DEF FlightInv, SeenInv, TcDone
<1>2. \A n, m : Emitted(n, m)' <=> Emitted(n, m)
  BY DEF Emitted
<1>3. \A c : Lively(c)' <=> Lively(c)
  BY DEF Lively
<1>4. \A l \in Hears : \A c \in Flight(l)' : Emitted(Owner[l[1]], c.msg)' /\ Lively(c)'
  BY <1>2, <1>3 DEF FlightInv
<1>5. ASSUME NEW n \in Nodes, NEW m \in Messages, <<n, m>> \in delivered'
      PROVE  n # Originator(m) /\ \E e \in Nodes : n \in SymNeighbors[e] /\ Emitted(e, m)'
  BY <1>2, <1>5 DEF FlightInv
<1>6. todo' \cap sent' = {} /\ \A n \in Nodes, m \in Messages : relayed'[n][m] >= 1 => <<n, m>> \in delivered'
  BY DEF FlightInv
<1> QED BY <1>1, <1>4, <1>5, <1>6 DEF FlightInv

\* Every step keeps the origin of the copies.
LEMMA FlightStep ==
    ASSUME WellConnected, TypeInv, OnceInv, FlightInv, [Next]_vars
    PROVE  FlightInv'
<1>1. TypeInv' /\ OnceInv'
  BY TypeStep, OnceStep
<1>2. ASSUME NEW m \in Messages, Generate(m) PROVE FlightInv'
  BY <1>1, <1>2, FlightGenerate
<1>3. ASSUME NEW i \in Interfaces, generate_hello(i) PROVE FlightInv'
  <2>1. \A l \in Hears : Flight(l)' = Flight(l)
    BY <1>3, HelloFacts
  <2>2. UNCHANGED <<mpr, todo, sent, dup, tc, delivered, relayed>>
    BY <1>3 DEF generate_hello
  <2> QED BY <2>1, <2>2, FlightMoves
<1>4. ASSUME NEW l \in Hears, parse_packet(l[1], l[2]) PROVE FlightInv'
  BY <1>1, <1>4, FlightParse
<1>5. ASSUME NEW l \in Hears, Lose(l) PROVE FlightInv'
  <2>1. \A k \in Hears : Flight(k)' \subseteq Flight(k)
    BY <1>5, LoseFacts
  <2>2. UNCHANGED <<mpr, todo, sent, dup, tc, delivered, relayed>>
    BY <1>5 DEF Lose
  <2> QED BY <2>1, <2>2, FlightMoves
<1>6. CASE UNCHANGED vars
  <2>1. \A l \in Hears : Flight(l)' = Flight(l)
    BY <1>6 DEF vars, Flight
  <2> QED BY <1>6, <2>1, FlightMoves DEF vars
<1> QED BY <1>2, <1>3, <1>4, <1>5, <1>6 DEF Next

-----------------------------------------------------------------------------
(* Flooding is complete: who is reached                                    *)

\* A copy of m is on its way to router n, over a symmetric link from router e.
Coming(e, n, m) ==
    \E l \in Hears : /\ Owner[l[1]] = e /\ Owner[l[2]] = n /\ SymLink(l[1], l[2])
                     /\ \E c \in Flight(l) : c.msg = m

\* Router n has handled m, or will.
Reached(n, m) == n = Originator(m) \/ <<n, m>> \in delivered \/ \E e \in Nodes : Coming(e, n, m)

\* Router n has sent m, or will: a copy is on its way from a selector.
Engaged(n, m) ==
    \/ n = Originator(m) \/ relayed[n][m] >= 1
    \/ \E e \in Nodes : Coming(e, n, m) /\ FromSelector(n, e)

\* Router n is reached, or will be by a neighbour that is engaged.
Promised(n, m) == Reached(n, m) \/ \E k \in Nodes : n \in SymNeighbors[k] /\ Engaged(k, m)

\* What a router that sent m has done for its neighbours and for theirs.
Spread(e, m) ==
    \A v \in SymNeighbors[e] : Reached(v, m) /\ \A u \in SymNeighbors[v] : Promised(u, m)

SpreadInv ==
    lost = 0 => \A m \in sent : m.ttl = MAX_TTL /\ Assured(m)
                    => \A e \in Nodes : Emitted(e, m) => Spread(e, m)

\* Promises are kept by a step after which reached and engaged routers are so still.
LEMMA SpreadKept ==
    ASSUME NEW m \in Messages, NEW e \in Nodes, Spread(e, m),
           \A n \in Nodes : (Reached(n, m) => Reached(n, m)') /\ (Engaged(n, m) => Engaged(n, m)')
    PROVE  Spread(e, m)'
<1>1. ASSUME NEW n \in Nodes, Promised(n, m) PROVE Promised(n, m)'
  BY <1>1 DEF Promised
<1>2. ASSUME NEW v \in SymNeighbors[e] PROVE Reached(v, m)' /\ \A u \in SymNeighbors[v] : Promised(u, m)'
  <2>1. v \in Nodes /\ SymNeighbors[v] \subseteq Nodes
    BY NeighborFacts
  <2> QED BY <1>1, <2>1 DEF Spread
<1> QED BY <1>2 DEF Spread

\* The same, when no copy is read.
LEMMA ReachedMoves ==
    ASSUME NEW m \in Messages, UNCHANGED <<mpr, delivered, relayed>>,
           \A l \in Hears : Flight(l) \subseteq Flight(l)'
    PROVE  \A n \in Nodes : (Reached(n, m) => Reached(n, m)') /\ (Engaged(n, m) => Engaged(n, m)')
<1>1. \A e, n : Coming(e, n, m) => Coming(e, n, m)'
  BY DEF Coming
<1>2. \A e, n : FromSelector(n, e)' <=> FromSelector(n, e)
  BY DEF FromSelector
<1> QED BY <1>1, <1>2 DEF Reached, Engaged

\* A copy that is read has reached its router, and engaged it if it came from a selector.
LEMMA ReachedParse ==
    ASSUME TypeInv, TypeInv', NEW m \in Messages, Assured(m),
           NEW l \in Hears, NEW packet \in Packets, ParseEffect(l, packet)
    PROVE  \A n \in Nodes : (Reached(n, m) => Reached(n, m)') /\ (Engaged(n, m) => Engaged(n, m)')
<1> DEFINE r == Owner[l[2]]
<1>1. /\ delivered \subseteq delivered' /\ mpr' = mpr
      /\ \A q \in Nodes \ {r} : relayed'[q][m] = relayed[q][m]
      /\ relayed'[r][m] >= relayed[r][m] /\ r \in Nodes
  BY OwnerFacts DEF ParseEffect
<1>2. \A q \in Nodes : relayed[q][m] >= 1 => relayed'[q][m] >= 1
  <2>1. \A q \in Nodes : relayed[q][m] \in Nat /\ relayed'[q][m] \in Nat
    BY DEF TypeInv
  <2> QED BY <1>1, <2>1
<1>3. \A e, n : FromSelector(n, e)' <=> FromSelector(n, e)
  BY <1>1 DEF FromSelector
<1>4. ASSUME NEW e \in Nodes, NEW n \in Nodes, Coming(e, n, m), ~Coming(e, n, m)'
      PROVE  /\ n # Originator(m) => <<n, m>> \in delivered'
             /\ n # Originator(m) /\ FromSelector(n, e) => relayed'[n][m] >= 1
  <2>1. PICK k \in Hears : /\ Owner[k[1]] = e /\ Owner[k[2]] = n /\ SymLink(k[1], k[2])
                           /\ \E c \in Flight(k) : c.msg = m
    BY <1>4 DEF Coming
  <2>2. PICK c \in Flight(k) : c.msg = m
    BY <2>1
  <2>3. c \notin Flight(k)'
    BY <1>4, <2>1, <2>2 DEF Coming
  <2>4. k = l /\ c \in Elements(packet)
    BY <2>2, <2>3 DEF ParseEffect
  <2>5. n # Originator(m) => Handled(l[1], l[2], c)
    BY <2>1, <2>2, <2>4 DEF Handled
  <2>6. n # Originator(m) /\ FromSelector(n, e) => Taken(l[1], l[2], c)
    BY <2>1, <2>4, <2>5 DEF Taken
  <2> QED BY <2>1, <2>2, <2>4, <2>5, <2>6 DEF ParseEffect
<1>5. ASSUME NEW n \in Nodes, Reached(n, m) PROVE Reached(n, m)'
  BY <1>1, <1>4, <1>5 DEF Reached
<1>6. ASSUME NEW n \in Nodes, Engaged(n, m) PROVE Engaged(n, m)'
  BY <1>2, <1>3, <1>4, <1>6 DEF Engaged
<1> QED BY <1>5, <1>6

\* Who is two hops away is behind an MPR.
LEMMA CoverFacts ==
    ASSUME TypeInv, NEW n \in Nodes, NEW v \in SymNeighbors[n], NEW u \in SymNeighbors[v]
    PROVE  \/ u = n \/ u \in SymNeighbors[n]
           \/ \E k \in SymNeighbors[n] : k \in mpr[n] /\ u \in SymNeighbors[k] /\ FromSelector(k, n)
<1>1. mpr[n] \subseteq SymNeighbors[n] /\ Covers(n, mpr[n])
  BY FloodAssumption DEF TypeInv
<1>2. CASE u # n /\ u \notin SymNeighbors[n]
  <2>1. u \in TwoHopNeighbors(n)
    BY <1>2 DEF TwoHopNeighbors
  <2>2. PICK k \in mpr[n] : u \in SymNeighbors[k]
    BY <1>1, <2>1 DEF Covers
  <2>3. k \in SymNeighbors[n] /\ n \in SymNeighbors[k]
    BY <1>1, <2>2, NeighborFacts
  <2> QED BY <2>2, <2>3 DEF FromSelector
<1> QED BY <1>2

\* The originator reaches its neighbours and engages its MPRs.
LEMMA GenerateSpreads ==
    ASSUME WellConnected, TypeInv, FlightInv, NEW x \in Messages, Generate(x), NEW e \in Nodes, Emitted(e, x)'
    PROVE  Spread(e, x)'
<1> DEFINE o == Originator(x)
<1>1. /\ x \notin sent /\ UNCHANGED <<mpr, delivered, relayed>> /\ o \in Nodes /\ x.via \in Interfaces
  BY MessageFacts DEF Generate, FlightInv
<1>2. e = o
  <2>1. CASE relayed[e][x] >= 1
    BY <1>1, <2>1 DEF FlightInv, Emitted
  <2> QED BY <1>1, <2>1 DEF Emitted
<1>3. ASSUME NEW v \in SymNeighbors[o] PROVE v \in Nodes /\ Coming(o, v, x)'
  <2>1. PICK j \in Interfaces : Owner[j] = v /\ SymLink(x.via, j)
    BY DEF WellConnected
  <2> DEFINE l == <<x.via, j>>
  <2>2. l \in Hears /\ l[1] = x.via /\ l[2] = j
    BY <1>1, <2>1, NeighborFacts
  <2> HIDE DEF l
  <2>3. x.size <= MAXSIZE[x.via]
    BY <1>1 DEF WellConnected
  <2>4. Copy(x) \in Flight(l)' /\ Copy(x).msg = x
    BY <2>2, <2>3, GenerateFacts DEF Copy
  <2>5. Owner[l[1]] = o
    BY <2>2 DEF Originator
  <2>6. v \in Nodes
    BY <1>1, NeighborFacts
  <2> QED BY <2>1, <2>2, <2>4, <2>5, <2>6 DEF Coming
<1>4. \A v \in SymNeighbors[o] : Reached(v, x)'
  BY <1>1, <1>3 DEF Reached
<1>5. ASSUME NEW v \in SymNeighbors[o], NEW u \in SymNeighbors[v] PROVE Promised(u, x)'
  <2>1. CASE u = o
    BY <2>1 DEF Promised, Reached
  <2>2. CASE u \in SymNeighbors[o]
    BY <1>4, <2>2 DEF Promised
  <2>3. ASSUME NEW k \in SymNeighbors[o], k \in mpr[o], u \in SymNeighbors[k], FromSelector(k, o)
        PROVE  Promised(u, x)'
    <3>1. FromSelector(k, o)' /\ k \in Nodes /\ Coming(o, k, x)'
      BY <1>1, <1>3, <2>3 DEF FromSelector
    <3>2. Engaged(k, x)'
      BY <1>1, <3>1 DEF Engaged
    <3> QED BY <2>3, <3>1, <3>2 DEF Promised
  <2> QED BY <1>1, <2>1, <2>2, <2>3, CoverFacts
<1>6. Spread(o, x)'
  BY <1>4, <1>5 DEF Spread
<1> QED BY <1>2, <1>6

\* A router that forwards a message reaches its neighbours and engages its MPRs, but for those on
\* the ethernet it had the message from, who had it from there too.
LEMMA ParseSpreads ==
    ASSUME WellConnected, TypeInv, TypeInv', FlightInv, FlightInv',
           NEW l \in Hears, NEW packet \in Packets, ParseEffect(l, packet),
           NEW m \in Messages, m.ttl = MAX_TTL, Assured(m),
           \A e \in Nodes : Emitted(e, m) => Spread(e, m),
           relayed'[Owner[l[2]]][m] > relayed[Owner[l[2]]][m]
    PROVE  Spread(Owner[l[2]], m)'
<1> DEFINE from == l[1]
           in == l[2]
           n == Owner[in]
           f == Owner[from]
<1>1. n \in Nodes /\ f \in Nodes /\ in \in Interfaces /\ from \in Interfaces
  BY OwnerFacts
<1>2. mpr' = mpr /\ sent' = sent
  BY DEF ParseEffect
<1>3. PICK p \in Elements(packet) :
         /\ p.msg = m /\ Taken(from, in, p)
         /\ \A k \in Hears : Owner[k[1]] = n /\ GoesThrough(k[1], in, p) => Aged(p) \in Flight(k)'
  BY DEF ParseEffect
<1>4. p \in Flight(l) /\ p \in Copies /\ Emitted(f, m) /\ Lively(p)
  BY <1>3, FlightType DEF ParseEffect, FlightInv
<1>5. SymLink(from, in) /\ n # Originator(m) /\ <<n, m>> \in delivered'
  BY <1>3 DEF Taken, Handled, ParseEffect
<1>6. ~is_ttl_1(p) /\ Aged(p).msg = m
  BY <1>3, <1>4, LivelyGoesOn, AgedFacts
<1>7. \A q \in Nodes : (Reached(q, m) => Reached(q, m)') /\ (Engaged(q, m) => Engaged(q, m)')
  BY ReachedParse
<1>8. Spread(f, m)'
  BY <1>1, <1>4, <1>7, SpreadKept
<1>9. Reached(f, m)' /\ Engaged(f, m)'
  <2>1. f = Originator(m) \/ relayed[f][m] >= 1
    BY <1>4 DEF Emitted
  <2>2. Engaged(f, m)
    BY <2>1 DEF Engaged
  <2>3. Reached(f, m)
    BY <1>1, <2>1 DEF Reached, FlightInv
  <2> QED BY <1>1, <1>7, <2>2, <2>3
\* A neighbour hears from n, or it is on the ethernet that n heard from.
<1>10. ASSUME NEW v \in SymNeighbors[n]
       PROVE  v \in Nodes /\ (Coming(n, v, m)' \/ v = f \/ v \in SymNeighbors[f])
  <2>1. PICK i \in Interfaces, j \in Interfaces : Owner[i] = n /\ Owner[j] = v /\ SymLink(i, j)
    BY <1>1, NeighborFacts
  <2> DEFINE k == <<i, j>>
  <2>2. k \in Hears /\ k[1] = i /\ k[2] = j
    BY <2>1, NeighborFacts
  <2> HIDE DEF k
  <2>3. v \in Nodes
    BY <1>1, NeighborFacts
  <2>4. CASE GoesThrough(i, in, p)
    <3>1. Aged(p) \in Flight(k)'
      BY <1>3, <2>1, <2>2, <2>4
    <3> QED BY <1>6, <2>1, <2>2, <2>3, <3>1 DEF Coming
  <2>5. CASE ~GoesThrough(i, in, p)
    <3>1. i = in /\ i \in Ether
      BY <1>6, <2>5 DEF GoesThrough
    <3>2. SymLink(from, in) /\ SymLink(in, j) /\ in \in Ether
      BY <1>5, <2>1, <3>1
    <3>3. SymLink(from, j) \/ f = v
      BY <1>1, <2>1, <3>2 DEF WellConnected
    <3>4. SymLink(from, j) => v \in SymNeighbors[f]
      BY <1>1, <2>1, NeighborFacts
    <3> QED BY <2>3, <3>3, <3>4
  <2> QED BY <2>4, <2>5
<1>11. ASSUME NEW v \in SymNeighbors[n] PROVE Reached(v, m)'
  <2>1. CASE Coming(n, v, m)'
    BY <1>1, <2>1 DEF Reached
  <2>2. CASE v = f
    BY <1>9, <2>2
  <2>3. CASE v \in SymNeighbors[f]
    BY <1>8, <2>3 DEF Spread
  <2> QED BY <1>10, <2>1, <2>2, <2>3
<1>12. ASSUME NEW v \in SymNeighbors[n], NEW u \in SymNeighbors[v] PROVE Promised(u, m)'
  <2>1. CASE u = n
    BY <1>5, <2>1 DEF Promised, Reached
  <2>2. CASE u \in SymNeighbors[n]
    BY <1>11, <2>2 DEF Promised
  <2>3. ASSUME NEW k \in SymNeighbors[n], u \in SymNeighbors[k], FromSelector(k, n)
        PROVE  Promised(u, m)'
    <3>1. k \in Nodes
      BY <1>10
    <3>2. CASE Coming(n, k, m)'
      <4>1. FromSelector(k, n)'
        BY <1>2, <2>3 DEF FromSelector
      <4>2. Engaged(k, m)'
        BY <1>1, <3>2, <4>1 DEF Engaged
      <4> QED BY <2>3, <3>1, <4>2 DEF Promised
    <3>3. CASE k = f
      BY <1>9, <2>3, <3>1, <3>3 DEF Promised
    <3>4. CASE k \in SymNeighbors[f]
      BY <1>8, <2>3, <3>4 DEF Spread
    <3> QED BY <1>10, <3>2, <3>3, <3>4
  <2> QED BY <1>1, <2>1, <2>2, <2>3, CoverFacts
<1> QED BY <1>11, <1>12 DEF Spread

\* Every step keeps what the routers have done for each other.
LEMMA SpreadStep ==
    ASSUME WellConnected, TypeInv, OnceInv, FlightInv, SpreadInv, [Next]_vars
    PROVE  SpreadInv'
<1>1. TypeInv' /\ FlightInv'
  BY TypeStep, FlightStep
<1>2. ASSUME UNCHANGED <<mpr, sent, delivered, relayed, lost>>, \A l \in Hears : Flight(l)' = Flight(l)
      PROVE  SpreadInv'
  <2>1. SUFFICES ASSUME lost = 0, NEW m \in sent, m.ttl = MAX_TTL, Assured(m), NEW e \in Nodes, Emitted(e, m)
                 PROVE  Spread(e, m)'
    BY <1>2 DEF SpreadInv, Emitted, Assured
  <2>2. m \in Messages /\ Spread(e, m)
    BY <2>1 DEF SpreadInv, TypeInv
  <2>3. \A n \in Nodes : (Reached(n, m) => Reached(n, m)') /\ (Engaged(n, m) => Engaged(n, m)')
    BY <1>2, <2>2, ReachedMoves
  <2> QED BY <2>2, <2>3, SpreadKept
<1>3. ASSUME NEW x \in Messages, Generate(x) PROVE SpreadInv'
  <2>1. UNCHANGED <<mpr, delivered, relayed, lost>> /\ sent' = sent \cup {x}
    BY <1>3 DEF Generate
  <2>2. SUFFICES ASSUME lost = 0, NEW m \in sent', m.ttl = MAX_TTL, Assured(m)', NEW e \in Nodes, Emitted(e, m)'
                 PROVE  Spread(e, m)'
    BY <2>1 DEF SpreadInv
  <2>3. CASE m = x
    BY <1>3, <2>2, <2>3, GenerateSpreads
  <2>4. CASE m # x
    <3>1. m \in sent /\ m \in Messages /\ Emitted(e, m) /\ Assured(m)
      BY <2>1, <2>2, <2>4 DEF TypeInv, Emitted, Assured
    <3>2. Spread(e, m)
      BY <2>2, <3>1 DEF SpreadInv
    <3>3. \A l \in Hears : Flight(l) \subseteq Flight(l)'
      BY <1>3, GenerateFacts
    <3>4. \A n \in Nodes : (Reached(n, m) => Reached(n, m)') /\ (Engaged(n, m) => Engaged(n, m)')
      BY <2>1, <3>1, <3>3, ReachedMoves
    <3> QED BY <3>1, <3>2, <3>4, SpreadKept
  <2> QED BY <2>3, <2>4
<1>4. ASSUME NEW i \in Interfaces, generate_hello(i) PROVE SpreadInv'
  <2>1. \A l \in Hears : Flight(l)' = Flight(l)
    BY <1>4, HelloFacts
  <2> QED BY <1>2, <1>4, <2>1 DEF generate_hello
<1>5. ASSUME NEW l \in Hears, parse_packet(l[1], l[2]) PROVE SpreadInv'
  <2> DEFINE n == Owner[l[2]]
  <2>1. PICK packet \in Packets : ParseEffect(l, packet)
    BY <1>5, ParseHasEffect DEF FlightInv, Emitted
  <2>2. UNCHANGED <<mpr, sent, lost>> /\ n \in Nodes
    BY <2>1, OwnerFacts DEF ParseEffect
  <2>3. SUFFICES ASSUME lost = 0, NEW m \in sent, m.ttl = MAX_TTL, Assured(m), NEW e \in Nodes, Emitted(e, m)'
                 PROVE  Spread(e, m)'
    BY <2>2 DEF SpreadInv, Assured
  <2>4. m \in Messages /\ \A q \in Nodes : Emitted(q, m) => Spread(q, m)
    BY <2>3 DEF SpreadInv, TypeInv
  <2>5. CASE Emitted(e, m)
    <3>1. \A q \in Nodes : (Reached(q, m) => Reached(q, m)') /\ (Engaged(q, m) => Engaged(q, m)')
      BY <1>1, <2>1, <2>3, <2>4, ReachedParse
    <3> QED BY <2>4, <2>5, <3>1, SpreadKept
  <2>6. CASE ~Emitted(e, m)
    <3>1. ~(relayed[e][m] >= 1) /\ relayed'[e][m] >= 1
      BY <2>2, <2>3, <2>6 DEF Emitted
    <3>2. e = n
      <4>1. CASE e # n
        <5>1. relayed'[e][m] = relayed[e][m]
          BY <2>1, <2>4, <4>1 DEF ParseEffect
        <5> QED BY <3>1, <5>1
      <4> QED BY <4>1
    <3>3. relayed[e][m] \in Nat /\ relayed'[e][m] \in Nat
      BY <1>1, <2>4 DEF TypeInv
    <3>4. relayed'[n][m] > relayed[n][m]
      BY <3>1, <3>2, <3>3
    <3>5. Spread(n, m)'
      BY <1>1, <2>1, <2>3, <2>4, <3>4, ParseSpreads
    <3> QED BY <3>2, <3>5
  <2> QED BY <2>5, <2>6
<1>6. ASSUME NEW l \in Hears, Lose(l) PROVE SpreadInv'
  <2>1. lost' # 0
    BY <1>6, OwnerFacts DEF Lose, TypeInv
  <2> QED BY <2>1 DEF SpreadInv
<1>7. CASE UNCHANGED vars
  <2>1. \A l \in Hears : Flight(l)' = Flight(l)
    BY <1>7 DEF vars, Flight
  <2> QED BY <1>2, <1>7, <2>1 DEF vars
<1> QED BY <1>3, <1>4, <1>5, <1>6, <1>7 DEF Next

-----------------------------------------------------------------------------
(* Flooding is complete: the end of a flood                                *)

\* A set with a router and the neighbours of all its members has all that the router is joined with.
LEMMA JoinedWithin ==
    ASSUME NEW n \in Nodes, NEW S \in SUBSET Nodes, n \in S, \A v \in S : SymNeighbors[v] \subseteq S
    PROVE  Joined(n) \subseteq S
<1> DEFINE N == Cardinality(Nodes)
           A == SUBSET Nodes
           base == {n}
           step == [x \in (1..N) \X A |-> x[2] \cup UNION {SymNeighbors[r] : r \in x[2]}]
           Q(g) == g = [k \in 0..N |-> IF k = 0 THEN base
                                       ELSE g[k - 1] \cup UNION {SymNeighbors[r] : r \in g[k - 1]}]
<1>1. N \in Nat
  BY NodesFinite, FS_CardinalityType
<1>2. base \in A
  OBVIOUS
<1>3. ASSUME NEW T \in A PROVE T \cup UNION {SymNeighbors[r] : r \in T} \in A
  BY NeighborFacts
<1>4. step \in [(1..N) \X A -> A]
  BY <1>1, <1>3
<1>5. ASSUME NEW k \in 1..N, NEW T \in A
      PROVE  step[<<k, T>>] = T \cup UNION {SymNeighbors[r] : r \in T}
  BY <1>1
<1> HIDE DEF A, step, base
<1>6. PICK f \in [0..N -> A] : Recursion(f, N, base, step)
  BY <1>1, <1>2, <1>4, RecursionExists
<1>7. f[0] = base /\ \A k \in 1..N : f[k] = f[k - 1] \cup UNION {SymNeighbors[r] : r \in f[k - 1]}
  <2>1. \A k \in 1..N : f[k - 1] \in A
    BY <1>1, <1>6
  <2> QED BY <1>5, <1>6, <2>1 DEF Recursion
<1>8. Q(f)
  BY <1>1, <1>6, <1>7
<1> DEFINE h == CHOOSE g : Q(g)
<1>9. Joined(n) = h[N] \ {n}
  BY DEF Joined, base
<1>10. Q(h)
  BY <1>8
<1> HIDE DEF h
<1>11. h[0] = base /\ \A k \in 1..N : h[k] = h[k - 1] \cup UNION {SymNeighbors[r] : r \in h[k - 1]}
  BY <1>1, <1>10
<1> DEFINE K == {k \in 0..N : h[k] \subseteq S}
<1>12. 0 \in K
  BY <1>1, <1>11 DEF base
<1>13. ASSUME NEW k \in 1..N, k - 1 \in K PROVE k \in K
  <2>1. h[k - 1] \subseteq S
    BY <1>13
  <2>2. UNION {SymNeighbors[r] : r \in h[k - 1]} \subseteq S
    BY <2>1
  <2> QED BY <1>1, <1>11, <2>1, <2>2
<1> HIDE DEF K
<1>14. 0..N \subseteq K
  BY <1>1, <1>12, <1>13, IntervalInduction
<1>15. N \in K
  BY <1>1, <1>14
<1> QED BY <1>9, <1>15 DEF K

\* When nothing is on its way, all promises have been kept.
LEMMA QuietComplete ==
    ASSUME WellConnected, TypeInv, FlightInv, SpreadInv, Quiet, lost = 0,
           NEW m \in sent, m.ttl = MAX_TTL, Assured(m)
    PROVE  Joined(Originator(m)) \X {m} \subseteq delivered
<1> DEFINE o == Originator(m)
           S == {n \in Nodes : n = o \/ <<n, m>> \in delivered}
<1>1. m \in Messages /\ o \in Nodes
  BY MessageFacts DEF TypeInv
<1>2. \A l \in Hears : Flight(l) = {}
  <2>1. ASSUME NEW l \in Hears PROVE Flight(l) = {}
    <3>1. l[1] \in Interfaces
      BY OwnerFacts
    <3>2. buf[l[1]].data = <<>> /\ air[l] = <<>>
      BY <3>1 DEF Quiet, Empty
    <3> QED BY <3>2, ElementFacts, AboardFacts DEF Flight
  <2> QED BY <2>1
<1>3. \A e, n : ~Coming(e, n, m)
  BY <1>2 DEF Coming
<1>4. \A e \in Nodes : Emitted(e, m) => Spread(e, m)
  BY DEF SpreadInv
<1>5. ASSUME NEW n \in Nodes, Reached(n, m) PROVE n \in S
  BY <1>3, <1>5 DEF Reached
<1>6. ASSUME NEW n \in Nodes, Engaged(n, m) PROVE Spread(n, m)
  BY <1>3, <1>4, <1>6 DEF Engaged, Emitted
<1>7. ASSUME NEW n \in Nodes, Promised(n, m) PROVE n \in S
  <2>1. CASE Reached(n, m)
    BY <1>5, <2>1
  <2>2. ASSUME NEW k \in Nodes, n \in SymNeighbors[k], Engaged(k, m) PROVE n \in S
    <3>1. Spread(k, m)
      BY <1>6, <2>2
    <3>2. Reached(n, m)
      BY <2>2, <3>1 DEF Spread
    <3> QED BY <1>5, <3>2
  <2> QED BY <1>7, <2>1, <2>2 DEF Promised
<1>8. ASSUME NEW v \in S PROVE SymNeighbors[v] \subseteq S
  <2>1. v \in Nodes /\ SymNeighbors[v] \subseteq Nodes
    BY NeighborFacts
  <2>2. CASE v = o
    <3>1. Spread(v, m)
      BY <1>1, <1>6, <2>2 DEF Engaged
    <3> QED BY <1>5, <2>1, <3>1 DEF Spread
  <2>3. CASE v # o
    <3>1. <<v, m>> \in delivered
      BY <2>3
    <3>2. PICK e \in Nodes : v \in SymNeighbors[e] /\ Emitted(e, m)
      BY <1>1, <2>1, <3>1 DEF FlightInv
    <3>3. Spread(e, m)
      BY <1>4, <3>2
    <3>4. \A u \in SymNeighbors[v] : Promised(u, m)
      BY <3>2, <3>3 DEF Spread
    <3> QED BY <1>7, <2>1, <3>4
  <2> QED BY <2>2, <2>3
<1>9. S \in SUBSET Nodes /\ o \in S
  BY <1>1
<1> HIDE DEF S
<1>10. Joined(o) \subseteq S
  BY <1>1, <1>8, <1>9, JoinedWithin
<1>11. o \notin Joined(o)
  BY DEF Joined
<1>12. ASSUME NEW n \in Joined(o) PROVE <<n, m>> \in delivered
  BY <1>10, <1>11 DEF S
<1> QED BY <1>12

\* In a well connected network every flood of a MID or HNA without losses is complete: whichever
\* covering MPRs the routers have chosen, in whichever order copies arrive and buffers are sent,
\* each router that is joined with the originator has handled the message when nothing is left to
\* send or to read.  So is that of a TC no newer one of its originator was sent after, if all
\* routers have chosen all their neighbours as MPRs; a TC is refused when it comes again, and with
\* fewer MPRs the selector's copy may be the one that is refused (parse_packet, olsr_input_tc,
\* olsr_forward_message, net_outbuffer_push).
THEOREM EveryFloodComplete ==
    ASSUME WellConnected
    PROVE  Spec => []FloodComplete
<1> DEFINE Inv == TypeInv /\ OnceInv /\ FlightInv /\ SpreadInv
<1>1. ASSUME Init PROVE Inv
  <2>1. SpreadInv
    BY <1>1 DEF Init, SpreadInv
  <2> QED BY <1>1, <2>1, TypeInit, OnceInit, FlightInit
<1>2. ASSUME Inv, [Next]_vars PROVE Inv'
  BY <1>2, TypeStep, OnceStep, FlightStep, SpreadStep
<1>3. ASSUME Inv PROVE FloodComplete
  BY <1>3, QuietComplete DEF FloodComplete
<1> QED BY <1>1, <1>2, <1>3, PTL DEF Spec
=============================================================================
