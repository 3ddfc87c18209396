----------------------------- MODULE TcSetProofs -----------------------------
(***************************************************************************)
(* Proofs about TcSet for every set of routers, every window and every     *)
(* bound: the pointers between an edge and its inverse, and the reference  *)
(* counter of an entry, are exact; the types; the newest message of a      *)
(* router that did not reboot is believed and revokes what it does not     *)
(* list; and a rebooted router is believed after a bounded number of       *)
(* messages.                                                               *)
(***************************************************************************)
EXTENDS TcSet, NumberFacts, SequenceTheorems, FiniteSetTheorems, TLAPS

(* What the network carries.                                               *)

\* An originator does not list itself.
TcMessages(o) == [seq : Nat, ansn : Nat, nbrs : SUBSET (Nodes \ {o}),
                  lower : Nat, upper : Nat \cup {MaxAddr + 1}]

NetOK ==
    /\ DOMAIN net = Originators
    /\ \A o \in Originators : net[o] \in Seq(TcMessages(o))

\* The messages that stay in flight are some of those that were.
LEMMA LastOfType ==
    ASSUME NEW o, NEW q \in Seq(TcMessages(o))
    PROVE  LastOf(q) \in Seq(TcMessages(o))
<1>1. Len(q) \in Nat /\ IN_FLIGHT \in Nat \ {0}
  BY TcSetAssumption
<1>2. CASE Len(q) <= IN_FLIGHT
  BY <1>2 DEF LastOf
<1>3. CASE ~(Len(q) <= IN_FLIGHT)
  <2>1. \A i \in Len(q) - IN_FLIGHT + 1 .. Len(q) : q[i] \in TcMessages(o)
    BY <1>1, <1>3
  <2>2. SubSeq(q, Len(q) - IN_FLIGHT + 1, Len(q)) \in Seq(TcMessages(o))
    BY <1>1, <2>1, SubSeqProperties
  <2> QED BY <1>1, <1>3, <2>2 DEF LastOf
<1> QED BY <1>2, <1>3

\* Flooding well formed messages keeps the network well formed.
LEMMA FloodType ==
    ASSUME NetOK, NEW o \in Originators, NEW nbrs, NEW msgs \in Seq(TcMessages(o)),
           Flood(o, nbrs, msgs)
    PROVE  NetOK'
<1>1. net[o] \o msgs \in Seq(TcMessages(o))
  BY ConcatProperties DEF NetOK
<1>2. LastOf(net[o] \o msgs) \in Seq(TcMessages(o))
  BY <1>1, LastOfType
<1>3. net' = [net EXCEPT ![o] = LastOf(net[o] \o msgs)]
  BY DEF Flood
<1> HIDE DEF TcMessages, LastOf
<1> QED BY <1>2, <1>3 DEF NetOK

\* The newest message is a message.
LEMMA NewestType ==
    ASSUME NetOK, NEW o \in Originators, ~Silent(o)
    PROVE  Newest(o) \in TcMessages(o)
<1>1. net[o] \in Seq(TcMessages(o)) /\ net[o] # <<>>
  BY DEF NetOK, Silent
<1>2. Len(net[o]) \in 1 .. Len(net[o])
  BY <1>1
<1> QED BY <1>1, <1>2 DEF Newest

\* Numbers of a next message are natural.
LEMMA NextNumbersType ==
    ASSUME NetOK, NEW o \in Originators, NEW nbrs, NEW n \in NextNumbers(o, nbrs)
    PROVE  n[1] \in Nat /\ n[2] \in Nat
<1>1. CASE Silent(o)
  BY <1>1, TcSetAssumption DEF NextNumbers
<1>2. CASE ~Silent(o)
  <2>1. Newest(o).seq \in Nat /\ Newest(o).ansn \in Nat
    BY <1>2, NewestType DEF TcMessages
  <2> QED BY <1>2, <2>1 DEF NextNumbers
<1> QED BY <1>1, <1>2

\* Messages that are delivered are messages.
LEMMA InFlightType ==
    ASSUME NetOK, NEW o \in Originators, NEW m \in InFlight(o)
    PROVE  m \in TcMessages(o)
BY DEF NetOK, InFlight

\* Every step keeps the network well formed.
LEMMA NetStep ==
    ASSUME NetOK, [Next]_vars
    PROVE  NetOK'
<1> USE TcSetAssumption
<1>1. ASSUME NEW o \in Originators, NEW nbrs \in NeighborSets(o), NEW upper \in {0, MaxAddr + 1},
             SendTc(o, nbrs, upper)
      PROVE  NetOK'
  <2>1. PICK n \in NextNumbers(o, nbrs) :
          Flood(o, nbrs, <<[seq |-> n[1], ansn |-> n[2], nbrs |-> nbrs, lower |-> 0, upper |-> upper]>>)
    BY <1>1 DEF SendTc
  <2>2. n[1] \in Nat /\ n[2] \in Nat
    BY NextNumbersType
  <2>3. [seq |-> n[1], ansn |-> n[2], nbrs |-> nbrs, lower |-> 0, upper |-> upper] \in TcMessages(o)
    BY <2>2 DEF TcMessages, NeighborSets
  <2>4. <<[seq |-> n[1], ansn |-> n[2], nbrs |-> nbrs, lower |-> 0, upper |-> upper]>> \in Seq(TcMessages(o))
    BY <2>3
  <2> QED BY <2>1, <2>4, FloodType
<1>2. ASSUME NEW o \in Originators, NEW nbrs \in NeighborSets(o), NEW cut \in Nodes,
             SendTcParts(o, nbrs, cut)
      PROVE  NetOK'
  <2> DEFINE low(n) == [seq |-> n[1], ansn |-> n[2], nbrs |-> {d \in nbrs : d < cut},
                        lower |-> 0, upper |-> cut]
             high(n) == [seq |-> n[1] + 1, ansn |-> n[2], nbrs |-> {d \in nbrs : d >= cut},
                         lower |-> cut, upper |-> MaxAddr + 1]
  <2>1. PICK n \in NextNumbers(o, nbrs) : Flood(o, nbrs, <<low(n), high(n)>>)
    BY <1>2 DEF SendTcParts
  <2>2. n[1] \in Nat /\ n[2] \in Nat
    BY NextNumbersType
  <2>3. low(n) \in TcMessages(o)
    BY <2>2 DEF TcMessages, NeighborSets
  <2>4. high(n) \in TcMessages(o)
    <3>1. {d \in nbrs : d >= cut} \in SUBSET (Nodes \ {o})
      BY Zenon DEF NeighborSets
    <3>2. cut \in Nat /\ n[1] + 1 \in Nat
      BY <2>2
    <3>3. MaxAddr + 1 \in Nat \cup {MaxAddr + 1}
      OBVIOUS
    <3> QED BY <2>2, <3>1, <3>2, <3>3, Zenon DEF TcMessages
  <2> HIDE DEF low, high
  <2>5. <<low(n), high(n)>> \in Seq(TcMessages(o))
    BY <2>3, <2>4
  <2> QED BY <2>1, <2>5, FloodType
<1>3. ASSUME NEW o \in Originators, NEW nbrs \in NeighborSets(o), RebootTc(o, nbrs)
      PROVE  NetOK'
  <2> DEFINE msg(j) == [seq |-> Newest(o).seq + j[1], ansn |-> Newest(o).ansn + j[2],
                        nbrs |-> nbrs, lower |-> 0, upper |-> MaxAddr + 1]
  <2>1. PICK j \in RebootJumps : Flood(o, nbrs, <<msg(j)>>)
    BY <1>3 DEF RebootTc
  <2>2. Newest(o).seq \in Nat /\ Newest(o).ansn \in Nat
    BY <1>3, NewestType DEF RebootTc, TcMessages
  <2>3. msg(j) \in TcMessages(o)
    BY <2>2 DEF TcMessages, NeighborSets
  <2> HIDE DEF msg
  <2>4. <<msg(j)>> \in Seq(TcMessages(o))
    BY <2>3
  <2> QED BY <2>1, <2>4, FloodType
<1>4. ASSUME UNCHANGED net PROVE NetOK'
  BY <1>4 DEF NetOK
<1>5. ASSUME NEW o \in Originators, NEW m \in InFlight(o), olsr_input_tc(o, m) PROVE UNCHANGED net
  BY <1>5 DEF olsr_input_tc, IgnoreTc, BelieveTc, BelieveFarewell, envVars
<1>6. ASSUME NEW o \in Originators, olsr_expire_tc_entry(o) \/ olsr_expire_tc_edge_gc(o) PROVE UNCHANGED net
  BY <1>6 DEF olsr_expire_tc_entry, olsr_expire_tc_edge_gc, envVars
<1>7. ASSUME NEW o \in Originators, NEW p \in Prefixes,
             olsr_insert_routing_table(o, p) \/ olsr_delete_routing_table(o, p)
      PROVE  UNCHANGED net
  BY <1>7 DEF olsr_insert_routing_table, olsr_delete_routing_table, envVars
<1>8. ASSUME NEW d \in Neighbors, AddMyEdge(d) \/ DeleteMyEdge(d) PROVE UNCHANGED net
  BY <1>8 DEF AddMyEdge, DeleteMyEdge, envVars
<1>9. ASSUME ProcessChanges \/ UNCHANGED vars PROVE UNCHANGED net
  BY <1>9 DEF ProcessChanges, envVars, vars
<1> QED BY <1>1, <1>2, <1>3, <1>4, <1>5, <1>6, <1>7, <1>8, <1>9 DEF Next

-----------------------------------------------------------------------------
(* Pointers between an edge and its inverse.                               *)

\* InverseExact, one pair of nodes at a time.
PairExact(a, b) == <<a, b>> \in edge_inv <=> edge[<<a, b>>] # NoEdge /\ edge[<<b, a>>] # NoEdge

EdgesOK ==
    /\ edge \in [Nodes \X Nodes -> Nat \cup {NoEdge}]
    /\ edge_inv \subseteq Nodes \X Nodes
    /\ \A a, b \in Nodes : PairExact(a, b)

\* The invariant of single pairs is the invariant of the whole relation.
LEMMA PairsAreExact == EdgesOK => InverseExact
<1> SUFFICES ASSUME EdgesOK PROVE InverseExact
  OBVIOUS
<1>1. ASSUME NEW p \in edge_inv PROVE p \in Edges /\ <<p[2], p[1]>> \in Edges
  <2>1. PICK a \in Nodes, b \in Nodes : p = <<a, b>>
    BY DEF EdgesOK
  <2>2. edge[<<a, b>>] # NoEdge /\ edge[<<b, a>>] # NoEdge
    BY <2>1 DEF EdgesOK, PairExact
  <2> QED BY <2>1, <2>2 DEF Edges
<1>2. ASSUME NEW p \in Edges, <<p[2], p[1]>> \in Edges PROVE p \in edge_inv
  <2>1. PICK a \in Nodes, b \in Nodes : p = <<a, b>>
    BY DEF Edges
  <2>2. edge[<<a, b>>] # NoEdge /\ edge[<<b, a>>] # NoEdge
    BY <1>2, <2>1 DEF Edges
  <2> QED BY <2>1, <2>2 DEF EdgesOK, PairExact
<1> QED BY <1>1, <1>2, Zenon DEF InverseExact

\* The ANSN of a message marks an edge as present.
LEMMA AnsnNat ==
    ASSUME NEW o, NEW m \in TcMessages(o)
    PROVE  AnsnOf(m) \in Nat
BY SeqModAssumption DEF AnsnOf, TcMessages

\* Removing edges of one originator keeps the pointers exact.
LEMMA RemoveKeepsPairs ==
    ASSUME EdgesOK, NEW o \in Nodes, NEW gone,
           edge' = [p \in Nodes \X Nodes |-> IF p[1] = o /\ p[2] \in gone THEN NoEdge ELSE edge[p]],
           edge_inv' = Disconnected(edge_inv, o, gone)
    PROVE  EdgesOK'
<1>1. edge' \in [Nodes \X Nodes -> Nat \cup {NoEdge}]
  BY DEF EdgesOK
<1>2. edge_inv' \subseteq Nodes \X Nodes
  BY DEF EdgesOK, Disconnected
<1>3. ASSUME NEW a \in Nodes, NEW b \in Nodes PROVE PairExact(a, b)'
  <2>1. /\ edge'[<<a, b>>] = IF a = o /\ b \in gone THEN NoEdge ELSE edge[<<a, b>>]
        /\ edge'[<<b, a>>] = IF b = o /\ a \in gone THEN NoEdge ELSE edge[<<b, a>>]
    OBVIOUS
  <2>2. <<a, b>> \in edge_inv' <=>
          /\ <<a, b>> \in edge_inv /\ ~(a = o /\ b \in gone)
          /\ ~(b = o /\ a \in gone /\ <<o, a>> \in edge_inv)
    BY DEF Disconnected
  <2>3. PairExact(a, b) /\ PairExact(b, a)
    BY DEF EdgesOK
  <2> QED BY <2>1, <2>2, <2>3 DEF PairExact
<1> QED BY <1>1, <1>2, <1>3 DEF EdgesOK

\* A believed message adds, refreshes and revokes edges and keeps them exact.
LEMMA BelieveKeepsPairs ==
    ASSUME EdgesOK, NEW o \in Nodes, NEW m \in TcMessages(o), BelieveTc(o, m)
    PROVE  EdgesOK'
<1> DEFINE new == m.nbrs \ EdgeTree(o)
           gone == Revoked(o, m)
<1>1. m.nbrs \subseteq Nodes \ {o}
  BY DEF TcMessages
<1>2. AnsnOf(m) \in Nat /\ NoEdge \notin Nat
  BY AnsnNat DEF NoEdge
<1>3. gone \subseteq EdgeTree(o) \ m.nbrs
  BY DEF Revoked
<1>4. edge' = [p \in Nodes \X Nodes |->
                 IF p[1] # o THEN edge[p]
                 ELSE IF p[2] \in m.nbrs THEN AnsnOf(m)
                 ELSE IF p[2] \in gone THEN NoEdge ELSE edge[p]]
  BY DEF BelieveTc
<1>5. edge_inv' = Disconnected(edge_inv \cup Connected(o, new), o, gone)
  BY DEF BelieveTc
<1> HIDE DEF gone
<1>6. edge' \in [Nodes \X Nodes -> Nat \cup {NoEdge}]
  BY <1>2, <1>4 DEF EdgesOK
<1>7. Connected(o, new) \subseteq Nodes \X Nodes
  <2>1. \A d \in new : <<o, d>> \in Nodes \X Nodes /\ <<d, o>> \in Nodes \X Nodes
    BY <1>1
  <2> HIDE DEF new
  <2> QED BY <2>1 DEF Connected
<1>8. edge_inv' \subseteq Nodes \X Nodes
  BY <1>5, <1>7 DEF EdgesOK, Disconnected
<1>9. ASSUME NEW a \in Nodes, NEW b \in Nodes PROVE PairExact(a, b)'
  <2>1. /\ edge'[<<a, b>>] = IF a # o THEN edge[<<a, b>>] ELSE IF b \in m.nbrs THEN AnsnOf(m)
                             ELSE IF b \in gone THEN NoEdge ELSE edge[<<a, b>>]
        /\ edge'[<<b, a>>] = IF b # o THEN edge[<<b, a>>] ELSE IF a \in m.nbrs THEN AnsnOf(m)
                             ELSE IF a \in gone THEN NoEdge ELSE edge[<<b, a>>]
    BY <1>4
  <2>2. \A x, y \in Nodes : <<x, y>> \in Connected(o, new) <=>
          \/ x = o /\ y \in new /\ edge[<<y, o>>] # NoEdge
          \/ y = o /\ x \in new /\ edge[<<x, o>>] # NoEdge
    BY <1>1 DEF Connected
  <2>3. <<a, b>> \in edge_inv' <=>
          /\ <<a, b>> \in edge_inv \/ <<a, b>> \in Connected(o, new)
          /\ ~(a = o /\ b \in gone)
          /\ ~(b = o /\ a \in gone /\ (<<o, a>> \in edge_inv \/ <<o, a>> \in Connected(o, new)))
    BY <1>5 DEF Disconnected
  <2>4. PairExact(a, b) /\ PairExact(b, a)
    BY DEF EdgesOK
  <2>5. \A d \in Nodes : d \in new <=> d \in m.nbrs /\ edge[<<o, d>>] = NoEdge
    BY DEF EdgeTree
  <2>6. \A d \in Nodes : d \in gone => d \notin m.nbrs /\ edge[<<o, d>>] # NoEdge
    BY <1>3 DEF EdgeTree
  <2> HIDE DEF new
  <2>7. AnsnOf(m) # NoEdge
    BY <1>2
  <2>8. CASE a = o /\ b = o
    BY <1>1, <2>1, <2>2, <2>3, <2>4, <2>5, <2>6, <2>8 DEF PairExact
  <2>9. CASE a = o /\ b # o
    BY <2>1, <2>2, <2>3, <2>4, <2>5, <2>6, <2>7, <2>9 DEF PairExact
  <2>10. CASE a # o /\ b = o
    BY <2>1, <2>2, <2>3, <2>4, <2>5, <2>6, <2>7, <2>10 DEF PairExact
  <2>11. CASE a # o /\ b # o
    BY <2>1, <2>2, <2>3, <2>4, <2>11 DEF PairExact
  <2> QED BY <2>8, <2>9, <2>10, <2>11
<1> QED BY <1>6, <1>8, <1>9 DEF EdgesOK

\* A new edge of our own is connected with its inverse.
LEMMA AddMyEdgeKeepsPairs ==
    ASSUME EdgesOK, NEW d \in Neighbors, AddMyEdge(d)
    PROVE  EdgesOK'
<1>1. myself \in Nodes /\ d \in Nodes /\ d # myself /\ NoEdge \notin Nat
  BY TcSetAssumption DEF NoEdge
<1>2. edge' = [edge EXCEPT ![<<myself, d>>] = 0] /\ edge[<<myself, d>>] = NoEdge
  BY DEF AddMyEdge
<1>3. edge_inv' = edge_inv \cup (IF edge[<<d, myself>>] # NoEdge
                                 THEN {<<myself, d>>, <<d, myself>>} ELSE {})
  BY DEF AddMyEdge, Connected
<1>4. edge' \in [Nodes \X Nodes -> Nat \cup {NoEdge}]
  BY <1>1, <1>2 DEF EdgesOK
<1>5. edge_inv' \subseteq Nodes \X Nodes
  BY <1>1, <1>3 DEF EdgesOK
<1>6. ASSUME NEW a \in Nodes, NEW b \in Nodes PROVE PairExact(a, b)'
  <2>1. /\ edge'[<<a, b>>] = IF a = myself /\ b = d THEN 0 ELSE edge[<<a, b>>]
        /\ edge'[<<b, a>>] = IF b = myself /\ a = d THEN 0 ELSE edge[<<b, a>>]
    BY <1>1, <1>2 DEF EdgesOK
  <2>2. PairExact(a, b)
    BY DEF EdgesOK
  <2> QED BY <1>1, <1>2, <1>3, <2>1, <2>2 DEF PairExact
<1> QED BY <1>4, <1>5, <1>6 DEF EdgesOK

\* Deleting an entry removes all of its edges.
LEMMA DeleteEntryKeepsPairs ==
    ASSUME EdgesOK, NEW o \in Nodes, olsr_delete_tc_entry(o)
    PROVE  EdgesOK'
<1>1. edge' = [p \in Nodes \X Nodes |-> IF p[1] = o THEN NoEdge ELSE edge[p]]
  BY DEF olsr_delete_tc_entry
<1>2. \A p \in Nodes \X Nodes :
        (IF p[1] = o THEN NoEdge ELSE edge[p])
          = (IF p[1] = o /\ p[2] \in EdgeTree(o) THEN NoEdge ELSE edge[p])
  BY DEF EdgeTree
<1>3. edge' = [p \in Nodes \X Nodes |-> IF p[1] = o /\ p[2] \in EdgeTree(o) THEN NoEdge ELSE edge[p]]
  BY <1>1, <1>2
<1>4. edge_inv' = Disconnected(edge_inv, o, EdgeTree(o))
  BY DEF olsr_delete_tc_entry
<1> QED BY <1>3, <1>4, RemoveKeepsPairs

\* Every step keeps the pointers exact.
LEMMA PairsStep ==
    ASSUME NetOK, EdgesOK, [Next]_vars
    PROVE  EdgesOK'
<1>1. ASSUME UNCHANGED <<edge, edge_inv>> PROVE EdgesOK'
  BY <1>1 DEF EdgesOK, PairExact
<1>2. Originators \subseteq Nodes /\ myself \in Nodes
  BY TcSetAssumption
<1>3. ASSUME NEW o \in Originators, NEW m \in InFlight(o), olsr_input_tc(o, m) PROVE EdgesOK'
  <2>1. CASE IgnoreTc(o, m)
    BY <1>1, <2>1 DEF IgnoreTc
  <2>2. CASE BelieveTc(o, m)
    BY <1>2, <2>2, InFlightType, BelieveKeepsPairs
  <2>3. CASE BelieveFarewell(o, m)
    <3>1. CASE o \in tc_tree
      BY <1>2, <2>3, <3>1, DeleteEntryKeepsPairs DEF BelieveFarewell
    <3>2. CASE o \notin tc_tree
      BY <1>1, <2>3, <3>2 DEF BelieveFarewell, dbVars
    <3> QED BY <3>1, <3>2
  <2> QED BY <1>3, <2>1, <2>2, <2>3 DEF olsr_input_tc
<1>4. ASSUME NEW o \in Originators, olsr_expire_tc_entry(o) PROVE EdgesOK'
  BY <1>2, <1>4, DeleteEntryKeepsPairs DEF olsr_expire_tc_entry
<1>5. ASSUME NEW o \in Originators, olsr_expire_tc_edge_gc(o) PROVE EdgesOK'
  BY <1>2, <1>5, RemoveKeepsPairs DEF olsr_expire_tc_edge_gc, DropEdges
<1>6. ASSUME NEW d \in Neighbors, AddMyEdge(d) PROVE EdgesOK'
  BY <1>6, AddMyEdgeKeepsPairs
<1>7. ASSUME NEW d \in Neighbors, DeleteMyEdge(d) PROVE EdgesOK'
  BY <1>2, <1>7, RemoveKeepsPairs DEF DeleteMyEdge, DropEdges
<1>8. ASSUME NEW o \in Originators, NEW p \in Prefixes,
             olsr_insert_routing_table(o, p) \/ olsr_delete_routing_table(o, p)
      PROVE  EdgesOK'
  BY <1>1, <1>8 DEF olsr_insert_routing_table, olsr_delete_routing_table
<1>9. ASSUME NEW o \in Originators, NEW nbrs, NEW upper, SendTc(o, nbrs, upper) PROVE EdgesOK'
  BY <1>1, <1>9 DEF SendTc, dbVars
<1>10. ASSUME NEW o \in Originators, NEW nbrs, NEW cut, SendTcParts(o, nbrs, cut) PROVE EdgesOK'
  BY <1>1, <1>10 DEF SendTcParts, dbVars
<1>11. ASSUME NEW o \in Originators, NEW nbrs, RebootTc(o, nbrs) PROVE EdgesOK'
  BY <1>1, <1>11 DEF RebootTc, dbVars
<1>12. ASSUME ProcessChanges \/ UNCHANGED vars PROVE EdgesOK'
  BY <1>1, <1>12 DEF ProcessChanges, dbVars, vars
<1> QED BY <1>3, <1>4, <1>5, <1>6, <1>7, <1>8, <1>9, <1>10, <1>11, <1>12 DEF Next

\* The shortcut of every edge points to its inverse exactly while the inverse is
\* in the database, whatever messages, timers and link changes add, revoke,
\* collect or expire edges: olsr_add_tc_edge_entry and olsr_delete_tc_edge_entry
\* keep both ends together, and the SPF run follows no pointer to a freed edge.
THEOREM InverseAlwaysExact == Spec => []InverseExact
<1>1. Init => NetOK /\ EdgesOK
  <2> SUFFICES ASSUME Init PROVE NetOK /\ EdgesOK
    OBVIOUS
  <2>1. NetOK
    BY DEF Init, NetOK
  <2>2. EdgesOK
    BY DEF Init, EdgesOK, PairExact
  <2> QED BY <2>1, <2>2
<1>2. NetOK /\ EdgesOK /\ [Next]_vars => NetOK' /\ EdgesOK'
  BY NetStep, PairsStep
<1> QED BY <1>1, <1>2, PairsAreExact, PTL DEF Spec

-----------------------------------------------------------------------------
(* Reference counters.                                                     *)

\* RefcountExact, one entry at a time.
Counted(o) ==
    /\ o \in tc_tree => refcount[o] = 1 + Cardinality(EdgeTree(o)) + Cardinality(prefix_tree[o])
    /\ o \notin tc_tree => refcount[o] = 0 /\ EdgeTree(o) = {} /\ prefix_tree[o] = {}

LocksOK ==
    /\ tc_tree \subseteq Nodes /\ myself \in tc_tree
    /\ prefix_tree \in [Nodes -> SUBSET (Nodes \cup Prefixes)]
    /\ refcount \in [Nodes -> Int]
    /\ \A o \in Nodes : Counted(o)

\* Edge trees and prefix trees are finite.
LEMMA FiniteTrees ==
    ASSUME NEW S \in SUBSET (Nodes \cup Prefixes)
    PROVE  IsFiniteSet(S) /\ Cardinality(S) \in Nat
<1>1. IsFiniteSet(Nodes \cup Prefixes)
  BY TcSetAssumption, FS_Union
<1>2. IsFiniteSet(S)
  BY <1>1, FS_Subset
<1> QED BY <1>2, FS_CardinalityType

\* Adding new and removing old elements changes the cardinality by their numbers.
LEMMA CountDelta ==
    ASSUME NEW S, NEW new, NEW gone, IsFiniteSet(S), IsFiniteSet(new),
           new \cap S = {}, gone \subseteq S
    PROVE  Cardinality((S \cup new) \ gone) = Cardinality(S) + Cardinality(new) - Cardinality(gone)
<1>1. IsFiniteSet(S \cup new)
      /\ Cardinality(S \cup new) = Cardinality(S) + Cardinality(new) - Cardinality(S \cap new)
  BY FS_Union
<1>2. S \cap new = {}
  OBVIOUS
<1>3. Cardinality(S \cap new) = 0
  BY <1>2, FS_EmptySet, Zenon
<1>4. Cardinality((S \cup new) \ gone) = Cardinality(S \cup new) - Cardinality((S \cup new) \cap gone)
  BY <1>1, FS_Difference
<1>5. Cardinality((S \cup new) \cap gone) = Cardinality(gone)
  <2>1. (S \cup new) \cap gone = gone
    OBVIOUS
  <2> QED BY <2>1, Zenon
<1>6. Cardinality(S) \in Nat /\ Cardinality(new) \in Nat
  BY FS_CardinalityType
<1>7. Cardinality(gone) \in Nat
  BY FS_Subset, FS_CardinalityType
<1> QED BY <1>1, <1>3, <1>4, <1>5, <1>6, <1>7

\* An entry that a step leaves alone stays counted.
LEMMA UntouchedCounted ==
    ASSUME NEW x, Counted(x), (x \in tc_tree') = (x \in tc_tree), refcount'[x] = refcount[x],
           prefix_tree'[x] = prefix_tree[x], EdgeTree(x)' = EdgeTree(x)
    PROVE  Counted(x)'
BY DEF Counted

\* Removing edges of an entry unlocks it as often.
LEMMA DropKeepsLocks ==
    ASSUME LocksOK, NEW o \in tc_tree, NEW gone \in SUBSET EdgeTree(o), DropEdges(o, gone),
           UNCHANGED <<tc_tree, prefix_tree>>
    PROVE  LocksOK'
<1>1. o \in Nodes
  BY DEF LocksOK
<1>2. EdgeTree(o)' = EdgeTree(o) \ gone
  BY <1>1 DEF DropEdges, EdgeTree
<1>3. ASSUME NEW x \in Nodes, x # o PROVE EdgeTree(x)' = EdgeTree(x)
  BY <1>3 DEF DropEdges, EdgeTree
<1>4. EdgeTree(o) \in SUBSET (Nodes \cup Prefixes)
  BY DEF EdgeTree
<1>5. gone \in SUBSET (Nodes \cup Prefixes)
  BY <1>4
<1>6. IsFiniteSet(EdgeTree(o)) /\ Cardinality(EdgeTree(o)) \in Nat /\ Cardinality(gone) \in Nat
  BY <1>4, <1>5, FiniteTrees
<1>7. Cardinality(EdgeTree(o) \cap gone) = Cardinality(gone)
  <2>1. EdgeTree(o) \cap gone = gone
    OBVIOUS
  <2> QED BY <2>1, Zenon
<1>8. Cardinality(EdgeTree(o)') = Cardinality(EdgeTree(o)) - Cardinality(gone)
  <2>1. Cardinality(EdgeTree(o) \ gone) = Cardinality(EdgeTree(o)) - Cardinality(EdgeTree(o) \cap gone)
    BY <1>6, FS_Difference
  <2> QED BY <1>2, <1>7, <2>1, Zenon
<1>9. refcount' = [refcount EXCEPT ![o] = refcount[o] - Cardinality(gone)]
  BY DEF DropEdges
<1>10. Cardinality(prefix_tree[o]) \in Nat
  BY <1>1, FiniteTrees DEF LocksOK
<1>11. Counted(o)'
  BY <1>1, <1>6, <1>8, <1>9, <1>10 DEF LocksOK, Counted
<1>12. ASSUME NEW x \in Nodes, x # o PROVE Counted(x)'
  BY <1>1, <1>3, <1>9, <1>12, UntouchedCounted DEF LocksOK
<1>13. refcount' \in [Nodes -> Int]
  BY <1>1, <1>6, <1>9 DEF LocksOK
<1> QED BY <1>11, <1>12, <1>13 DEF LocksOK

\* Deleting an entry releases its edges, its prefixes and the tree at once.
LEMMA DeleteEntryKeepsLocks ==
    ASSUME LocksOK, NEW o \in tc_tree, o # myself, olsr_delete_tc_entry(o)
    PROVE  LocksOK'
<1>1. o \in Nodes
  BY DEF LocksOK
<1>2. EdgeTree(o)' = {}
  BY <1>1 DEF olsr_delete_tc_entry, EdgeTree
<1>3. ASSUME NEW x \in Nodes, x # o PROVE EdgeTree(x)' = EdgeTree(x)
  BY <1>3 DEF olsr_delete_tc_entry, EdgeTree
<1>4. Cardinality(EdgeTree(o)) \in Nat /\ Cardinality(prefix_tree[o]) \in Nat
  <2>1. EdgeTree(o) \in SUBSET (Nodes \cup Prefixes)
    BY DEF EdgeTree
  <2>2. prefix_tree[o] \in SUBSET (Nodes \cup Prefixes)
    BY <1>1 DEF LocksOK
  <2> QED BY <2>1, <2>2, FiniteTrees
<1>5. /\ tc_tree' = tc_tree \ {o}
      /\ refcount' = [refcount EXCEPT ![o] =
                        refcount[o] - Cardinality(EdgeTree(o)) - Cardinality(prefix_tree[o]) - 1]
      /\ prefix_tree' = [prefix_tree EXCEPT ![o] = {}]
  BY DEF olsr_delete_tc_entry
<1>6. refcount'[o] = 0
  BY <1>1, <1>4, <1>5 DEF LocksOK, Counted
<1>7. Counted(o)'
  BY <1>1, <1>2, <1>5, <1>6 DEF LocksOK, Counted
<1>8. ASSUME NEW x \in Nodes, x # o PROVE Counted(x)'
  BY <1>1, <1>3, <1>5, <1>8, UntouchedCounted DEF LocksOK
<1>9. refcount' \in [Nodes -> Int]
  BY <1>1, <1>4, <1>5 DEF LocksOK
<1> QED BY <1>1, <1>5, <1>7, <1>8, <1>9 DEF LocksOK

\* Before a step, the locks olsr_add_tc_entry and the edges account for.
LEMMA LocksCount ==
    ASSUME LocksOK, NEW o \in Nodes
    PROVE  /\ Locks(o) = 1 + Cardinality(EdgeTree(o)) + Cardinality(PrefixesOf(o))
           /\ PrefixesOf(o) \in SUBSET (Nodes \cup Prefixes)
           /\ Cardinality(EdgeTree(o)) \in Nat /\ Cardinality(PrefixesOf(o)) \in Nat
<1>1. EdgeTree(o) \in SUBSET (Nodes \cup Prefixes) /\ PrefixesOf(o) \in SUBSET (Nodes \cup Prefixes)
  BY DEF EdgeTree, PrefixesOf, LocksOK
<1>2. Cardinality(EdgeTree(o)) \in Nat /\ Cardinality(PrefixesOf(o)) \in Nat
  BY <1>1, FiniteTrees
<1>3. CASE o \in tc_tree
  BY <1>1, <1>2, <1>3 DEF LocksOK, Counted, Locks, PrefixesOf
<1>4. CASE o \notin tc_tree
  <2>1. EdgeTree(o) = {} /\ PrefixesOf(o) = {o} /\ Locks(o) = 2
    BY <1>4 DEF LocksOK, Counted, Locks, PrefixesOf
  <2>2. Cardinality(EdgeTree(o)) = 0 /\ Cardinality(PrefixesOf(o)) = 1
    BY <2>1, FS_EmptySet, FS_Singleton
  <2> QED BY <1>1, <2>1, <2>2
<1> QED BY <1>3, <1>4

\* A believed message locks the entry for every new edge, unlocks it for every
\* revoked one.
LEMMA BelieveKeepsLocks ==
    ASSUME LocksOK, NEW o \in Nodes, NEW m \in TcMessages(o), BelieveTc(o, m)
    PROVE  LocksOK'
<1> DEFINE new == m.nbrs \ EdgeTree(o)
           gone == Revoked(o, m)
<1>1. m.nbrs \subseteq Nodes /\ AnsnOf(m) # NoEdge
  <2>1. AnsnOf(m) \in Nat
    BY AnsnNat
  <2> QED BY <2>1 DEF TcMessages, NoEdge
<1>2. gone \subseteq EdgeTree(o) \ m.nbrs
  BY DEF Revoked
<1>3. /\ edge' = [p \in Nodes \X Nodes |->
                   IF p[1] # o THEN edge[p]
                   ELSE IF p[2] \in m.nbrs THEN AnsnOf(m)
                   ELSE IF p[2] \in gone THEN NoEdge ELSE edge[p]]
      /\ tc_tree' = tc_tree \cup {o}
      /\ prefix_tree' = [prefix_tree EXCEPT ![o] = PrefixesOf(o)]
      /\ refcount' = [refcount EXCEPT ![o] = Locks(o) + Cardinality(new) - Cardinality(gone)]
  BY DEF BelieveTc
<1> HIDE DEF gone
<1>4. EdgeTree(o)' = (EdgeTree(o) \cup new) \ gone
  <2>1. \A d \in Nodes : edge'[<<o, d>>] = IF d \in m.nbrs THEN AnsnOf(m)
                                           ELSE IF d \in gone THEN NoEdge ELSE edge[<<o, d>>]
    BY <1>3
  <2> QED BY <1>1, <1>2, <2>1 DEF EdgeTree
<1>5. ASSUME NEW x \in Nodes, x # o PROVE EdgeTree(x)' = EdgeTree(x)
  BY <1>3, <1>5 DEF EdgeTree
<1>6. /\ EdgeTree(o) \in SUBSET (Nodes \cup Prefixes) /\ new \in SUBSET (Nodes \cup Prefixes)
      /\ gone \in SUBSET (Nodes \cup Prefixes)
  BY <1>1, <1>2 DEF EdgeTree
<1>7. /\ IsFiniteSet(EdgeTree(o)) /\ IsFiniteSet(new)
      /\ Cardinality(new) \in Nat /\ Cardinality(gone) \in Nat
  BY <1>6, FiniteTrees
<1>8. Cardinality(EdgeTree(o)') = Cardinality(EdgeTree(o)) + Cardinality(new) - Cardinality(gone)
  <2>1. new \cap EdgeTree(o) = {} /\ gone \subseteq EdgeTree(o)
    BY <1>2
  <2> HIDE DEF new
  <2> QED BY <1>4, <1>7, <2>1, CountDelta
<1> HIDE DEF new
<1>9. prefix_tree'[o] = PrefixesOf(o) /\ refcount'[o] = Locks(o) + Cardinality(new) - Cardinality(gone)
  BY <1>3 DEF LocksOK
<1>10. Counted(o)'
  BY <1>3, <1>7, <1>8, <1>9, LocksCount DEF Counted
<1>11. ASSUME NEW x \in Nodes, x # o PROVE Counted(x)'
  BY <1>3, <1>5, <1>11, UntouchedCounted DEF LocksOK
<1>12. refcount' \in [Nodes -> Int]
  BY <1>3, <1>7, LocksCount DEF LocksOK
<1>13. prefix_tree' \in [Nodes -> SUBSET (Nodes \cup Prefixes)]
  BY <1>3, LocksCount DEF LocksOK
<1> QED BY <1>3, <1>10, <1>11, <1>12, <1>13 DEF LocksOK

\* Hooking a prefix to an entry, or unhooking it, counts.
LEMMA PrefixKeepsLocks ==
    ASSUME LocksOK, NEW o \in Originators, NEW p \in Prefixes,
           olsr_insert_routing_table(o, p) \/ olsr_delete_routing_table(o, p)
    PROVE  LocksOK'
<1>1. o \in Nodes /\ p \notin Nodes
  BY TcSetAssumption
<1>2. \A x \in Nodes : EdgeTree(x)' = EdgeTree(x)
  BY DEF olsr_insert_routing_table, olsr_delete_routing_table, EdgeTree
<1>3. CASE olsr_insert_routing_table(o, p)
  <2>1. p \notin PrefixesOf(o)
    BY <1>1, <1>3 DEF olsr_insert_routing_table, PrefixesOf
  <2>2. /\ prefix_tree' = [prefix_tree EXCEPT ![o] = PrefixesOf(o) \cup {p}]
        /\ refcount' = [refcount EXCEPT ![o] = Locks(o) + 1]
        /\ tc_tree' = tc_tree \cup {o}
    BY <1>3 DEF olsr_insert_routing_table
  <2>3. IsFiniteSet(PrefixesOf(o))
    BY <1>1, LocksCount, FiniteTrees
  <2>4. Cardinality(PrefixesOf(o) \cup {p}) = Cardinality(PrefixesOf(o)) + 1
    BY <2>1, <2>3, FS_AddElement
  <2>5. prefix_tree'[o] = PrefixesOf(o) \cup {p} /\ refcount'[o] = Locks(o) + 1
    BY <1>1, <2>2 DEF LocksOK
  <2>6. Cardinality(prefix_tree'[o]) = Cardinality(PrefixesOf(o)) + 1
    BY <2>4, <2>5, Zenon
  <2>7. Counted(o)'
    BY <1>1, <1>2, <2>2, <2>5, <2>6, LocksCount DEF Counted
  <2>8. ASSUME NEW x \in Nodes, x # o PROVE Counted(x)'
    BY <1>1, <1>2, <2>2, <2>8, UntouchedCounted DEF LocksOK
  <2>9. refcount' \in [Nodes -> Int]
    BY <1>1, <2>2, LocksCount DEF LocksOK
  <2>10. prefix_tree' \in [Nodes -> SUBSET (Nodes \cup Prefixes)]
    BY <1>1, <2>2, LocksCount DEF LocksOK
  <2> QED BY <1>1, <2>2, <2>7, <2>8, <2>9, <2>10 DEF LocksOK
<1>4. CASE olsr_delete_routing_table(o, p)
  <2>1. /\ p \in prefix_tree[o]
        /\ prefix_tree' = [prefix_tree EXCEPT ![o] = prefix_tree[o] \ {p}]
        /\ refcount' = [refcount EXCEPT ![o] = refcount[o] - 1]
        /\ tc_tree' = tc_tree
    BY <1>4 DEF olsr_delete_routing_table
  <2>2. o \in tc_tree
    BY <1>1, <2>1 DEF LocksOK, Counted
  <2>3. IsFiniteSet(prefix_tree[o]) /\ Cardinality(prefix_tree[o]) \in Nat
    BY <1>1, FiniteTrees DEF LocksOK
  <2>4. Cardinality(prefix_tree[o] \ {p}) = Cardinality(prefix_tree[o]) - 1
    BY <2>1, <2>3, FS_RemoveElement
  <2>5. prefix_tree'[o] = prefix_tree[o] \ {p} /\ refcount'[o] = refcount[o] - 1
    BY <1>1, <2>1 DEF LocksOK
  <2>6. Cardinality(prefix_tree'[o]) = Cardinality(prefix_tree[o]) - 1
    BY <2>4, <2>5, Zenon
  <2>7. Cardinality(EdgeTree(o)) \in Nat /\ EdgeTree(o)' = EdgeTree(o)
    BY <1>1, <1>2, LocksCount
  <2>8. Counted(o)'
    BY <1>1, <2>1, <2>2, <2>3, <2>5, <2>6, <2>7 DEF LocksOK, Counted
  <2>9. ASSUME NEW x \in Nodes, x # o PROVE Counted(x)'
    BY <1>1, <1>2, <2>1, <2>9, UntouchedCounted DEF LocksOK
  <2>10. refcount' \in [Nodes -> Int]
    BY <1>1, <2>1 DEF LocksOK
  <2> QED BY <1>1, <2>1, <2>8, <2>9, <2>10 DEF LocksOK
<1> QED BY <1>3, <1>4

\* An edge of our own locks our entry.
LEMMA AddMyEdgeKeepsLocks ==
    ASSUME EdgesOK, LocksOK, NEW d \in Neighbors, AddMyEdge(d)
    PROVE  LocksOK'
<1>1. myself \in Nodes /\ d \in Nodes /\ 0 # NoEdge
  BY TcSetAssumption DEF NoEdge
<1>2. /\ edge[<<myself, d>>] = NoEdge /\ edge' = [edge EXCEPT ![<<myself, d>>] = 0]
      /\ refcount' = [refcount EXCEPT ![myself] = refcount[myself] + 1]
      /\ UNCHANGED <<tc_tree, prefix_tree>>
  BY DEF AddMyEdge
<1>3. EdgeTree(myself)' = EdgeTree(myself) \cup {d} /\ d \notin EdgeTree(myself)
  BY <1>1, <1>2 DEF EdgeTree, EdgesOK
<1>4. ASSUME NEW x \in Nodes, x # myself PROVE EdgeTree(x)' = EdgeTree(x)
  BY <1>1, <1>2, <1>4 DEF EdgeTree, EdgesOK
<1>5. EdgeTree(myself) \in SUBSET (Nodes \cup Prefixes)
  BY DEF EdgeTree
<1>6. IsFiniteSet(EdgeTree(myself)) /\ Cardinality(EdgeTree(myself)) \in Nat
  BY <1>5, FiniteTrees
<1>7. Cardinality(EdgeTree(myself) \cup {d}) = Cardinality(EdgeTree(myself)) + 1
  BY <1>3, <1>6, FS_AddElement
<1>8. Cardinality(EdgeTree(myself)') = Cardinality(EdgeTree(myself)) + 1
  BY <1>3, <1>7, Zenon
<1>9. Cardinality(prefix_tree[myself]) \in Nat
  BY <1>1, FiniteTrees DEF LocksOK
<1>10. Counted(myself)'
  BY <1>1, <1>2, <1>6, <1>8, <1>9 DEF LocksOK, Counted
<1>11. ASSUME NEW x \in Nodes, x # myself PROVE Counted(x)'
  BY <1>1, <1>2, <1>4, <1>11, UntouchedCounted DEF LocksOK
<1>12. refcount' \in [Nodes -> Int]
  BY <1>1, <1>2 DEF LocksOK
<1> QED BY <1>2, <1>10, <1>11, <1>12 DEF LocksOK

\* Every step keeps the counters exact.
LEMMA LocksStep ==
    ASSUME NetOK, EdgesOK, LocksOK, [Next]_vars
    PROVE  LocksOK'
<1>1. ASSUME UNCHANGED <<tc_tree, edge, prefix_tree, refcount>> PROVE LocksOK'
  BY <1>1 DEF LocksOK, Counted, EdgeTree
<1>2. Originators \subseteq Nodes \ {myself} /\ myself \in Nodes
  BY TcSetAssumption
<1>3. ASSUME NEW o \in Originators, NEW m \in InFlight(o), olsr_input_tc(o, m) PROVE LocksOK'
  <2>1. CASE IgnoreTc(o, m)
    BY <1>1, <2>1 DEF IgnoreTc
  <2>2. CASE BelieveTc(o, m)
    BY <1>2, <2>2, InFlightType, BelieveKeepsLocks
  <2>3. CASE BelieveFarewell(o, m)
    <3>1. CASE o \in tc_tree
      BY <1>2, <2>3, <3>1, DeleteEntryKeepsLocks DEF BelieveFarewell
    <3>2. CASE o \notin tc_tree
      BY <1>1, <2>3, <3>2 DEF BelieveFarewell, dbVars
    <3> QED BY <3>1, <3>2
  <2> QED BY <1>3, <2>1, <2>2, <2>3 DEF olsr_input_tc
<1>4. ASSUME NEW o \in Originators, olsr_expire_tc_entry(o) PROVE LocksOK'
  BY <1>2, <1>4, DeleteEntryKeepsLocks DEF olsr_expire_tc_entry
<1>5. ASSUME NEW o \in Originators, olsr_expire_tc_edge_gc(o) PROVE LocksOK'
  <2>1. Outdated(o) \in SUBSET EdgeTree(o)
    BY DEF Outdated
  <2> QED BY <1>5, <2>1, DropKeepsLocks DEF olsr_expire_tc_edge_gc
<1>6. ASSUME NEW d \in Neighbors, AddMyEdge(d) PROVE LocksOK'
  BY <1>6, AddMyEdgeKeepsLocks
<1>7. ASSUME NEW d \in Neighbors, DeleteMyEdge(d) PROVE LocksOK'
  <2>1. {d} \in SUBSET EdgeTree(myself)
    BY <1>7, TcSetAssumption DEF DeleteMyEdge, EdgeTree
  <2>2. myself \in tc_tree
    BY DEF LocksOK
  <2> QED BY <1>7, <2>1, <2>2, DropKeepsLocks DEF DeleteMyEdge
<1>8. ASSUME NEW o \in Originators, NEW p \in Prefixes,
             olsr_insert_routing_table(o, p) \/ olsr_delete_routing_table(o, p)
      PROVE  LocksOK'
  BY <1>8, PrefixKeepsLocks
<1>9. ASSUME NEW o \in Originators, NEW nbrs, NEW upper, SendTc(o, nbrs, upper) PROVE LocksOK'
  BY <1>1, <1>9 DEF SendTc, dbVars
<1>10. ASSUME NEW o \in Originators, NEW nbrs, NEW cut, SendTcParts(o, nbrs, cut) PROVE LocksOK'
  BY <1>1, <1>10 DEF SendTcParts, dbVars
<1>11. ASSUME NEW o \in Originators, NEW nbrs, RebootTc(o, nbrs) PROVE LocksOK'
  BY <1>1, <1>11 DEF RebootTc, dbVars
<1>12. ASSUME ProcessChanges \/ UNCHANGED vars PROVE LocksOK'
  BY <1>1, <1>12 DEF ProcessChanges, dbVars, vars
<1> QED BY <1>3, <1>4, <1>5, <1>6, <1>7, <1>8, <1>9, <1>10, <1>11, <1>12 DEF Next

\* The initial database holds our own entry with two locks.
LEMMA InitLocks == Init => NetOK /\ EdgesOK /\ LocksOK
<1> SUFFICES ASSUME Init PROVE NetOK /\ EdgesOK /\ LocksOK
  OBVIOUS
<1>1. NetOK
  BY DEF Init, NetOK
<1>2. EdgesOK
  BY DEF Init, EdgesOK, PairExact
<1>3. \A o \in Nodes : EdgeTree(o) = {}
  BY DEF Init, EdgeTree
<1>4. Cardinality({}) = 0 /\ Cardinality({myself}) = 1
  BY FS_EmptySet, FS_Singleton
<1>5. ASSUME NEW o \in Nodes PROVE Counted(o)
  <2>1. CASE o = myself
    <3>1. prefix_tree[o] = {myself} /\ refcount[o] = 2 /\ o \in tc_tree
      BY <2>1 DEF Init
    <3>2. Cardinality(prefix_tree[o]) = 1 /\ Cardinality(EdgeTree(o)) = 0
      BY <1>3, <1>4, <3>1, Zenon
    <3> QED BY <3>1, <3>2 DEF Counted
  <2>2. CASE o # myself
    BY <1>3, <2>2 DEF Init, Counted
  <2> QED BY <2>1, <2>2
<1>6. LocksOK
  BY <1>5, TcSetAssumption DEF Init, LocksOK
<1> QED BY <1>1, <1>2, <1>6

\* The reference counter of a tc entry is one for the tree plus its edges plus
\* its prefixes, and an entry outside the tree has none of them: between two
\* handlers olsr_unlock_tc_entry never frees an entry that an edge or a rt_path
\* still points to, and olsr_delete_tc_entry always releases the last lock.
THEOREM RefcountAlwaysExact == Spec => []RefcountExact
<1>1. NetOK /\ EdgesOK /\ LocksOK /\ [Next]_vars => NetOK' /\ EdgesOK' /\ LocksOK'
  BY NetStep, PairsStep, LocksStep
<1>2. LocksOK => RefcountExact
  BY DEF LocksOK, Counted, RefcountExact
<1> QED BY <1>1, <1>2, InitLocks, PTL DEF Spec

-----------------------------------------------------------------------------
(* Change flags.                                                           *)

\* An entry of the tree keeps the rt_path of its own address as long as it lives.
OwnPrefix == \A o \in tc_tree : o \in prefix_tree[o]

\* Every step keeps the own rt_path of the entries.
LEMMA OwnPrefixStep ==
    ASSUME LocksOK, OwnPrefix, [Next]_vars
    PROVE  OwnPrefix'
<1>1. ASSUME UNCHANGED <<tc_tree, prefix_tree>> PROVE OwnPrefix'
  BY <1>1 DEF OwnPrefix
<1>2. ASSUME NEW o \in Nodes, tc_tree' = tc_tree \cup {o},
             prefix_tree' = [prefix_tree EXCEPT ![o] = PrefixesOf(o)]
      PROVE  OwnPrefix'
  BY <1>2 DEF OwnPrefix, PrefixesOf, LocksOK
<1>3. ASSUME NEW o \in Nodes, olsr_delete_tc_entry(o) PROVE OwnPrefix'
  BY <1>3 DEF OwnPrefix, olsr_delete_tc_entry, LocksOK
<1>4. Originators \subseteq Nodes
  BY TcSetAssumption
<1>5. ASSUME NEW o \in Originators, NEW m \in InFlight(o), olsr_input_tc(o, m) PROVE OwnPrefix'
  <2>1. CASE IgnoreTc(o, m)
    BY <1>1, <2>1 DEF IgnoreTc
  <2>2. CASE BelieveTc(o, m)
    BY <1>2, <1>4, <2>2 DEF BelieveTc
  <2>3. CASE BelieveFarewell(o, m)
    BY <1>1, <1>3, <1>4, <2>3 DEF BelieveFarewell, dbVars
  <2> QED BY <1>5, <2>1, <2>2, <2>3 DEF olsr_input_tc
<1>6. ASSUME NEW o \in Originators, olsr_expire_tc_entry(o) PROVE OwnPrefix'
  BY <1>3, <1>4, <1>6 DEF olsr_expire_tc_entry
<1>7. ASSUME NEW o \in Originators, NEW p \in Prefixes, olsr_insert_routing_table(o, p) PROVE OwnPrefix'
  BY <1>4, <1>7 DEF olsr_insert_routing_table, OwnPrefix, PrefixesOf, LocksOK
<1>8. ASSUME NEW o \in Originators, NEW p \in Prefixes, olsr_delete_routing_table(o, p) PROVE OwnPrefix'
  BY <1>4, <1>8, TcSetAssumption DEF olsr_delete_routing_table, OwnPrefix, LocksOK
<1>9. ASSUME NEW o \in Originators, olsr_expire_tc_edge_gc(o) PROVE OwnPrefix'
  BY <1>1, <1>9 DEF olsr_expire_tc_edge_gc
<1>10. ASSUME NEW d \in Neighbors, AddMyEdge(d) \/ DeleteMyEdge(d) PROVE OwnPrefix'
  BY <1>1, <1>10 DEF AddMyEdge, DeleteMyEdge
<1>11. ASSUME NEW o \in Originators, NEW nbrs, NEW upper, SendTc(o, nbrs, upper) PROVE OwnPrefix'
  BY <1>1, <1>11 DEF SendTc, dbVars
<1>12. ASSUME NEW o \in Originators, NEW nbrs, NEW cut, SendTcParts(o, nbrs, cut) PROVE OwnPrefix'
  BY <1>1, <1>12 DEF SendTcParts, dbVars
<1>13. ASSUME NEW o \in Originators, NEW nbrs, RebootTc(o, nbrs) PROVE OwnPrefix'
  BY <1>1, <1>13 DEF RebootTc, dbVars
<1>14. ASSUME ProcessChanges \/ UNCHANGED vars PROVE OwnPrefix'
  BY <1>1, <1>14 DEF ProcessChanges, dbVars, vars
<1> QED BY <1>5, <1>6, <1>7, <1>8, <1>9, <1>10, <1>11, <1>12, <1>13, <1>14 DEF Next

EdgesFlagged ==
    \A o \in Originators : EdgeTree(o)' # EdgeTree(o) => changes_topology' \/ changes_hna'

\* A step that changes the edges of an originator leaves a flag behind.
LEMMA FlagStep ==
    ASSUME NetOK, LocksOK, OwnPrefix, [Next]_vars
    PROVE  EdgesFlagged
<1>1. ASSUME UNCHANGED edge PROVE EdgesFlagged
  BY <1>1 DEF EdgesFlagged, EdgeTree
<1>2. Originators \subseteq Nodes \ {myself} /\ myself \in Nodes
  BY TcSetAssumption
<1>3. ASSUME NEW o \in Nodes, NEW gone, DropEdges(o, gone), gone \subseteq EdgeTree(o),
             o = myself \/ gone = {} \/ changes_topology'
      PROVE  EdgesFlagged
  <2>1. ASSUME NEW x \in Originators, EdgeTree(x)' # EdgeTree(x) PROVE x = o /\ gone # {}
    BY <1>2, <1>3, <2>1 DEF DropEdges, EdgeTree
  <2> QED BY <1>2, <1>3, <2>1 DEF EdgesFlagged
<1>4. ASSUME NEW o \in tc_tree, olsr_delete_tc_entry(o) PROVE EdgesFlagged
  BY <1>4 DEF olsr_delete_tc_entry, OwnPrefix, EdgesFlagged
<1>5. ASSUME NEW o \in Originators, NEW m \in InFlight(o), olsr_input_tc(o, m) PROVE EdgesFlagged
  <2>1. CASE IgnoreTc(o, m)
    BY <1>1, <2>1 DEF IgnoreTc
  <2>2. CASE BelieveTc(o, m)
    <3> DEFINE new == m.nbrs \ EdgeTree(o)
               gone == Revoked(o, m)
    <3>1. CASE new # {} \/ gone # {}
      BY <2>2, <3>1 DEF BelieveTc, EdgesFlagged
    <3>2. CASE new = {} /\ gone = {}
      <4>1. m \in TcMessages(o)
        BY InFlightType
      <4>2. AnsnOf(m) \in Nat
        BY <4>1, AnsnNat
      <4>3. AnsnOf(m) # NoEdge /\ m.nbrs \subseteq EdgeTree(o)
        BY <3>2, <4>2 DEF NoEdge
      <4>4. \A x, d \in Nodes : edge'[<<x, d>>] = IF x = o /\ d \in m.nbrs THEN AnsnOf(m)
                                                  ELSE edge[<<x, d>>]
        BY <2>2, <3>2 DEF BelieveTc
      <4>5. \A x \in Nodes : EdgeTree(x)' = EdgeTree(x)
        BY <4>3, <4>4 DEF EdgeTree
      <4> QED BY <1>2, <4>5 DEF EdgesFlagged
    <3> QED BY <3>1, <3>2
  <2>3. CASE BelieveFarewell(o, m)
    <3>1. CASE o \in tc_tree
      BY <1>4, <2>3, <3>1 DEF BelieveFarewell
    <3>2. CASE o \notin tc_tree
      BY <1>1, <2>3, <3>2 DEF BelieveFarewell, dbVars
    <3> QED BY <3>1, <3>2
  <2> QED BY <1>5, <2>1, <2>2, <2>3 DEF olsr_input_tc
<1>6. ASSUME NEW o \in Originators, olsr_expire_tc_entry(o) PROVE EdgesFlagged
  BY <1>6 DEF olsr_expire_tc_entry, EdgesFlagged
<1>7. ASSUME NEW o \in Originators, olsr_expire_tc_edge_gc(o) PROVE EdgesFlagged
  <2>1. Outdated(o) \subseteq EdgeTree(o)
    BY DEF Outdated
  <2>2. Outdated(o) = {} \/ changes_topology'
    BY <1>7 DEF olsr_expire_tc_edge_gc
  <2> QED BY <1>2, <1>3, <1>7, <2>1, <2>2 DEF olsr_expire_tc_edge_gc
<1>8. ASSUME NEW d \in Neighbors, AddMyEdge(d) PROVE EdgesFlagged
  <2>1. \A x, y \in Nodes : x # myself => edge'[<<x, y>>] = edge[<<x, y>>]
    BY <1>8 DEF AddMyEdge
  <2>2. \A x \in Originators : EdgeTree(x)' = EdgeTree(x)
    BY <1>2, <2>1 DEF EdgeTree
  <2> QED BY <2>2 DEF EdgesFlagged
<1>9. ASSUME NEW d \in Neighbors, DeleteMyEdge(d) PROVE EdgesFlagged
  <2>1. {d} \subseteq EdgeTree(myself)
    BY <1>9, TcSetAssumption DEF DeleteMyEdge, EdgeTree
  <2> QED BY <1>2, <1>3, <1>9, <2>1 DEF DeleteMyEdge
<1>10. ASSUME NEW o \in Originators, NEW p \in Prefixes,
              olsr_insert_routing_table(o, p) \/ olsr_delete_routing_table(o, p)
       PROVE  EdgesFlagged
  BY <1>1, <1>10 DEF olsr_insert_routing_table, olsr_delete_routing_table
<1>11. ASSUME NEW o \in Originators, NEW nbrs, NEW upper, SendTc(o, nbrs, upper) PROVE EdgesFlagged
  BY <1>1, <1>11 DEF SendTc, dbVars
<1>12. ASSUME NEW o \in Originators, NEW nbrs, NEW cut, SendTcParts(o, nbrs, cut) PROVE EdgesFlagged
  BY <1>1, <1>12 DEF SendTcParts, dbVars
<1>13. ASSUME NEW o \in Originators, NEW nbrs, RebootTc(o, nbrs) PROVE EdgesFlagged
  BY <1>1, <1>13 DEF RebootTc, dbVars
<1>14. ASSUME ProcessChanges \/ UNCHANGED vars PROVE EdgesFlagged
  BY <1>1, <1>14 DEF ProcessChanges, dbVars, vars
<1> QED BY <1>5, <1>6, <1>7, <1>8, <1>9, <1>10, <1>11, <1>12, <1>13, <1>14 DEF Next

\* No edge of another router enters or leaves the database through a TC message,
\* a timer or a deletion without a flag that makes olsr_process_changes run the
\* SPF.  A deleted entry relies on its own rt_path: unhooking that one sets the
\* flag for entries whose edges a farewell does not revoke.
THEOREM ChangesAlwaysFlagged == Spec => ChangesFlagged
<1>1. Init => OwnPrefix
  BY TcSetAssumption DEF Init, OwnPrefix
<1>2. NetOK /\ EdgesOK /\ LocksOK /\ OwnPrefix /\ [Next]_vars
        => NetOK' /\ EdgesOK' /\ LocksOK' /\ OwnPrefix'
  BY NetStep, PairsStep, LocksStep, OwnPrefixStep
<1>3. NetOK /\ LocksOK /\ OwnPrefix /\ [Next]_vars => [EdgesFlagged]_vars
  BY FlagStep
<1>4. Spec => [][EdgesFlagged]_vars
  BY <1>1, <1>2, <1>3, InitLocks, PTL DEF Spec
<1> QED BY <1>4 DEF ChangesFlagged, EdgesFlagged


(* Types, and which messages are believed.                                *)

\* What TypeOK says beyond EdgesOK and LocksOK, and the domains of the rest.
RecordsOK ==
    /\ tc \in [Nodes -> TcRecord]
    /\ edge \in [Nodes \X Nodes -> SeqNumbers \cup {NoEdge}]
    /\ changes_topology \in BOOLEAN /\ changes_hna \in BOOLEAN
    /\ DOMAIN view = Originators /\ DOMAIN skipped = Originators /\ DOMAIN advertised = Originators
    /\ sent \in [Originators -> Nat] /\ boots \in [Originators -> Nat]

LEMMA SeqFacts ==
    /\ SEQ_MOD \in Nat /\ SEQ_MOD > 3 /\ HALF \in Nat /\ SEQ_MOD = 2 * HALF
    /\ \A n \in Int : n % SEQ_MOD \in SeqNumbers
    /\ 0 \in SeqNumbers /\ SeqNumbers \subseteq Nat
<1>1. SEQ_MOD \in Nat /\ SEQ_MOD > 3 /\ HALF \in Nat /\ SEQ_MOD = 2 * HALF
  BY SeqModAssumption DEF HALF
<1>2. \A n \in Int : n % SEQ_MOD \in SeqNumbers
  BY <1>1, ModRange DEF SeqNumbers
<1>3. 0 \in SeqNumbers /\ SeqNumbers \subseteq Nat
  BY <1>1 DEF SeqNumbers
<1> QED BY <1>1, <1>2, <1>3

LEMMA NumbersType ==
    ASSUME NEW o, NEW m \in TcMessages(o)
    PROVE  SeqOf(m) \in SeqNumbers /\ AnsnOf(m) \in SeqNumbers
<1>1. m.seq \in Int /\ m.ansn \in Int
  BY DEF TcMessages
<1> QED BY <1>1, SeqFacts DEF SeqOf, AnsnOf

LEMMA BlankTcType == BlankTc \in TcRecord
<1>1. 0 \in SeqNumbers /\ 0 \in 0 .. MAX_IGNORED
  BY SeqFacts, TcSetAssumption
<1> QED BY <1>1 DEF BlankTc, TcRecord

\* The emergency brake bounds the counter of ignored messages.
LEMMA IgnoredType ==
    ASSUME NEW o \in Originators, NEW m \in TcMessages(o), RecordsOK, Ignores(o, m)
    PROVE  AfterIgnored(tc[o], m) \in TcRecord
<1>1. tc[o] \in TcRecord /\ MAX_IGNORED \in Nat
  BY TcSetAssumption DEF RecordsOK
<1>2. SeqOf(m) \in SeqNumbers
  BY NumbersType
<1> DEFINE t == tc[o]
<1>3. CASE AlreadySeen(t, m) /\ t.msg_seq = SeqOf(m)
  BY <1>1, <1>3 DEF AfterIgnored
<1>4. CASE AlreadySeen(t, m) /\ t.msg_seq # SeqOf(m)
  <2>1. t.ignored < MAX_IGNORED
    BY <1>4 DEF Ignores
  <2>2. t.ignored + 1 \in 0 .. MAX_IGNORED
    BY <1>1, <2>1 DEF TcRecord
  <2>3. AfterIgnored(t, m) = [t EXCEPT !.ignored = @ + 1]
    BY <1>4 DEF AfterIgnored
  <2> QED BY <1>1, <2>2, <2>3 DEF TcRecord
<1>5. CASE ~AlreadySeen(t, m)
  <2>1. AfterIgnored(t, m) = [t EXCEPT !.err_seq = SeqOf(m), !.err_seq_valid = TRUE]
    BY <1>5 DEF AfterIgnored
  <2> QED BY <1>1, <1>2, <2>1 DEF TcRecord
<1> QED BY <1>3, <1>4, <1>5

LEMMA BelievedType ==
    ASSUME NEW o, NEW m \in TcMessages(o), NEW t \in TcRecord
    PROVE  /\ AfterBelieved(t, m) \in TcRecord
           /\ AfterBelieved(t, m).msg_seq = SeqOf(m) /\ AfterBelieved(t, m).ansn = AnsnOf(m)
           /\ ~Bordered(m) => AfterBelieved(t, m).edge_gc_timer
<1>1. SeqOf(m) \in SeqNumbers /\ AnsnOf(m) \in SeqNumbers /\ 0 \in 0 .. MAX_IGNORED
  BY NumbersType, TcSetAssumption
<1>2. Bordered(m) \in BOOLEAN
  BY DEF Bordered
<1> QED BY <1>1, <1>2 DEF AfterBelieved, TcRecord

\* Each step keeps the types.
LEMMA RecordsStep == ASSUME NetOK, EdgesOK, RecordsOK, [Next]_vars PROVE RecordsOK'
<1>1. Originators \subseteq Nodes /\ myself \in Nodes /\ Neighbors \subseteq Nodes
  BY TcSetAssumption
<1>2. ASSUME NEW o \in Originators, NEW nbrs, NEW msgs, NEW S, msgs \in Seq(S), Flood(o, nbrs, msgs),
             UNCHANGED <<tc, edge, changes_topology, changes_hna, view, skipped>>,
             boots' \in [Originators -> Nat]
      PROVE  RecordsOK'
  <2>1. Len(msgs) \in Nat
    BY <1>2
  <2>2. sent' = [sent EXCEPT ![o] = @ + Len(msgs)] /\ advertised' = [advertised EXCEPT ![o] = nbrs]
    BY <1>2 DEF Flood
  <2>3. sent' \in [Originators -> Nat]
    BY <2>1, <2>2 DEF RecordsOK
  <2> QED BY <1>2, <2>2, <2>3 DEF RecordsOK
<1>3. ASSUME NEW o \in Originators, NEW nbrs \in NeighborSets(o), NEW upper, SendTc(o, nbrs, upper)
      PROVE  RecordsOK'
  <2>1. PICK n : Flood(o, nbrs, <<[seq |-> n[1], ansn |-> n[2], nbrs |-> nbrs, lower |-> 0, upper |-> upper]>>)
    BY <1>3 DEF SendTc
  <2> DEFINE m == [seq |-> n[1], ansn |-> n[2], nbrs |-> nbrs, lower |-> 0, upper |-> upper]
  <2>2. <<m>> \in Seq({m})
    OBVIOUS
  <2>3. UNCHANGED <<tc, edge, changes_topology, changes_hna, view, skipped, boots>>
    BY <1>3 DEF SendTc, dbVars, flagVars
  <2>4. boots' \in [Originators -> Nat]
    BY <2>3 DEF RecordsOK
  <2> QED BY <1>2, <2>1, <2>2, <2>3, <2>4
<1>4. ASSUME NEW o \in Originators, NEW nbrs \in NeighborSets(o), NEW cut, SendTcParts(o, nbrs, cut)
      PROVE  RecordsOK'
  <2>1. PICK a, b : Flood(o, nbrs, <<a, b>>)
    BY <1>4 DEF SendTcParts
  <2>2. <<a, b>> \in Seq({a, b})
    OBVIOUS
  <2>3. UNCHANGED <<tc, edge, changes_topology, changes_hna, view, skipped, boots>>
    BY <1>4 DEF SendTcParts, dbVars, flagVars
  <2>4. boots' \in [Originators -> Nat]
    BY <2>3 DEF RecordsOK
  <2> QED BY <1>2, <2>1, <2>2, <2>3, <2>4
<1>5. ASSUME NEW o \in Originators, NEW nbrs \in NeighborSets(o), RebootTc(o, nbrs)
      PROVE  RecordsOK'
  <2>1. PICK a : Flood(o, nbrs, <<a>>)
    BY <1>5 DEF RebootTc
  <2>2. <<a>> \in Seq({a})
    OBVIOUS
  <2>3. UNCHANGED <<tc, edge, changes_topology, changes_hna, view, skipped>>
    BY <1>5 DEF RebootTc, dbVars, flagVars
  <2>4. boots' \in [Originators -> Nat]
    BY <1>5 DEF RebootTc, RecordsOK
  <2> QED BY <1>2, <2>1, <2>2, <2>3, <2>4
<1>6. ASSUME NEW o \in Originators, NEW m \in InFlight(o), IgnoreTc(o, m)
      PROVE  RecordsOK'
  <2>1. m \in TcMessages(o)
    BY InFlightType
  <2>2. AfterIgnored(tc[o], m) \in TcRecord
    BY <1>6, <2>1, IgnoredType DEF IgnoreTc
  <2>3. /\ tc' = [tc EXCEPT ![o] = AfterIgnored(tc[o], m)]
        /\ UNCHANGED <<edge, changes_topology, changes_hna, view, advertised, sent, boots>>
        /\ DOMAIN skipped' = DOMAIN skipped
    BY <1>6 DEF IgnoreTc, flagVars, envVars
  <2>4. tc' \in [Nodes -> TcRecord]
    BY <1>1, <2>2, <2>3 DEF RecordsOK
  <2> QED BY <2>3, <2>4 DEF RecordsOK
<1>7. ASSUME NEW o \in Originators, NEW m \in InFlight(o), BelieveTc(o, m)
      PROVE  RecordsOK'
  <2>1. m \in TcMessages(o)
    BY InFlightType
  <2>2. AnsnOf(m) \in SeqNumbers /\ AfterBelieved(tc[o], m) \in TcRecord
    BY <1>1, <2>1, NumbersType, BelievedType DEF RecordsOK
  <2>3. /\ tc' = [tc EXCEPT ![o] = AfterBelieved(tc[o], m)]
        /\ edge' = [p \in Nodes \X Nodes |->
                      IF p[1] # o THEN edge[p]
                      ELSE IF p[2] \in m.nbrs THEN AnsnOf(m)
                      ELSE IF p[2] \in Revoked(o, m) THEN NoEdge ELSE edge[p]]
        /\ UNCHANGED <<advertised, sent, boots>>
        /\ DOMAIN view' = DOMAIN view /\ DOMAIN skipped' = DOMAIN skipped
    BY <1>7 DEF BelieveTc, envVars
  <2>4. changes_topology' \in BOOLEAN /\ changes_hna' \in BOOLEAN
    BY <1>7 DEF BelieveTc
  <2>5. tc' \in [Nodes -> TcRecord]
    BY <1>1, <2>2, <2>3 DEF RecordsOK
  <2>6. edge' \in [Nodes \X Nodes -> SeqNumbers \cup {NoEdge}]
    BY <2>2, <2>3 DEF RecordsOK
  <2> QED BY <2>3, <2>4, <2>5, <2>6 DEF RecordsOK
<1>8. ASSUME NEW o \in Originators, olsr_delete_tc_entry(o)
      PROVE  /\ tc' \in [Nodes -> TcRecord] /\ changes_hna' \in BOOLEAN
             /\ edge' \in [Nodes \X Nodes -> SeqNumbers \cup {NoEdge}]
  BY <1>1, <1>8, BlankTcType DEF olsr_delete_tc_entry, RecordsOK
<1>9. ASSUME NEW o \in Originators, NEW m \in InFlight(o), BelieveFarewell(o, m)
      PROVE  RecordsOK'
  <2>1. /\ UNCHANGED <<advertised, sent, boots>>
        /\ DOMAIN view' = DOMAIN view /\ DOMAIN skipped' = DOMAIN skipped
        /\ changes_topology' \in BOOLEAN
    BY <1>9 DEF BelieveFarewell, envVars
  <2>2. CASE o \in tc_tree
    BY <1>8, <1>9, <2>1, <2>2 DEF BelieveFarewell, RecordsOK
  <2>3. CASE o \notin tc_tree
    BY <1>9, <2>1, <2>3 DEF BelieveFarewell, RecordsOK, dbVars
  <2> QED BY <2>2, <2>3
<1>10. ASSUME NEW o \in Originators, olsr_expire_tc_entry(o)
       PROVE  RecordsOK'
  BY <1>8, <1>10 DEF olsr_expire_tc_entry, RecordsOK, envVars
<1>11. ASSUME NEW o \in Nodes, NEW gone, DropEdges(o, gone)
       PROVE  edge' \in [Nodes \X Nodes -> SeqNumbers \cup {NoEdge}]
  BY <1>11 DEF DropEdges, RecordsOK
<1>12. ASSUME NEW o \in Originators, olsr_expire_tc_edge_gc(o)
       PROVE  RecordsOK'
  <2>1. edge' \in [Nodes \X Nodes -> SeqNumbers \cup {NoEdge}]
    BY <1>1, <1>11, <1>12 DEF olsr_expire_tc_edge_gc
  <2>2. tc' \in [Nodes -> TcRecord]
    BY <1>1, <1>12 DEF olsr_expire_tc_edge_gc, RecordsOK, TcRecord
  <2>3. changes_topology' \in BOOLEAN /\ UNCHANGED <<changes_hna, advertised, sent, boots, view, skipped>>
    BY <1>12 DEF olsr_expire_tc_edge_gc, envVars
  <2> QED BY <2>1, <2>2, <2>3 DEF RecordsOK
<1>13. ASSUME NEW o \in Originators, NEW p \in Prefixes,
              olsr_insert_routing_table(o, p) \/ olsr_delete_routing_table(o, p)
       PROVE  RecordsOK'
  BY <1>13 DEF olsr_insert_routing_table, olsr_delete_routing_table, RecordsOK, envVars
<1>14. ASSUME NEW d \in Neighbors, AddMyEdge(d) PROVE RecordsOK'
  <2>1. edge' \in [Nodes \X Nodes -> SeqNumbers \cup {NoEdge}]
    BY <1>1, <1>14, SeqFacts DEF AddMyEdge, RecordsOK
  <2> QED BY <1>14, <2>1 DEF AddMyEdge, RecordsOK, envVars, flagVars
<1>15. ASSUME NEW d \in Neighbors, DeleteMyEdge(d) PROVE RecordsOK'
  <2>1. edge' \in [Nodes \X Nodes -> SeqNumbers \cup {NoEdge}]
    BY <1>1, <1>11, <1>15 DEF DeleteMyEdge
  <2> QED BY <1>15, <2>1 DEF DeleteMyEdge, RecordsOK, envVars, flagVars
<1>16. ASSUME ProcessChanges \/ UNCHANGED vars PROVE RecordsOK'
  BY <1>16 DEF ProcessChanges, dbVars, envVars, vars, RecordsOK
<1> QED BY <1>3, <1>4, <1>5, <1>6, <1>7, <1>9, <1>10, <1>12, <1>13, <1>14, <1>15, <1>16
        DEF Next, olsr_input_tc

LEMMA RecordsInit == Init => RecordsOK
<1> SUFFICES ASSUME Init PROVE RecordsOK
  OBVIOUS
<1>1. tc \in [Nodes -> TcRecord]
  BY BlankTcType DEF Init
<1> QED BY <1>1 DEF Init, RecordsOK

\* The database keeps its types, and the uint16_t counter of ignored messages is
\* bounded by the emergency brake, for every set of routers and every window.
THEOREM DatabaseTypes == Spec => []TypeOK
<1>1. NetOK /\ EdgesOK /\ LocksOK /\ RecordsOK /\ [Next]_vars
        => NetOK' /\ EdgesOK' /\ LocksOK' /\ RecordsOK'
  BY NetStep, PairsStep, LocksStep, RecordsStep
<1>2. EdgesOK /\ LocksOK /\ RecordsOK => TypeOK
  BY DEF EdgesOK, LocksOK, RecordsOK, TypeOK
<1> QED BY <1>1, <1>2, InitLocks, RecordsInit, PTL DEF Spec

-----------------------------------------------------------------------------
(* What a step does to one originator.                                     *)

\* The network and the router o have not moved.
EnvSame(o) ==
    /\ net'[o] = net[o] /\ advertised'[o] = advertised[o]
    /\ sent'[o] = sent[o] /\ boots'[o] = boots[o]

\* The entry of o and its edges are as before.
RowSame(o) ==
    /\ tc'[o] = tc[o] /\ view'[o] = view[o] /\ skipped'[o] = skipped[o]
    /\ \A d \in Nodes : edge'[<<o, d>>] = edge[<<o, d>>]
    /\ o \in tc_tree => o \in tc_tree'

\* o sends one or two messages, and everybody else rests.
Sends(o) ==
    \E nbrs \in NeighborSets(o) :
        \/ \E upper \in {0, MaxAddr + 1} : SendTc(o, nbrs, upper)
        \/ \E cut \in Nodes : SendTcParts(o, nbrs, cut)
        \/ RebootTc(o, nbrs)

\* The entry of o is forgotten with all its edges.
Forgets(o) ==
    /\ EnvSame(o) /\ view'[o] = NoMsg
    /\ \A d \in Nodes : edge'[<<o, d>>] = NoEdge
    /\ skipped'[o] \in {skipped[o], {}}

\* What a step may do to originator o.
StepOf(o) ==
    \/ RowSame(o) /\ EnvSame(o)
    \/ RowSame(o) /\ Sends(o)
    \/ \E m \in InFlight(o) : IgnoreTc(o, m) \/ BelieveTc(o, m)
    \/ Forgets(o)
    \/ olsr_expire_tc_edge_gc(o)

LEMMA DeletedRow ==
    ASSUME RecordsOK, EdgesOK, NEW c \in Nodes, olsr_delete_tc_entry(c), NEW o \in Nodes
    PROVE  /\ o # c => tc'[o] = tc[o] /\ (o \in tc_tree => o \in tc_tree')
                       /\ \A d \in Nodes : edge'[<<o, d>>] = edge[<<o, d>>]
           /\ \A d \in Nodes : edge'[<<c, d>>] = NoEdge
BY DEF olsr_delete_tc_entry, RecordsOK

LEMMA DroppedRow ==
    ASSUME EdgesOK, NEW c \in Nodes, NEW gone, DropEdges(c, gone), NEW o \in Nodes
    PROVE  /\ o # c => \A d \in Nodes : edge'[<<o, d>>] = edge[<<o, d>>]
           /\ \A d \in Nodes : edge'[<<c, d>>] = IF d \in gone THEN NoEdge ELSE edge[<<c, d>>]
BY DEF DropEdges

\* A message that arrives concerns its originator only.
LEMMA InputOf ==
    ASSUME NetOK, EdgesOK, LocksOK, RecordsOK, NEW c \in Originators, NEW m \in InFlight(c),
           olsr_input_tc(c, m), NEW o \in Originators
    PROVE  StepOf(o)
<1>1. o \in Nodes /\ c \in Nodes
  BY TcSetAssumption
<1>2. EnvSame(o)
  BY DEF olsr_input_tc, IgnoreTc, BelieveTc, BelieveFarewell, envVars, EnvSame
<1>3. CASE IgnoreTc(c, m)
  <2>1. CASE o = c
    BY <1>3, <2>1 DEF StepOf
  <2>2. CASE o # c
    BY <1>1, <1>2, <1>3, <2>2 DEF IgnoreTc, RecordsOK, RowSame, StepOf
  <2> QED BY <2>1, <2>2
<1>4. CASE BelieveTc(c, m)
  <2>1. CASE o = c
    BY <1>4, <2>1 DEF StepOf
  <2>2. CASE o # c
    <3>1. \A d \in Nodes : edge'[<<o, d>>] = edge[<<o, d>>]
      BY <1>1, <1>4, <2>2 DEF BelieveTc
    <3>2. tc'[o] = tc[o] /\ view'[o] = view[o] /\ skipped'[o] = skipped[o]
      BY <1>1, <1>4, <2>2 DEF BelieveTc, RecordsOK
    <3>3. o \in tc_tree => o \in tc_tree'
      BY <1>4 DEF BelieveTc
    <3> QED BY <1>2, <3>1, <3>2, <3>3 DEF RowSame, StepOf
  <2> QED BY <2>1, <2>2
<1>5. CASE BelieveFarewell(c, m)
  <2>1. view' = [view EXCEPT ![c] = NoMsg] /\ skipped' = [skipped EXCEPT ![c] = {}]
    BY <1>5 DEF BelieveFarewell
  <2>2. CASE c \in tc_tree
    <3>1. olsr_delete_tc_entry(c)
      BY <1>5, <2>2 DEF BelieveFarewell
    <3>2. CASE o = c
      <4>1. \A d \in Nodes : edge'[<<o, d>>] = NoEdge
        BY <1>1, <3>1, <3>2, DeletedRow
      <4> QED BY <1>2, <2>1, <3>2, <4>1 DEF StepOf, Forgets, RecordsOK
    <3>3. CASE o # c
      <4>1. /\ tc'[o] = tc[o] /\ (o \in tc_tree => o \in tc_tree')
            /\ \A d \in Nodes : edge'[<<o, d>>] = edge[<<o, d>>]
        BY <1>1, <3>1, <3>3, DeletedRow
      <4> QED BY <1>2, <2>1, <3>3, <4>1 DEF StepOf, RowSame, RecordsOK
    <3> QED BY <3>2, <3>3
  <2>3. CASE c \notin tc_tree
    <3>1. UNCHANGED <<tc_tree, tc, edge>>
      BY <1>5, <2>3 DEF BelieveFarewell, dbVars
    <3>2. CASE o = c
      <4>1. EdgeTree(o) = {}
        BY <1>1, <2>3, <3>2 DEF LocksOK, Counted
      <4>2. \A d \in Nodes : edge'[<<o, d>>] = NoEdge
        BY <3>1, <4>1 DEF EdgeTree
      <4> QED BY <1>2, <2>1, <3>2, <4>2 DEF StepOf, Forgets, RecordsOK
    <3>3. CASE o # c
      BY <1>2, <2>1, <3>1, <3>3 DEF StepOf, RowSame, RecordsOK
    <3> QED BY <3>2, <3>3
  <2> QED BY <2>2, <2>3
<1> QED BY <1>3, <1>4, <1>5 DEF olsr_input_tc

\* The database step by step, seen from one originator.
LEMMA StepCases ==
    ASSUME NetOK, EdgesOK, LocksOK, RecordsOK, [Next]_vars, NEW o \in Originators
    PROVE  StepOf(o)
<1>1. Originators \subseteq Nodes /\ o \in Nodes /\ myself \in Nodes /\ myself # o
  BY TcSetAssumption
<1>2. ASSUME NEW c \in Originators, Sends(c) PROVE StepOf(o)
  <2>1. UNCHANGED <<tc_tree, tc, edge, view, skipped>>
    BY <1>2 DEF Sends, SendTc, SendTcParts, RebootTc, dbVars
  <2>2. RowSame(o)
    BY <2>1 DEF RowSame
  <2>3. CASE o = c
    BY <1>2, <2>2, <2>3 DEF StepOf
  <2>4. CASE o # c
    <3>1. /\ net' = [net EXCEPT ![c] = net'[c]] /\ sent' = [sent EXCEPT ![c] = sent'[c]]
          /\ advertised' = [advertised EXCEPT ![c] = advertised'[c]]
          /\ boots' = boots \/ boots' = [boots EXCEPT ![c] = boots'[c]]
      <4>1. PICK nbrs, msgs : Flood(c, nbrs, msgs)
        BY <1>2 DEF Sends, SendTc, SendTcParts, RebootTc
      <4>2. boots' = boots \/ boots' = [boots EXCEPT ![c] = @ + 1]
        BY <1>2 DEF Sends, SendTc, SendTcParts, RebootTc
      <4>3. boots' = boots \/ boots' = [boots EXCEPT ![c] = boots'[c]]
        BY <4>2 DEF RecordsOK
      <4> QED BY <4>1, <4>3 DEF Flood, RecordsOK, NetOK
    <3>2. EnvSame(o)
      BY <2>4, <3>1 DEF EnvSame, RecordsOK, NetOK
    <3> QED BY <2>2, <3>2 DEF StepOf
  <2> QED BY <2>3, <2>4
<1>3. ASSUME NEW c \in Originators, NEW m \in InFlight(c), olsr_input_tc(c, m) PROVE StepOf(o)
  BY <1>3, InputOf
<1>4. ASSUME NEW c \in Originators, olsr_expire_tc_entry(c) PROVE StepOf(o)
  <2>1. EnvSame(o) /\ skipped' = skipped /\ view' = [view EXCEPT ![c] = NoMsg] /\ olsr_delete_tc_entry(c)
    BY <1>4 DEF olsr_expire_tc_entry, envVars, EnvSame
  <2>2. /\ o # c => tc'[o] = tc[o] /\ (o \in tc_tree => o \in tc_tree')
                     /\ \A d \in Nodes : edge'[<<o, d>>] = edge[<<o, d>>]
        /\ \A d \in Nodes : edge'[<<c, d>>] = NoEdge
    BY <1>1, <2>1, DeletedRow
  <2>3. CASE o = c
    BY <2>1, <2>2, <2>3 DEF StepOf, Forgets, RecordsOK
  <2>4. CASE o # c
    BY <2>1, <2>2, <2>4 DEF StepOf, RowSame, RecordsOK
  <2> QED BY <2>3, <2>4
<1>5. ASSUME NEW c \in Originators, olsr_expire_tc_edge_gc(c) PROVE StepOf(o)
  <2>1. CASE o = c
    BY <1>5, <2>1 DEF StepOf
  <2>2. CASE o # c
    <3>1. /\ EnvSame(o) /\ UNCHANGED <<view, skipped, tc_tree>>
          /\ tc' = [tc EXCEPT ![c].edge_gc_timer = FALSE] /\ DropEdges(c, Outdated(c))
      BY <1>5 DEF olsr_expire_tc_edge_gc, envVars, EnvSame
    <3>2. \A d \in Nodes : edge'[<<o, d>>] = edge[<<o, d>>]
      BY <1>1, <2>2, <3>1, DroppedRow
    <3>3. tc'[o] = tc[o]
      BY <2>2, <3>1
    <3> QED BY <3>1, <3>2, <3>3 DEF StepOf, RowSame
  <2> QED BY <2>1, <2>2
<1>6. ASSUME UNCHANGED <<tc, view, skipped, net, advertised, sent, boots>>, tc_tree \subseteq tc_tree',
             \A d \in Nodes : edge'[<<o, d>>] = edge[<<o, d>>]
      PROVE  StepOf(o)
  BY <1>6 DEF StepOf, RowSame, EnvSame
<1>7. ASSUME NEW c \in Originators, NEW p \in Prefixes,
             olsr_insert_routing_table(c, p) \/ olsr_delete_routing_table(c, p)
      PROVE  StepOf(o)
  BY <1>6, <1>7 DEF olsr_insert_routing_table, olsr_delete_routing_table, envVars
<1>8. ASSUME NEW d \in Neighbors, AddMyEdge(d) PROVE StepOf(o)
  <2>1. UNCHANGED <<tc_tree, tc, view, skipped, net, advertised, sent, boots>>
    BY <1>8 DEF AddMyEdge, envVars
  <2>2. \A e \in Nodes : edge'[<<o, e>>] = edge[<<o, e>>]
    BY <1>1, <1>8 DEF AddMyEdge, EdgesOK
  <2> QED BY <1>6, <2>1, <2>2
<1>9. ASSUME NEW d \in Neighbors, DeleteMyEdge(d) PROVE StepOf(o)
  <2>1. UNCHANGED <<tc_tree, tc, view, skipped, net, advertised, sent, boots>> /\ DropEdges(myself, {d})
    BY <1>9 DEF DeleteMyEdge, envVars
  <2>2. \A e \in Nodes : edge'[<<o, e>>] = edge[<<o, e>>]
    BY <1>1, <2>1, DroppedRow
  <2> QED BY <1>6, <2>1, <2>2
<1>10. ASSUME ProcessChanges \/ UNCHANGED vars PROVE StepOf(o)
  BY <1>6, <1>10 DEF ProcessChanges, dbVars, envVars, vars
<1> QED BY <1>2, <1>3, <1>4, <1>5, <1>7, <1>8, <1>9, <1>10 DEF Next, Sends

-----------------------------------------------------------------------------
(* What a sent message does to the network.                                *)

\* The messages of o that are travelling are some of q.
LEMMA LastOfFacts ==
    ASSUME NEW S, NEW q \in Seq(S), q # <<>>
    PROVE  /\ LastOf(q) \in Seq(S) /\ LastOf(q) # <<>>
           /\ LastOf(q)[Len(LastOf(q))] = q[Len(q)]
           /\ \A i \in 1 .. Len(LastOf(q)) : \E j \in 1 .. Len(q) : LastOf(q)[i] = q[j]
<1>1. Len(q) \in Nat \ {0} /\ IN_FLIGHT \in Nat \ {0}
  BY TcSetAssumption, EmptySeq
<1>2. CASE Len(q) <= IN_FLIGHT
  <2>1. LastOf(q) = q
    BY <1>2 DEF LastOf
  <2> QED BY <2>1
<1>3. CASE Len(q) > IN_FLIGHT
  <2> DEFINE a == Len(q) - IN_FLIGHT + 1
             r == SubSeq(q, a, Len(q))
  <2>1. LastOf(q) = r
    BY <1>1, <1>3 DEF LastOf
  <2>2. a \in 1 .. Len(q) /\ a \in Int /\ Len(q) \in Int
    BY <1>1, <1>3
  <2>3. /\ r \in Seq(S) /\ Len(r) = Len(q) - a + 1
        /\ \A i \in 1 .. Len(q) - a + 1 : r[i] = q[a + i - 1]
    <3>1. \A k \in a .. Len(q) : k \in 1 .. Len(q) + 1
      BY <2>2
    <3> QED BY <2>2, <3>1, SubSeqProperties
  <2>4. Len(r) = IN_FLIGHT
    BY <1>1, <2>3
  <2> HIDE DEF r
  <2>5. r # <<>>
    BY <1>1, <2>4
  <2>6. r[Len(r)] = q[Len(q)]
    BY <1>1, <2>2, <2>3, <2>4
  <2>7. ASSUME NEW i \in 1 .. Len(r) PROVE \E j \in 1 .. Len(q) : r[i] = q[j]
    <3>1. a + i - 1 \in 1 .. Len(q)
      BY <1>1, <2>2, <2>3
    <3> QED BY <2>3, <3>1
  <2> QED BY <2>1, <2>3, <2>5, <2>6, <2>7
<1> QED BY <1>1, <1>2, <1>3

LEMMA FloodNet ==
    ASSUME NetOK, RecordsOK, NEW o \in Originators, NEW nbrs, NEW msgs \in Seq(TcMessages(o)),
           msgs # <<>>, Flood(o, nbrs, msgs)
    PROVE  /\ ~Silent(o)' /\ Newest(o)' = msgs[Len(msgs)]
           /\ InFlight(o)' \subseteq InFlight(o) \cup {msgs[i] : i \in 1 .. Len(msgs)}
           /\ sent'[o] = sent[o] + Len(msgs) /\ sent'[o] <= MAX_MSGS
           /\ advertised'[o] = nbrs
<1> DEFINE q == net[o] \o msgs
<1>1. net[o] \in Seq(TcMessages(o)) /\ Len(net[o]) \in Nat /\ Len(msgs) \in Nat \ {0}
  BY EmptySeq DEF NetOK
<1>2. /\ q \in Seq(TcMessages(o)) /\ Len(q) = Len(net[o]) + Len(msgs)
      /\ \A i \in 1 .. Len(net[o]) + Len(msgs) :
            q[i] = IF i <= Len(net[o]) THEN net[o][i] ELSE msgs[i - Len(net[o])]
  BY <1>1, ConcatProperties
<1>3. net' = [net EXCEPT ![o] = LastOf(q)]
  BY DEF Flood
<1>4. net'[o] = LastOf(q)
  BY <1>3 DEF NetOK
<1> HIDE DEF q
<1>5. q # <<>>
  BY <1>1, <1>2
<1>6. /\ LastOf(q) \in Seq(TcMessages(o)) /\ LastOf(q) # <<>>
      /\ LastOf(q)[Len(LastOf(q))] = q[Len(q)]
      /\ \A i \in 1 .. Len(LastOf(q)) : \E j \in 1 .. Len(q) : LastOf(q)[i] = q[j]
  BY <1>2, <1>5, LastOfFacts
<1>7. ~Silent(o)' /\ Newest(o)' = q[Len(q)]
  BY <1>4, <1>6 DEF Silent, Newest
<1>8. q[Len(q)] = msgs[Len(msgs)]
  BY <1>1, <1>2
<1>9. ASSUME NEW m \in InFlight(o)' PROVE m \in InFlight(o) \cup {msgs[i] : i \in 1 .. Len(msgs)}
  <2>1. PICK i \in 1 .. Len(LastOf(q)) : m = LastOf(q)[i]
    BY <1>4, <1>9 DEF InFlight
  <2>2. PICK j \in 1 .. Len(q) : m = q[j]
    BY <1>6, <2>1
  <2>3. CASE j <= Len(net[o])
    <3>1. j \in 1 .. Len(net[o]) /\ m = net[o][j]
      BY <1>1, <1>2, <2>2, <2>3
    <3> QED BY <3>1 DEF InFlight
  <2>4. CASE j > Len(net[o])
    <3>1. j - Len(net[o]) \in 1 .. Len(msgs) /\ m = msgs[j - Len(net[o])]
      BY <1>1, <1>2, <2>2, <2>4
    <3> QED BY <3>1
  <2> QED BY <1>1, <2>3, <2>4
<1>10. sent'[o] = sent[o] + Len(msgs) /\ sent'[o] <= MAX_MSGS /\ advertised'[o] = nbrs
  BY DEF Flood, RecordsOK
<1> QED BY <1>7, <1>8, <1>9, <1>10

\* m lists every router of S that its borders enclose.
Covers(m, S) ==
    IF Bordered(m) THEN \A d \in S : m.lower <= d /\ d < m.upper => d \in m.nbrs
    ELSE S \subseteq m.nbrs

\* The parts of an update that precede its last one.
PartOf(o, m, last) ==
    m \in TcMessages(o) /\ m.ansn = last.ansn /\ m.seq <= last.seq

LEMMA LargestAddress == MaxAddr \in Nodes /\ \A b \in Nodes : b <= MaxAddr
<1>1. \E a \in Nodes : \A b \in Nodes : b <= a
  BY AddressAssumption
<1> QED BY <1>1 DEF MaxAddr

\* A router that does not reboot sends growing numbers, and its ANSN grows
\* when it advertises something else.
LEMMA SentFacts ==
    ASSUME NetOK, RecordsOK, NEW o \in Originators, Sends(o), boots'[o] = 0
    PROVE  /\ boots[o] = 0 /\ ~Silent(o)' /\ Newest(o)' \in TcMessages(o)
           /\ sent'[o] \in Nat /\ sent'[o] > sent[o] /\ sent'[o] <= MAX_MSGS
           /\ Covers(Newest(o)', advertised'[o])
           /\ \A m \in InFlight(o)' :
                 m \in InFlight(o) \/ (PartOf(o, m, Newest(o)') /\ m.nbrs \subseteq advertised'[o])
           /\ ~Silent(o) =>
                 /\ Newest(o)'.seq > Newest(o).seq
                 /\ \/ Newest(o)'.ansn = Newest(o).ansn + 1
                    \/ Newest(o)'.ansn = Newest(o).ansn /\ advertised'[o] = advertised[o]
<1>1. Originators \subseteq Nodes /\ Nodes \subseteq Nat /\ sent[o] \in Nat /\ MAX_MSGS \in Nat
  BY TcSetAssumption DEF RecordsOK
<1>2. PICK nbrs \in NeighborSets(o) :
        \/ \E upper \in {0, MaxAddr + 1} : SendTc(o, nbrs, upper)
        \/ \E cut \in Nodes : SendTcParts(o, nbrs, cut)
        \/ RebootTc(o, nbrs)
  BY DEF Sends
<1>3. ASSUME NEW n \in NextNumbers(o, nbrs)
      PROVE  /\ n[1] \in Nat /\ n[2] \in Nat
             /\ ~Silent(o) =>
                   /\ n[1] = Newest(o).seq + 1 /\ Newest(o).seq \in Nat /\ Newest(o).ansn \in Nat
                   /\ \/ n[2] = Newest(o).ansn + 1
                      \/ n[2] = Newest(o).ansn /\ nbrs = advertised[o]
  <2>1. n[1] \in Nat /\ n[2] \in Nat
    BY NextNumbersType
  <2>2. CASE ~Silent(o)
    <3>1. Newest(o).seq \in Nat /\ Newest(o).ansn \in Nat
      BY <2>2, NewestType DEF TcMessages
    <3> QED BY <2>1, <2>2, <3>1 DEF NextNumbers
  <2> QED BY <2>1, <2>2
<1>4. ASSUME NEW upper \in {0, MaxAddr + 1}, SendTc(o, nbrs, upper)
      PROVE  /\ boots[o] = 0 /\ ~Silent(o)' /\ Newest(o)' \in TcMessages(o)
             /\ sent'[o] \in Nat /\ sent'[o] > sent[o] /\ sent'[o] <= MAX_MSGS
             /\ Covers(Newest(o)', advertised'[o])
             /\ \A m \in InFlight(o)' :
                   m \in InFlight(o) \/ (PartOf(o, m, Newest(o)') /\ m.nbrs \subseteq advertised'[o])
             /\ ~Silent(o) =>
                   /\ Newest(o)'.seq > Newest(o).seq
                   /\ \/ Newest(o)'.ansn = Newest(o).ansn + 1
                      \/ Newest(o)'.ansn = Newest(o).ansn /\ advertised'[o] = advertised[o]
  <2> DEFINE msg(n) == [seq |-> n[1], ansn |-> n[2], nbrs |-> nbrs, lower |-> 0, upper |-> upper]
  <2>1. PICK n \in NextNumbers(o, nbrs) : Flood(o, nbrs, <<msg(n)>>)
    BY <1>4 DEF SendTc
  <2>2. n[1] \in Nat /\ n[2] \in Nat
    BY <1>3
  <2>3. msg(n) \in TcMessages(o) /\ msg(n).seq = n[1] /\ msg(n).ansn = n[2] /\ msg(n).nbrs = nbrs
    BY <2>2 DEF TcMessages, NeighborSets
  <2>4. Covers(msg(n), nbrs)
    BY DEF Covers
  <2> HIDE DEF msg
  <2> DEFINE q == <<msg(n)>>
  <2>5. q \in Seq(TcMessages(o)) /\ q # <<>> /\ Len(q) = 1 /\ q[1] = msg(n) /\ Flood(o, nbrs, q)
    BY <2>1, <2>3
  <2> HIDE DEF q
  <2>6. /\ ~Silent(o)' /\ Newest(o)' = msg(n)
        /\ InFlight(o)' \subseteq InFlight(o) \cup {q[i] : i \in 1 .. 1}
        /\ sent'[o] = sent[o] + 1 /\ sent'[o] <= MAX_MSGS /\ advertised'[o] = nbrs
    <3>1. /\ ~Silent(o)' /\ Newest(o)' = q[Len(q)]
          /\ InFlight(o)' \subseteq InFlight(o) \cup {q[i] : i \in 1 .. Len(q)}
          /\ sent'[o] = sent[o] + Len(q) /\ sent'[o] <= MAX_MSGS /\ advertised'[o] = nbrs
      BY <2>5, FloodNet
    <3> QED BY <2>5, <3>1
  <2>7. InFlight(o)' \subseteq InFlight(o) \cup {msg(n)}
    BY <2>5, <2>6
  <2>8. PartOf(o, msg(n), msg(n))
    BY <2>2, <2>3 DEF PartOf
  <2>9. boots[o] = 0
    BY <1>4 DEF SendTc
  <2>10. ~Silent(o) =>
           /\ msg(n).seq > Newest(o).seq
           /\ \/ msg(n).ansn = Newest(o).ansn + 1
              \/ msg(n).ansn = Newest(o).ansn /\ nbrs = advertised[o]
    BY <1>3, <2>3
  <2>11. sent'[o] \in Nat /\ sent'[o] > sent[o]
    BY <1>1, <2>6
  <2> QED BY <2>3, <2>4, <2>6, <2>7, <2>8, <2>9, <2>10, <2>11
<1>5. ASSUME NEW cut \in Nodes, SendTcParts(o, nbrs, cut)
      PROVE  /\ boots[o] = 0 /\ ~Silent(o)' /\ Newest(o)' \in TcMessages(o)
             /\ sent'[o] \in Nat /\ sent'[o] > sent[o] /\ sent'[o] <= MAX_MSGS
             /\ Covers(Newest(o)', advertised'[o])
             /\ \A m \in InFlight(o)' :
                   m \in InFlight(o) \/ (PartOf(o, m, Newest(o)') /\ m.nbrs \subseteq advertised'[o])
             /\ ~Silent(o) =>
                   /\ Newest(o)'.seq > Newest(o).seq
                   /\ \/ Newest(o)'.ansn = Newest(o).ansn + 1
                      \/ Newest(o)'.ansn = Newest(o).ansn /\ advertised'[o] = advertised[o]
  <2> DEFINE low(n) == [seq |-> n[1], ansn |-> n[2], nbrs |-> {d \in nbrs : d < cut},
                        lower |-> 0, upper |-> cut]
             high(n) == [seq |-> n[1] + 1, ansn |-> n[2], nbrs |-> {d \in nbrs : d >= cut},
                         lower |-> cut, upper |-> MaxAddr + 1]
  <2>1. PICK n \in NextNumbers(o, nbrs) : Flood(o, nbrs, <<low(n), high(n)>>)
    BY <1>5 DEF SendTcParts
  <2>2. n[1] \in Nat /\ n[2] \in Nat /\ cut \in Nat /\ n[1] + 1 \in Nat /\ MaxAddr + 1 \in Nat
    BY <1>1, <1>3, LargestAddress
  <2>3. /\ low(n) \in TcMessages(o) /\ low(n).seq = n[1] /\ low(n).ansn = n[2]
        /\ low(n).nbrs \subseteq nbrs
    <3>1. {d \in nbrs : d < cut} \in SUBSET (Nodes \ {o})
      BY Zenon DEF NeighborSets
    <3> QED BY <2>2, <3>1 DEF TcMessages
  <2>4. high(n) \in TcMessages(o)
    <3>1. {d \in nbrs : d >= cut} \in SUBSET (Nodes \ {o})
      BY Zenon DEF NeighborSets
    <3> QED BY <2>2, <3>1 DEF TcMessages
  <2>5. /\ high(n).seq = n[1] + 1 /\ high(n).ansn = n[2] /\ high(n).nbrs \subseteq nbrs
        /\ high(n).lower = cut /\ high(n).upper = MaxAddr + 1
        /\ \A d \in nbrs : cut <= d => d \in high(n).nbrs
    <3>1. \A d \in nbrs : d \in Nat
      BY <1>1 DEF NeighborSets
    <3> QED BY <2>2, <3>1
  <2> HIDE DEF low, high
  <2>6. Covers(high(n), nbrs)
    <3>1. Bordered(high(n))
      BY <1>1, <2>5, LargestAddress DEF Bordered
    <3> QED BY <2>5, <3>1 DEF Covers
  <2> DEFINE q == <<low(n), high(n)>>
  <2>7. /\ q \in Seq(TcMessages(o)) /\ q # <<>> /\ Len(q) = 2 /\ q[2] = high(n) /\ q[1] = low(n)
        /\ Flood(o, nbrs, q)
    BY <2>1, <2>3, <2>4
  <2> HIDE DEF q
  <2>8. /\ ~Silent(o)' /\ Newest(o)' = high(n)
        /\ InFlight(o)' \subseteq InFlight(o) \cup {q[i] : i \in 1 .. 2}
        /\ sent'[o] = sent[o] + 2 /\ sent'[o] <= MAX_MSGS /\ advertised'[o] = nbrs
    <3>1. /\ ~Silent(o)' /\ Newest(o)' = q[Len(q)]
          /\ InFlight(o)' \subseteq InFlight(o) \cup {q[i] : i \in 1 .. Len(q)}
          /\ sent'[o] = sent[o] + Len(q) /\ sent'[o] <= MAX_MSGS /\ advertised'[o] = nbrs
      BY <2>7, FloodNet
    <3> QED BY <2>7, <3>1
  <2>9. InFlight(o)' \subseteq InFlight(o) \cup {low(n), high(n)}
    <3>1. \A i \in 1 .. 2 : q[i] \in {low(n), high(n)}
      BY <2>7
    <3> QED BY <2>8, <3>1
  <2>10. PartOf(o, low(n), high(n)) /\ PartOf(o, high(n), high(n))
    BY <2>2, <2>3, <2>4, <2>5 DEF PartOf
  <2>11. boots[o] = 0
    BY <1>5 DEF SendTcParts
  <2>12. ~Silent(o) =>
           /\ high(n).seq > Newest(o).seq
           /\ \/ high(n).ansn = Newest(o).ansn + 1
              \/ high(n).ansn = Newest(o).ansn /\ nbrs = advertised[o]
    BY <1>3, <2>5
  <2>13. sent'[o] \in Nat /\ sent'[o] > sent[o]
    BY <1>1, <2>8
  <2> QED BY <2>3, <2>4, <2>5, <2>6, <2>8, <2>9, <2>10, <2>11, <2>12, <2>13
<1>6. ~RebootTc(o, nbrs)
  BY DEF RebootTc, RecordsOK
<1> QED BY <1>2, <1>4, <1>5, <1>6

\* Whoever sends is heard of, rebooted or not.
LEMMA SentHeard ==
    ASSUME NetOK, RecordsOK, NEW o \in Originators, Sends(o)
    PROVE  ~Silent(o)' /\ boots'[o] \in Nat /\ sent'[o] <= MAX_MSGS
           /\ (boots'[o] = 0 => boots[o] = 0)
<1>1. CASE boots'[o] = 0
  BY <1>1, SentFacts
<1>2. CASE boots'[o] # 0
  <2>1. PICK nbrs \in NeighborSets(o) :
          \/ \E upper \in {0, MaxAddr + 1} : SendTc(o, nbrs, upper)
          \/ \E cut \in Nodes : SendTcParts(o, nbrs, cut)
          \/ RebootTc(o, nbrs)
    BY DEF Sends
  <2>2. ASSUME NEW msgs, NEW S, msgs \in Seq(S), msgs # <<>>, Flood(o, nbrs, msgs)
        PROVE  ~Silent(o)' /\ sent'[o] <= MAX_MSGS
    <3> DEFINE q == net[o] \o msgs
               T == TcMessages(o) \cup S
    <3>1. net[o] \in Seq(T) /\ msgs \in Seq(T) /\ Len(msgs) \in Nat \ {0} /\ Len(net[o]) \in Nat
      BY <2>2, EmptySeq DEF NetOK
    <3> HIDE DEF T
    <3>2. q \in Seq(T) /\ Len(q) = Len(net[o]) + Len(msgs)
      BY <3>1, ConcatProperties
    <3>3. q # <<>>
      BY <3>1, <3>2
    <3>4. LastOf(q) # <<>>
      <4> HIDE DEF q
      <4> QED BY <3>2, <3>3, LastOfFacts
    <3>5. net'[o] = LastOf(q)
      BY <2>2 DEF Flood, NetOK
    <3>6. sent'[o] <= MAX_MSGS
      BY <2>2 DEF Flood, RecordsOK
    <3> QED BY <3>4, <3>5, <3>6 DEF Silent
  <2>3. \A a : <<a>> \in Seq({a}) /\ <<a>> # <<>>
    OBVIOUS
  <2>4. \A a, b : <<a, b>> \in Seq({a, b}) /\ <<a, b>> # <<>>
    OBVIOUS
  <2>5. ~Silent(o)' /\ sent'[o] <= MAX_MSGS
    <3>1. ASSUME NEW upper, SendTc(o, nbrs, upper) PROVE \E a : Flood(o, nbrs, <<a>>)
      BY <3>1 DEF SendTc
    <3>2. ASSUME NEW cut, SendTcParts(o, nbrs, cut) PROVE \E a, b : Flood(o, nbrs, <<a, b>>)
      BY <3>2 DEF SendTcParts
    <3>3. ASSUME RebootTc(o, nbrs) PROVE \E a : Flood(o, nbrs, <<a>>)
      BY <3>3 DEF RebootTc
    <3>4. (\E a : Flood(o, nbrs, <<a>>)) \/ (\E a, b : Flood(o, nbrs, <<a, b>>))
      BY <2>1, <3>1, <3>2, <3>3
    <3> QED BY <2>2, <2>3, <2>4, <3>4
  <2>6. boots'[o] \in Nat
    BY <2>1 DEF SendTc, SendTcParts, RebootTc, RecordsOK
  <2> QED BY <1>2, <2>5, <2>6
<1> QED BY <1>1, <1>2

-----------------------------------------------------------------------------
(* What the message processed last left behind.                            *)

ViewOK(o) ==
    /\ view[o] \in TcMessages(o) \cup {NoMsg}
    /\ view[o] = NoMsg => EdgeTree(o) = {}
    /\ Silent(o) => view[o] = NoMsg
    /\ view[o] # NoMsg =>
          /\ tc[o].msg_seq = SeqOf(view[o]) /\ tc[o].ansn = AnsnOf(view[o])
          /\ \A d \in view[o].nbrs : edge[<<o, d>>] = AnsnOf(view[o])
          /\ \A d \in EdgeTree(o) \ view[o].nbrs :
                d \in SettledRange(o) => ~SEQNO_GREATER_THAN(AnsnOf(view[o]), edge[<<o, d>>])

LEMMA ViewStep ==
    ASSUME NetOK, EdgesOK, RecordsOK, RecordsOK', NEW o \in Originators, ViewOK(o), StepOf(o)
    PROVE  ViewOK(o)'
<1>1. o \in Nodes /\ tc[o] \in TcRecord
  BY TcSetAssumption DEF RecordsOK
<1>2. ASSUME NEW m \in TcMessages(o) PROVE m # NoMsg
  BY DEF TcMessages, NoMsg
<1>3. CASE RowSame(o) /\ (EnvSame(o) \/ Sends(o))
  <2>1. Silent(o)' => Silent(o)
    BY <1>3, SentHeard DEF EnvSame, Silent
  <2>2. EdgeTree(o)' = EdgeTree(o)
    BY <1>3 DEF RowSame, EdgeTree
  <2>3. SettledRange(o)' = SettledRange(o)
    BY <1>3 DEF RowSame, SettledRange
  <2>4. view[o] # NoMsg => \A d \in view[o].nbrs : d \in Nodes
    BY DEF ViewOK, TcMessages
  <2>5. ~Silent(o)' \/ view'[o] = NoMsg
    BY <1>3, <2>1 DEF RowSame, ViewOK
  <2>6. ASSUME view'[o] # NoMsg
        PROVE  /\ tc'[o].msg_seq = SeqOf(view'[o]) /\ tc'[o].ansn = AnsnOf(view'[o])
               /\ \A d \in view'[o].nbrs : edge'[<<o, d>>] = AnsnOf(view'[o])
               /\ \A d \in EdgeTree(o)' \ view'[o].nbrs :
                     d \in SettledRange(o)' => ~SEQNO_GREATER_THAN(AnsnOf(view'[o]), edge'[<<o, d>>])
    <3>1. \A d \in EdgeTree(o) : d \in Nodes
      BY DEF EdgeTree
    <3> QED BY <1>3, <2>2, <2>3, <2>4, <2>6, <3>1 DEF RowSame, ViewOK
  <2> QED BY <1>3, <2>2, <2>5, <2>6 DEF RowSame, ViewOK, SeqOf, AnsnOf, SEQNO_GREATER_THAN
<1>4. ASSUME NEW m \in InFlight(o), IgnoreTc(o, m) PROVE ViewOK(o)'
  <2>1. UNCHANGED <<edge, net, view>> /\ tc'[o] = AfterIgnored(tc[o], m)
    BY <1>1, <1>4 DEF IgnoreTc, envVars, RecordsOK
  <2>2. /\ tc'[o].msg_seq = tc[o].msg_seq /\ tc'[o].ansn = tc[o].ansn
        /\ tc'[o].edge_gc_timer = tc[o].edge_gc_timer
    BY <1>1, <2>1 DEF AfterIgnored, TcRecord
  <2>3. EdgeTree(o)' = EdgeTree(o) /\ SettledRange(o)' = SettledRange(o) /\ Silent(o)' = Silent(o)
    BY <2>1, <2>2 DEF EdgeTree, SettledRange, Silent
  <2> QED BY <2>1, <2>2, <2>3 DEF ViewOK, SeqOf, AnsnOf, SEQNO_GREATER_THAN
<1>5. ASSUME NEW m \in InFlight(o), BelieveTc(o, m) PROVE ViewOK(o)'
  <2>1. m \in TcMessages(o) /\ m # NoMsg /\ m.nbrs \subseteq Nodes
    BY <1>2, InFlightType DEF TcMessages
  <2>2. /\ net' = net /\ view'[o] = m /\ tc'[o] = AfterBelieved(tc[o], m)
        /\ \A d \in Nodes : edge'[<<o, d>>] = IF d \in m.nbrs THEN AnsnOf(m)
                                              ELSE IF d \in Revoked(o, m) THEN NoEdge ELSE edge[<<o, d>>]
    BY <1>1, <1>5 DEF BelieveTc, RecordsOK, envVars
  <2>3. /\ tc'[o].msg_seq = SeqOf(m) /\ tc'[o].ansn = AnsnOf(m)
        /\ ~Bordered(m) => tc'[o].edge_gc_timer
    BY <1>1, <2>1, <2>2, BelievedType
  <2>4. \A d \in m.nbrs : edge'[<<o, d>>] = AnsnOf(m)
    BY <2>1, <2>2
  <2>5. ASSUME NEW d \in EdgeTree(o)' \ m.nbrs, d \in SettledRange(o)'
        PROVE  ~SEQNO_GREATER_THAN(AnsnOf(m), edge'[<<o, d>>])
    <3>1. Bordered(m) /\ m.lower <= d /\ d < m.upper
      BY <2>2, <2>3, <2>5 DEF SettledRange
    <3>2. d \in Nodes /\ edge'[<<o, d>>] # NoEdge
      BY DEF EdgeTree
    <3>3. d \notin Revoked(o, m) /\ edge'[<<o, d>>] = edge[<<o, d>>] /\ d \in EdgeTree(o)
      BY <2>2, <2>5, <3>2 DEF EdgeTree
    <3> QED BY <2>5, <3>1, <3>3 DEF Revoked
  <2>6. ~Silent(o)'
    <3>1. ~Silent(o)
      BY <1>5 DEF InFlight, Silent
    <3> QED BY <2>2, <3>1 DEF Silent
  <2> QED BY <2>1, <2>2, <2>3, <2>4, <2>5, <2>6 DEF ViewOK, SeqOf, AnsnOf, SEQNO_GREATER_THAN
<1>6. CASE Forgets(o)
  <2>1. EdgeTree(o)' = {}
    BY <1>6 DEF Forgets, EdgeTree
  <2> QED BY <1>6, <2>1 DEF Forgets, ViewOK
<1>7. CASE olsr_expire_tc_edge_gc(o)
  <2>1. UNCHANGED <<net, view>> /\ tc' = [tc EXCEPT ![o].edge_gc_timer = FALSE] /\ DropEdges(o, Outdated(o))
    BY <1>7 DEF olsr_expire_tc_edge_gc, envVars
  <2>2. tc'[o].msg_seq = tc[o].msg_seq /\ tc'[o].ansn = tc[o].ansn
    BY <1>1, <2>1 DEF RecordsOK, TcRecord
  <2>3. \A d \in Nodes : edge'[<<o, d>>] = IF d \in Outdated(o) THEN NoEdge ELSE edge[<<o, d>>]
    BY <1>1, <2>1, DroppedRow
  <2>4. EdgeTree(o)' = EdgeTree(o) \ Outdated(o)
    BY <2>3 DEF EdgeTree
  <2>5. CASE view[o] = NoMsg
    BY <2>1, <2>4, <2>5 DEF ViewOK
  <2>6. CASE view[o] # NoMsg
    <3>1. view[o] \in TcMessages(o)
      BY <2>6 DEF ViewOK
    <3>2. AnsnOf(view[o]) \in Int /\ view[o].nbrs \subseteq Nodes
      <4>1. AnsnOf(view[o]) \in SeqNumbers
        BY <3>1, NumbersType
      <4>2. AnsnOf(view[o]) \in Nat
        BY <4>1, SeqFacts
      <4>3. view[o].nbrs \in SUBSET (Nodes \ {o})
        BY <3>1 DEF TcMessages
      <4> QED BY <4>2, <4>3
    <3>3. \A d \in view[o].nbrs : edge[<<o, d>>] = AnsnOf(view[o]) /\ d \notin Outdated(o)
      BY <2>6, <3>2, SeqFacts DEF ViewOK, Outdated, SEQNO_GREATER_THAN
    <3>4. \A d \in view[o].nbrs : edge'[<<o, d>>] = AnsnOf(view[o])
      BY <2>3, <3>2, <3>3
    <3>5. ASSUME NEW d \in EdgeTree(o)' \ view[o].nbrs
          PROVE  ~SEQNO_GREATER_THAN(AnsnOf(view[o]), edge'[<<o, d>>])
      <4>1. d \in EdgeTree(o) /\ d \notin Outdated(o) /\ d \in Nodes
        BY <2>4, <3>5 DEF EdgeTree
      <4>2. edge'[<<o, d>>] = edge[<<o, d>>]
        BY <2>3, <4>1
      <4>3. tc[o].ansn = AnsnOf(view[o])
        BY <2>6 DEF ViewOK
      <4> QED BY <4>1, <4>2, <4>3 DEF Outdated
    <3>6. ~Silent(o)'
      BY <2>1, <2>6 DEF ViewOK, Silent
    <3>7. tc'[o].msg_seq = SeqOf(view[o]) /\ tc'[o].ansn = AnsnOf(view[o])
      BY <2>2, <2>6 DEF ViewOK
    <3> QED BY <2>1, <2>6, <3>1, <3>4, <3>5, <3>6, <3>7 DEF ViewOK, SeqOf, AnsnOf, SEQNO_GREATER_THAN
  <2> QED BY <2>5, <2>6
<1> QED BY <1>3, <1>4, <1>5, <1>6, <1>7 DEF StepOf

-----------------------------------------------------------------------------
(* The order of the messages of an originator that does not reboot.        *)

\* ANSN a of o is not newer than its newest message, nor half a range older,
\* and what carries the newest ANSN is advertised.
Recent(o, a, S) ==
    /\ a \in Nat /\ a <= Newest(o).ansn /\ Newest(o).ansn - a < sent[o]
    /\ a = Newest(o).ansn => S \subseteq advertised[o]

\* The messages that travel and the one processed last.
Traces(o) == InFlight(o) \cup ({view[o]} \ {NoMsg})

OrderOK(o) ==
    /\ sent[o] <= MAX_MSGS
    /\ boots[o] = 0 /\ ~Silent(o) =>
          /\ \A m \in Traces(o) : m.seq <= Newest(o).seq /\ Recent(o, m.ansn, m.nbrs)
          /\ \A d \in EdgeTree(o) : \E a \in Nat : edge[<<o, d>>] = a % SEQ_MOD /\ Recent(o, a, {d})
          /\ Covers(Newest(o), advertised[o])

\* A message in flight makes its originator heard.
LEMMA InFlightHeard ==
    ASSUME NEW o, NEW m \in InFlight(o), net[o] \in Seq(TcMessages(o)) PROVE ~Silent(o)
BY DEF InFlight, Silent

\* What is recent stays so when the router sends.
LEMMA RecentSent ==
    ASSUME NetOK, RecordsOK, NEW o \in Originators, Sends(o), boots'[o] = 0, ~Silent(o),
           NEW a, NEW S, Recent(o, a, S)
    PROVE  Recent(o, a, S)'
<1>1. /\ Newest(o)' \in TcMessages(o) /\ sent'[o] \in Nat /\ sent'[o] > sent[o]
      /\ \/ Newest(o)'.ansn = Newest(o).ansn + 1
         \/ Newest(o)'.ansn = Newest(o).ansn /\ advertised'[o] = advertised[o]
  BY SentFacts
<1>2. Newest(o) \in TcMessages(o)
  BY NewestType
<1>3. Newest(o).ansn \in Nat /\ Newest(o)'.ansn \in Nat /\ sent[o] \in Nat
  BY <1>1, <1>2 DEF TcMessages, RecordsOK
<1>4. a \in Nat /\ a <= Newest(o).ansn /\ Newest(o).ansn - a < sent[o]
  BY DEF Recent
<1>5. a <= Newest(o)'.ansn /\ Newest(o)'.ansn - a < sent'[o]
  BY <1>1, <1>3, <1>4
<1>6. ASSUME a = Newest(o)'.ansn PROVE S \subseteq advertised'[o]
  <2>1. Newest(o)'.ansn = Newest(o).ansn /\ advertised'[o] = advertised[o]
    BY <1>1, <1>3, <1>4, <1>6
  <2> QED BY <1>6, <2>1 DEF Recent
<1> QED BY <1>4, <1>5, <1>6 DEF Recent

LEMMA SendKeepsOrder ==
    ASSUME NetOK, RecordsOK, NEW o \in Originators, ViewOK(o), OrderOK(o), RowSame(o), Sends(o)
    PROVE  OrderOK(o)'
<1>1. sent'[o] <= MAX_MSGS /\ ~Silent(o)' /\ (boots'[o] = 0 => boots[o] = 0)
  BY SentHeard
<1>2. SUFFICES ASSUME boots'[o] = 0
               PROVE  /\ \A m \in Traces(o)' : m.seq <= Newest(o)'.seq /\ Recent(o, m.ansn, m.nbrs)'
                      /\ \A d \in EdgeTree(o)' :
                            \E a \in Nat : edge'[<<o, d>>] = a % SEQ_MOD /\ Recent(o, a, {d})'
                      /\ Covers(Newest(o)', advertised'[o])
  BY <1>1 DEF OrderOK, Covers, Bordered, Recent
<1>3. /\ Newest(o)' \in TcMessages(o) /\ sent'[o] \in Nat /\ sent'[o] > sent[o]
      /\ Covers(Newest(o)', advertised'[o])
      /\ \A m \in InFlight(o)' :
            m \in InFlight(o) \/ (PartOf(o, m, Newest(o)') /\ m.nbrs \subseteq advertised'[o])
      /\ ~Silent(o) => Newest(o)'.seq > Newest(o).seq
  BY <1>2, SentFacts
<1>4. view'[o] = view[o] /\ EdgeTree(o)' = EdgeTree(o)
  BY DEF RowSame, EdgeTree
<1>5. ASSUME NEW m \in Traces(o), ~Silent(o)
      PROVE  m.seq <= Newest(o)'.seq /\ Recent(o, m.ansn, m.nbrs)'
  <2>1. m.seq <= Newest(o).seq /\ Recent(o, m.ansn, m.nbrs)
    BY <1>1, <1>2, <1>5 DEF OrderOK
  <2>2. m \in TcMessages(o)
    BY InFlightType DEF Traces, ViewOK
  <2>3. Recent(o, m.ansn, m.nbrs)'
    BY <1>2, <1>5, <2>1, RecentSent
  <2>4. Newest(o).seq \in Nat /\ Newest(o)'.seq \in Nat /\ m.seq \in Nat
    BY <1>3, <1>5, <2>2, NewestType DEF TcMessages
  <2> QED BY <1>3, <1>5, <2>1, <2>3, <2>4
<1>6. ASSUME NEW m, PartOf(o, m, Newest(o)'), m.nbrs \subseteq advertised'[o]
      PROVE  m.seq <= Newest(o)'.seq /\ Recent(o, m.ansn, m.nbrs)'
  <2>1. m.ansn \in Nat /\ m.ansn = Newest(o)'.ansn /\ m.seq <= Newest(o)'.seq
    BY <1>6 DEF PartOf, TcMessages
  <2>2. sent'[o] > 0
    BY <1>3 DEF RecordsOK
  <2>3. Newest(o)'.ansn - m.ansn = 0
    BY <2>1
  <2> QED BY <1>6, <2>1, <2>2, <2>3 DEF Recent
<1>7. ASSUME NEW m \in Traces(o)' PROVE m.seq <= Newest(o)'.seq /\ Recent(o, m.ansn, m.nbrs)'
  <2>1. CASE m \in InFlight(o)' /\ m \notin InFlight(o)
    BY <1>3, <1>6, <2>1
  <2>2. CASE m \in InFlight(o)
    <3>1. ~Silent(o)
      BY <2>2, InFlightHeard DEF NetOK
    <3> QED BY <1>5, <2>2, <3>1 DEF Traces
  <2>3. CASE m = view[o] /\ m # NoMsg
    <3>1. ~Silent(o)
      BY <2>3 DEF ViewOK
    <3> QED BY <1>5, <2>3, <3>1 DEF Traces
  <2> QED BY <1>4, <2>1, <2>2, <2>3 DEF Traces
<1>8. ASSUME NEW d \in EdgeTree(o)' PROVE \E a \in Nat : edge'[<<o, d>>] = a % SEQ_MOD /\ Recent(o, a, {d})'
  <2>1. d \in EdgeTree(o) /\ d \in Nodes
    BY <1>4, <1>8 DEF EdgeTree
  <2>2. ~Silent(o)
    BY <2>1 DEF ViewOK
  <2>3. PICK a \in Nat : edge[<<o, d>>] = a % SEQ_MOD /\ Recent(o, a, {d})
    BY <1>1, <1>2, <2>1, <2>2 DEF OrderOK
  <2>4. Recent(o, a, {d})'
    BY <1>2, <2>2, <2>3, RecentSent
  <2>5. edge'[<<o, d>>] = edge[<<o, d>>]
    BY <2>1 DEF RowSame
  <2> QED BY <2>3, <2>4, <2>5
<1> QED BY <1>3, <1>7, <1>8

LEMMA OrderStep ==
    ASSUME NetOK, EdgesOK, RecordsOK, NEW o \in Originators, ViewOK(o), OrderOK(o), StepOf(o)
    PROVE  OrderOK(o)'
<1>1. o \in Nodes
  BY TcSetAssumption
<1>2. ASSUME EnvSame(o),
             \A d \in EdgeTree(o)' : edge'[<<o, d>>] = edge[<<o, d>>],
             EdgeTree(o)' \subseteq EdgeTree(o), view'[o] \in Traces(o) \cup {NoMsg}
      PROVE  OrderOK(o)'
  <2>1. /\ Newest(o)' = Newest(o) /\ Silent(o)' = Silent(o) /\ InFlight(o)' = InFlight(o)
        /\ sent'[o] = sent[o] /\ boots'[o] = boots[o] /\ advertised'[o] = advertised[o]
    BY <1>2 DEF EnvSame, Newest, Silent, InFlight
  <2>2. \A a, S : Recent(o, a, S)' = Recent(o, a, S)
    BY <2>1 DEF Recent
  <2>3. Traces(o)' \subseteq Traces(o)
    BY <1>2, <2>1 DEF Traces
  <2>4. SUFFICES ASSUME boots[o] = 0, ~Silent(o)
                 PROVE  /\ \A m \in Traces(o)' : m.seq <= Newest(o).seq /\ Recent(o, m.ansn, m.nbrs)
                        /\ \A d \in EdgeTree(o)' : \E a \in Nat : edge'[<<o, d>>] = a % SEQ_MOD /\ Recent(o, a, {d})
                        /\ Covers(Newest(o), advertised[o])
    BY <2>1, <2>2 DEF OrderOK, Covers, Bordered
  <2> QED BY <1>2, <2>3, <2>4 DEF OrderOK
<1>3. CASE RowSame(o) /\ EnvSame(o)
  <2>1. EdgeTree(o)' = EdgeTree(o) /\ \A d \in EdgeTree(o)' : edge'[<<o, d>>] = edge[<<o, d>>]
    BY <1>3 DEF RowSame, EdgeTree
  <2> QED BY <1>2, <1>3, <2>1 DEF RowSame, Traces
<1>4. CASE RowSame(o) /\ Sends(o)
  BY <1>4, SendKeepsOrder
<1>5. ASSUME NEW m \in InFlight(o), IgnoreTc(o, m) PROVE OrderOK(o)'
  <2>1. EnvSame(o) /\ edge' = edge /\ view' = view
    BY <1>5 DEF IgnoreTc, envVars, EnvSame
  <2> QED BY <1>2, <2>1 DEF Traces, EdgeTree
<1>6. ASSUME NEW m \in InFlight(o), BelieveTc(o, m) PROVE OrderOK(o)'
  <2>1. m \in TcMessages(o) /\ ~Silent(o)
    BY InFlightType, InFlightHeard DEF NetOK
  <2>2. /\ EnvSame(o) /\ view'[o] = m
        /\ \A d \in Nodes : edge'[<<o, d>>] = IF d \in m.nbrs THEN AnsnOf(m)
                                              ELSE IF d \in Revoked(o, m) THEN NoEdge ELSE edge[<<o, d>>]
    BY <1>1, <1>6 DEF BelieveTc, RecordsOK, envVars, EnvSame
  <2>3. /\ Newest(o)' = Newest(o) /\ Silent(o)' = Silent(o) /\ InFlight(o)' = InFlight(o)
        /\ sent'[o] = sent[o] /\ boots'[o] = boots[o] /\ advertised'[o] = advertised[o]
    BY <2>2 DEF EnvSame, Newest, Silent, InFlight
  <2>4. \A a, S : Recent(o, a, S)' = Recent(o, a, S)
    BY <2>3 DEF Recent
  <2>5. Traces(o)' \subseteq Traces(o)
    BY <2>2, <2>3 DEF Traces
  <2>6. SUFFICES ASSUME boots[o] = 0
                 PROVE  /\ \A x \in Traces(o)' : x.seq <= Newest(o).seq /\ Recent(o, x.ansn, x.nbrs)
                        /\ \A d \in EdgeTree(o)' : \E a \in Nat : edge'[<<o, d>>] = a % SEQ_MOD /\ Recent(o, a, {d})
                        /\ Covers(Newest(o), advertised[o])
    BY <2>1, <2>3, <2>4 DEF OrderOK, Covers, Bordered
  <2>7. Recent(o, m.ansn, m.nbrs)
    BY <2>1, <2>6 DEF OrderOK, Traces
  <2>8. ASSUME NEW d \in EdgeTree(o)' PROVE \E a \in Nat : edge'[<<o, d>>] = a % SEQ_MOD /\ Recent(o, a, {d})
    <3>1. d \in Nodes /\ edge'[<<o, d>>] # NoEdge
      BY DEF EdgeTree
    <3>2. CASE d \in m.nbrs
      <4>1. Recent(o, m.ansn, {d})
        BY <2>7, <3>2 DEF Recent
      <4> QED BY <2>1, <2>2, <3>1, <3>2, <4>1 DEF AnsnOf, TcMessages
    <3>3. CASE d \notin m.nbrs
      <4>1. edge'[<<o, d>>] = edge[<<o, d>>] /\ d \in EdgeTree(o)
        BY <2>2, <3>1, <3>3 DEF EdgeTree
      <4> QED BY <2>1, <2>6, <4>1 DEF OrderOK
    <3> QED BY <3>2, <3>3
  <2> QED BY <2>1, <2>5, <2>6, <2>8 DEF OrderOK
<1>7. CASE Forgets(o)
  <2>1. EdgeTree(o)' = {}
    BY <1>7 DEF Forgets, EdgeTree
  <2> QED BY <1>2, <1>7, <2>1 DEF Forgets
<1>8. CASE olsr_expire_tc_edge_gc(o)
  <2>1. EnvSame(o) /\ view' = view /\ DropEdges(o, Outdated(o))
    BY <1>8 DEF olsr_expire_tc_edge_gc, envVars, EnvSame
  <2>2. \A d \in Nodes : edge'[<<o, d>>] = IF d \in Outdated(o) THEN NoEdge ELSE edge[<<o, d>>]
    BY <1>1, <2>1, DroppedRow
  <2>3. EdgeTree(o)' \subseteq EdgeTree(o) /\ \A d \in EdgeTree(o)' : edge'[<<o, d>>] = edge[<<o, d>>]
    BY <2>2 DEF EdgeTree
  <2> QED BY <1>2, <2>1, <2>3 DEF Traces
<1> QED BY <1>3, <1>4, <1>5, <1>6, <1>7, <1>8 DEF StepOf

-----------------------------------------------------------------------------
(* Messages ignored in a row.                                              *)

\* The numbers the entry remembers: the stored one and the stray one.
Remembered(o) == {tc[o].msg_seq} \cup (IF tc[o].err_seq_valid THEN {tc[o].err_seq} ELSE {})

\* Every ignored number beyond the remembered ones was counted.
SkipOK(o) ==
    /\ skipped[o] \subseteq SeqNumbers
    /\ Cardinality(skipped[o]) <= MAX_IGNORED + 2
    /\ EdgeTree(o) # {} => Cardinality(skipped[o] \ Remembered(o)) <= tc[o].ignored

LEMMA FiniteNumbers ==
    ASSUME NEW S \in SUBSET SeqNumbers
    PROVE  IsFiniteSet(S) /\ Cardinality(S) \in Nat
<1>1. IsFiniteSet(0 .. SEQ_MOD - 1)
  BY SeqFacts, FS_Interval
<1>2. IsFiniteSet(S)
  BY <1>1, FS_Subset DEF SeqNumbers
<1> QED BY <1>2, FS_CardinalityType

LEMMA AddOne ==
    ASSUME NEW S, NEW x, IsFiniteSet(S)
    PROVE  /\ IsFiniteSet(S \cup {x}) /\ Cardinality(S) \in Nat /\ Cardinality(S \cup {x}) \in Nat
           /\ Cardinality(S \cup {x}) <= Cardinality(S) + 1
<1>1. IsFiniteSet(S \cup {x})
      /\ Cardinality(S \cup {x}) = IF x \in S THEN Cardinality(S) ELSE Cardinality(S) + 1
  BY FS_AddElement
<1>2. Cardinality(S) \in Nat
  BY FS_CardinalityType
<1> QED BY <1>1, <1>2

\* Two remembered numbers and the counted ones.
LEMMA SkipCount ==
    ASSUME NEW S \in SUBSET SeqNumbers, NEW A \in SUBSET SeqNumbers, NEW x, NEW y,
           S \subseteq (A \cup {x}) \cup {y}, NEW k \in Nat, Cardinality(A) <= k
    PROVE  Cardinality(S) <= k + 2
<1>1. IsFiniteSet(S) /\ IsFiniteSet(A) /\ Cardinality(A) \in Nat /\ Cardinality(S) \in Nat
  BY FiniteNumbers
<1>2. IsFiniteSet(A \cup {x}) /\ Cardinality(A \cup {x}) <= Cardinality(A) + 1
      /\ Cardinality(A \cup {x}) \in Nat
  BY <1>1, AddOne
<1>3. IsFiniteSet((A \cup {x}) \cup {y}) /\ Cardinality((A \cup {x}) \cup {y}) <= Cardinality(A \cup {x}) + 1
      /\ Cardinality((A \cup {x}) \cup {y}) \in Nat
  <2> DEFINE B == A \cup {x}
  <2>1. IsFiniteSet(B)
    BY <1>2
  <2> HIDE DEF B
  <2>2. IsFiniteSet(B \cup {y}) /\ Cardinality(B \cup {y}) <= Cardinality(B) + 1 /\ Cardinality(B \cup {y}) \in Nat
    BY <2>1, AddOne
  <2> QED BY <2>2 DEF B
<1>4. Cardinality(S) <= Cardinality((A \cup {x}) \cup {y})
  BY <1>3, FS_Subset
<1> QED BY <1>1, <1>2, <1>3, <1>4

LEMMA SkipStep ==
    ASSUME NetOK, EdgesOK, RecordsOK, RecordsOK', NEW o \in Originators, SkipOK(o), StepOf(o)
    PROVE  SkipOK(o)'
<1>1. o \in Nodes /\ tc[o] \in TcRecord /\ tc'[o] \in TcRecord /\ MAX_IGNORED \in Nat
  BY TcSetAssumption DEF RecordsOK
<1>2. Cardinality({}) = 0 /\ \A S : {} \ S = {}
  BY FS_EmptySet
<1>3. ASSUME skipped'[o] = {} PROVE SkipOK(o)'
  <2>1. tc'[o].ignored >= 0
    BY <1>1 DEF TcRecord
  <2> QED BY <1>1, <1>2, <1>3, <2>1 DEF SkipOK
<1>4. CASE RowSame(o)
  <2>1. EdgeTree(o)' = EdgeTree(o) /\ Remembered(o)' = Remembered(o)
    BY <1>4 DEF RowSame, EdgeTree, Remembered
  <2> QED BY <1>4, <2>1 DEF RowSame, SkipOK
<1>5. ASSUME NEW m \in InFlight(o), IgnoreTc(o, m) PROVE SkipOK(o)'
  <2>1. m \in TcMessages(o)
    BY InFlightType
  <2>2. SeqOf(m) \in SeqNumbers
    BY <2>1, NumbersType
  <2>3. /\ edge' = edge /\ tc'[o] = AfterIgnored(tc[o], m) /\ Ignores(o, m)
        /\ skipped'[o] \in {skipped[o] \cup {SeqOf(m)}, {}}
    BY <1>1, <1>5 DEF IgnoreTc, RecordsOK
  <2>4. SUFFICES ASSUME skipped'[o] = skipped[o] \cup {SeqOf(m)} PROVE SkipOK(o)'
    BY <1>3, <2>3
  <2> DEFINE t == tc[o]
             A == skipped[o] \ Remembered(o)
             B == skipped'[o] \ Remembered(o)'
  <2>5. EdgeTree(o) # {} /\ EdgeTree(o)' = EdgeTree(o)
    BY <2>3 DEF Ignores, EdgeTree
  <2>6. skipped'[o] \subseteq SeqNumbers /\ skipped[o] \subseteq SeqNumbers
    BY <2>2, <2>4 DEF SkipOK
  <2>7. IsFiniteSet(A) /\ Cardinality(A) \in Nat /\ Cardinality(A) <= t.ignored /\ t.ignored \in Nat
    <3>1. A \in SUBSET SeqNumbers
      BY <2>6
    <3>2. IsFiniteSet(A) /\ Cardinality(A) \in Nat
      BY <3>1, FiniteNumbers
    <3> QED BY <1>1, <2>5, <3>2 DEF SkipOK, TcRecord
  <2>8. Cardinality(B) <= tc'[o].ignored
    <3>1. CASE AlreadySeen(t, m) /\ t.msg_seq = SeqOf(m)
      <4>1. tc'[o] = t
        BY <2>3, <3>1 DEF AfterIgnored
      <4>2. B = A
        BY <2>4, <3>1, <4>1 DEF Remembered
      <4> QED BY <2>7, <4>1, <4>2
    <3>2. CASE AlreadySeen(t, m) /\ t.msg_seq # SeqOf(m)
      <4>1. /\ tc'[o].ignored = t.ignored + 1 /\ tc'[o].msg_seq = t.msg_seq
            /\ tc'[o].err_seq = t.err_seq /\ tc'[o].err_seq_valid = t.err_seq_valid
        BY <1>1, <2>3, <3>2 DEF AfterIgnored, TcRecord
      <4>2. B \subseteq A \cup {SeqOf(m)}
        BY <2>4, <4>1 DEF Remembered
      <4> HIDE DEF A, B
      <4>3. /\ IsFiniteSet(A \cup {SeqOf(m)}) /\ Cardinality(A \cup {SeqOf(m)}) <= Cardinality(A) + 1
            /\ Cardinality(A \cup {SeqOf(m)}) \in Nat
        BY <2>7, AddOne
      <4>4. Cardinality(B) <= Cardinality(A \cup {SeqOf(m)}) /\ Cardinality(B) \in Nat
        BY <4>2, <4>3, FS_Subset, FS_CardinalityType
      <4> QED BY <2>7, <4>1, <4>3, <4>4
    <3>3. CASE ~AlreadySeen(t, m)
      <4>1. Stray(t, m)
        BY <2>3, <3>3 DEF Ignores
      <4>2. /\ tc'[o].ignored = t.ignored /\ tc'[o].msg_seq = t.msg_seq
            /\ tc'[o].err_seq = SeqOf(m) /\ tc'[o].err_seq_valid = TRUE
        BY <1>1, <2>3, <3>3 DEF AfterIgnored, TcRecord
      <4>3. B \subseteq A
        BY <2>4, <4>1, <4>2 DEF Remembered, Stray
      <4> HIDE DEF A, B
      <4>4. Cardinality(B) <= Cardinality(A) /\ Cardinality(B) \in Nat
        BY <2>7, <4>3, FS_Subset, FS_CardinalityType
      <4> QED BY <2>7, <4>2, <4>4
    <3> QED BY <3>1, <3>2, <3>3
  <2>9. Cardinality(skipped'[o]) <= MAX_IGNORED + 2
    <3>1. tc'[o].ignored \in Nat /\ tc'[o].ignored <= MAX_IGNORED
      BY <1>1 DEF TcRecord
    <3>2. Cardinality(skipped'[o]) <= tc'[o].ignored + 2
      <4>1. skipped'[o] \subseteq (B \cup {tc'[o].msg_seq}) \cup {tc'[o].err_seq}
        BY DEF Remembered
      <4>2. skipped'[o] \in SUBSET SeqNumbers /\ B \in SUBSET SeqNumbers
        BY <2>6
      <4> HIDE DEF B
      <4> QED BY <2>8, <3>1, <4>1, <4>2, SkipCount
    <3>3. Cardinality(skipped'[o]) \in Nat
      BY <2>6, FiniteNumbers
    <3> QED BY <1>1, <3>1, <3>2, <3>3
  <2> QED BY <2>6, <2>8, <2>9 DEF SkipOK
<1>6. ASSUME NEW m \in InFlight(o), BelieveTc(o, m) PROVE SkipOK(o)'
  BY <1>3, <1>6 DEF BelieveTc, RecordsOK
<1>7. CASE Forgets(o)
  <2>1. EdgeTree(o)' = {}
    BY <1>7 DEF Forgets, EdgeTree
  <2> QED BY <1>3, <1>7, <2>1 DEF Forgets, SkipOK
<1>8. CASE olsr_expire_tc_edge_gc(o)
  <2>1. UNCHANGED skipped /\ tc' = [tc EXCEPT ![o].edge_gc_timer = FALSE] /\ DropEdges(o, Outdated(o))
    BY <1>8 DEF olsr_expire_tc_edge_gc
  <2>2. /\ tc'[o].msg_seq = tc[o].msg_seq /\ tc'[o].err_seq = tc[o].err_seq
        /\ tc'[o].err_seq_valid = tc[o].err_seq_valid /\ tc'[o].ignored = tc[o].ignored
    BY <1>1, <2>1 DEF RecordsOK, TcRecord
  <2>3. \A d \in Nodes : edge'[<<o, d>>] = IF d \in Outdated(o) THEN NoEdge ELSE edge[<<o, d>>]
    BY <1>1, <2>1, DroppedRow
  <2>4. EdgeTree(o)' \subseteq EdgeTree(o) /\ Remembered(o)' = Remembered(o)
    BY <2>2, <2>3 DEF EdgeTree, Remembered
  <2> QED BY <2>1, <2>2, <2>4 DEF SkipOK
<1> QED BY <1>4, <1>5, <1>6, <1>7, <1>8 DEF StepOf

-----------------------------------------------------------------------------
(* The theorems.                                                           *)

BeliefInv ==
    /\ NetOK /\ EdgesOK /\ LocksOK /\ RecordsOK
    /\ \A o \in Originators : ViewOK(o) /\ OrderOK(o) /\ SkipOK(o)

LEMMA BeliefStep == BeliefInv /\ [Next]_vars => BeliefInv'
<1> SUFFICES ASSUME BeliefInv, [Next]_vars PROVE BeliefInv'
  OBVIOUS
<1>1. NetOK /\ EdgesOK /\ LocksOK /\ RecordsOK
  BY DEF BeliefInv
<1>2. NetOK' /\ EdgesOK' /\ LocksOK' /\ RecordsOK'
  BY <1>1, NetStep, PairsStep, LocksStep, RecordsStep
<1>3. ASSUME NEW o \in Originators PROVE ViewOK(o)' /\ OrderOK(o)' /\ SkipOK(o)'
  <2>1. ViewOK(o) /\ OrderOK(o) /\ SkipOK(o)
    BY DEF BeliefInv
  <2>2. StepOf(o)
    BY <1>1, StepCases
  <2> QED BY <1>1, <1>2, <2>1, <2>2, ViewStep, OrderStep, SkipStep
<1> QED BY <1>2, <1>3 DEF BeliefInv

LEMMA BeliefInit == Init => BeliefInv
<1> SUFFICES ASSUME Init PROVE BeliefInv
  OBVIOUS
<1>1. NetOK /\ EdgesOK /\ LocksOK /\ RecordsOK
  BY InitLocks, RecordsInit
<1>2. ASSUME NEW o \in Originators PROVE ViewOK(o) /\ OrderOK(o) /\ SkipOK(o)
  <2>1. o \in Nodes /\ MAX_MSGS \in Nat /\ MAX_IGNORED \in Nat
    BY TcSetAssumption
  <2>2. EdgeTree(o) = {} /\ view[o] = NoMsg /\ Silent(o) /\ skipped[o] = {} /\ sent[o] = 0
    BY <2>1 DEF Init, EdgeTree, Silent
  <2>3. Cardinality({}) = 0
    BY FS_EmptySet
  <2> QED BY <2>1, <2>2, <2>3 DEF ViewOK, OrderOK, SkipOK
<1> QED BY <1>1, <1>2 DEF BeliefInv

\* A rebooted originator is believed again after a bounded number of messages,
\* wherever its new numbers land: the counter of ignored messages, the stored
\* number and the remembered stray one account for every ignored message.
THEOREM RebootedAlwaysBelieved == Spec => []RebootBelieved
<1>1. BeliefInv => RebootBelieved
  BY DEF BeliefInv, SkipOK, RebootBelieved
<1> QED BY <1>1, BeliefInit, BeliefStep, PTL DEF Spec

-----------------------------------------------------------------------------
(* Comparisons of wrapping numbers.                                        *)

\* Counting on from x, less than a whole range.
LEMMA WrapForward ==
    ASSUME NEW x \in SeqNumbers, NEW k \in 0 .. SEQ_MOD - 1
    PROVE  (x + k) % SEQ_MOD = IF x + k < SEQ_MOD THEN x + k ELSE x + k - SEQ_MOD
<1>1. SEQ_MOD \in Nat /\ SEQ_MOD > 3 /\ x \in 0 .. SEQ_MOD - 1
  BY SeqFacts DEF SeqNumbers
<1>2. CASE x + k < SEQ_MOD
  <2>1. x + k \in 0 .. SEQ_MOD - 1
    BY <1>1, <1>2
  <2> QED BY <1>1, <1>2, <2>1, ModSmall
<1>3. CASE x + k >= SEQ_MOD
  <2>1. x + k - SEQ_MOD \in 0 .. SEQ_MOD - 1
    BY <1>1, <1>3
  <2>2. x + k = 1 * SEQ_MOD + (x + k - SEQ_MOD)
    BY <1>1
  <2>3. (1 * SEQ_MOD + (x + k - SEQ_MOD)) % SEQ_MOD = x + k - SEQ_MOD
    <3> DEFINE r == x + k - SEQ_MOD
    <3>1. r \in 0 .. SEQ_MOD - 1
      BY <2>1
    <3> HIDE DEF r
    <3>2. (1 * SEQ_MOD + r) % SEQ_MOD = r
      BY <1>1, <3>1, ModUnique
    <3> QED BY <3>2 DEF r
  <2> QED BY <1>1, <1>3, <2>2, <2>3
<1> QED BY <1>1, <1>2, <1>3

\* The remainder of a later number, counted from that of an earlier one.
LEMMA LaterNumber ==
    ASSUME NEW v \in Nat, NEW n \in Nat, v <= n
    PROVE  n % SEQ_MOD = ((v % SEQ_MOD) + (n - v)) % SEQ_MOD
<1>1. SEQ_MOD \in Nat /\ SEQ_MOD > 0
  BY SeqFacts
<1> DEFINE b == v - n
<1>2. b \in Int
  OBVIOUS
<1> HIDE DEF b
<1>3. /\ ((v % SEQ_MOD) - b) % SEQ_MOD = (v - b) % SEQ_MOD
      /\ (v - (b % SEQ_MOD)) % SEQ_MOD = (v - b) % SEQ_MOD
  <2>1. v \in Int
    OBVIOUS
  <2> QED BY <1>1, <1>2, <2>1, ModMinus
<1>4. v - b = n /\ v % SEQ_MOD \in Int
  BY <1>1, ModRange DEF b
<1>5. (v % SEQ_MOD) - b = (v % SEQ_MOD) + (n - v)
  BY <1>4 DEF b
<1> QED BY <1>3, <1>4, <1>5

\* An ANSN less than half a range older is lower.
LEMMA OlderIsLower ==
    ASSUME NEW a \in Nat, NEW n \in Nat, a < n, n - a < HALF
    PROVE  SEQNO_GREATER_THAN(n % SEQ_MOD, a % SEQ_MOD)
<1> DEFINE x == a % SEQ_MOD
           k == n - a
<1>1. SEQ_MOD \in Nat /\ SEQ_MOD > 3 /\ HALF \in Nat /\ SEQ_MOD = 2 * HALF
  BY SeqFacts
<1>2. x \in SeqNumbers
  <2>1. \A i \in Int : i % SEQ_MOD \in SeqNumbers
    BY SeqFacts
  <2>2. a \in Int
    OBVIOUS
  <2> QED BY <2>1, <2>2
<1>3. k \in 0 .. SEQ_MOD - 1 /\ 0 < k /\ k < HALF
  BY <1>1
<1>4. n % SEQ_MOD = (x + k) % SEQ_MOD
  BY LaterNumber
<1> HIDE DEF x, k
<1>5. (x + k) % SEQ_MOD = IF x + k < SEQ_MOD THEN x + k ELSE x + k - SEQ_MOD
  BY <1>2, <1>3, WrapForward
<1>6. SEQNO_GREATER_THAN((x + k) % SEQ_MOD, x)
  BY <1>1, <1>2, <1>3, <1>5 DEF SEQNO_GREATER_THAN, SeqNumbers
<1> QED BY <1>4, <1>6 DEF x

\* A number up to W after x is in the range behind x, and not in the one of
\* size w before it, as long as the two do not overlap.
LEMMA RangeAfter ==
    ASSUME NEW x \in SeqNumbers, NEW k \in Nat, NEW W \in Nat, NEW w \in Nat \ {0},
           W + w <= SEQ_MOD, k <= W
    PROVE  /\ 0 < k => olsr_seq_inrange_high(x, x + W, (x + k) % SEQ_MOD)
           /\ 0 < k => ~olsr_seq_inrange_high(x - w, x, (x + k) % SEQ_MOD)
           /\ k < W => olsr_seq_inrange_low(x, x + W, (x + k) % SEQ_MOD)
<1>1. SEQ_MOD \in Nat /\ SEQ_MOD > 3 /\ x \in 0 .. SEQ_MOD - 1
  BY SeqFacts DEF SeqNumbers
<1>2. k \in 0 .. SEQ_MOD - 1 /\ W \in 0 .. SEQ_MOD - 1
  BY <1>1
<1>3. (x + k) % SEQ_MOD = IF x + k < SEQ_MOD THEN x + k ELSE x + k - SEQ_MOD
  BY <1>2, WrapForward
<1>4. (x + W) % SEQ_MOD = IF x + W < SEQ_MOD THEN x + W ELSE x + W - SEQ_MOD
  BY <1>2, WrapForward
<1>5. x - w < 0 => (x - w) % SEQ_MOD = x - w + SEQ_MOD
  <2> SUFFICES ASSUME x - w < 0 PROVE (x - w) % SEQ_MOD = x - w + SEQ_MOD
    OBVIOUS
  <2> DEFINE r == x - w + SEQ_MOD
  <2>1. r \in 0 .. SEQ_MOD - 1
    BY <1>1
  <2>2. x - w = -1 * SEQ_MOD + r
    BY <1>1
  <2> HIDE DEF r
  <2>3. (-1 * SEQ_MOD + r) % SEQ_MOD = r
    BY <1>1, <2>1, ModUnique
  <2> QED BY <2>2, <2>3 DEF r
<1>6. 0 < k => olsr_seq_inrange_high(x, x + W, (x + k) % SEQ_MOD)
  BY <1>1, <1>2, <1>3, <1>4 DEF olsr_seq_inrange_high
<1>7. k < W => olsr_seq_inrange_low(x, x + W, (x + k) % SEQ_MOD)
  BY <1>1, <1>2, <1>3, <1>4 DEF olsr_seq_inrange_low
<1>8. 0 < k => ~olsr_seq_inrange_high(x - w, x, (x + k) % SEQ_MOD)
  BY <1>1, <1>2, <1>3, <1>5 DEF olsr_seq_inrange_high
<1> QED BY <1>6, <1>7, <1>8

\* Once the newest message of an originator that did not reboot is processed,
\* the links it withdrew are gone, whatever arrived before and in which order.
THEOREM NewestAlwaysRevokes == Spec => []NewestRevokes
<1>1. BeliefInv => NewestRevokes
  <2> SUFFICES ASSUME BeliefInv, NEW o \in Originators, ~Silent(o), boots[o] = 0, view[o] = Newest(o)
               PROVE  EdgeTree(o) \cap SettledRange(o) = view[o].nbrs \cap SettledRange(o)
    BY DEF NewestRevokes
  <2> DEFINE n == Newest(o)
  <2>1. ViewOK(o) /\ OrderOK(o) /\ NetOK /\ RecordsOK
    BY DEF BeliefInv
  <2>2. n \in TcMessages(o)
    BY <2>1, NewestType
  <2>3. n # NoMsg /\ n.ansn \in Nat /\ n.nbrs \subseteq Nodes
    BY <2>2 DEF TcMessages, NoMsg
  <2>4. AnsnOf(n) \in SeqNumbers
    BY <2>2, NumbersType
  <2>5. AnsnOf(n) # NoEdge
    BY <2>4, SeqFacts DEF NoEdge
  <2>6. \A d \in n.nbrs : d \in EdgeTree(o)
    BY <2>1, <2>3, <2>5 DEF ViewOK, EdgeTree
  <2>7. ASSUME NEW d \in EdgeTree(o), d \in SettledRange(o) PROVE d \in n.nbrs
    <3>1. PICK a \in Nat : edge[<<o, d>>] = a % SEQ_MOD /\ Recent(o, a, {d})
      BY <2>1 DEF OrderOK
    <3>2. CASE a = n.ansn
      <4>1. d \in advertised[o]
        BY <3>1, <3>2 DEF Recent
      <4>2. Covers(n, advertised[o])
        BY <2>1 DEF OrderOK
      <4>3. CASE Bordered(n)
        <5>1. n.lower <= d /\ d < n.upper
          BY <2>7, <4>3 DEF SettledRange
        <5> QED BY <4>1, <4>2, <4>3, <5>1 DEF Covers
      <4>4. CASE ~Bordered(n)
        BY <4>1, <4>2, <4>4 DEF Covers
      <4> QED BY <4>3, <4>4
    <3>3. CASE a # n.ansn
      <4>1. a < n.ansn /\ n.ansn - a < sent[o] /\ sent[o] <= MAX_MSGS /\ sent[o] \in Nat
        BY <2>1, <2>3, <3>1, <3>3 DEF Recent, OrderOK, RecordsOK
      <4>2. n.ansn - a < HALF
        <5>1. MAX_MSGS \in Nat /\ MAX_MSGS <= HALF /\ HALF \in Nat
          BY AgeAssumption, TcSetAssumption, SeqFacts
        <5> QED BY <2>3, <4>1, <5>1
      <4>3. SEQNO_GREATER_THAN(AnsnOf(n), edge[<<o, d>>])
        BY <2>3, <3>1, <4>1, <4>2, OlderIsLower DEF AnsnOf
      <4> QED BY <2>1, <2>3, <2>7, <4>3 DEF ViewOK
    <3> QED BY <3>2, <3>3
  <2> QED BY <2>6, <2>7
<1> QED BY <1>1, BeliefInit, BeliefStep, PTL DEF Spec

\* The newest message of an originator that did not reboot is never taken for
\* an old or a stray one while a window holds what was lost in between.
THEOREM NewestAlwaysBelieved == Spec => []NewestBelieved
<1>1. BeliefInv => NewestBelieved
  <2> SUFFICES ASSUME BeliefInv, NEW o \in Originators, ~Silent(o), boots[o] = 0, WithinWindows(o),
                      tc[o].msg_seq # SeqOf(Newest(o)), Ignores(o, Newest(o))
               PROVE  FALSE
    BY DEF NewestBelieved
  <2> DEFINE n == Newest(o)
             v == view[o]
             ws == TC_SEQNO_WINDOW
             wa == TC_ANSN_WINDOW
             Ws == TC_SEQNO_WINDOW * TC_SEQNO_WINDOW_MULT
             Wa == TC_ANSN_WINDOW * TC_ANSN_WINDOW_MULT
  <2>1. ViewOK(o) /\ OrderOK(o) /\ NetOK /\ RecordsOK
    BY DEF BeliefInv
  <2>2. n \in TcMessages(o) /\ n.seq \in Nat /\ n.ansn \in Nat
    <3>1. n \in TcMessages(o)
      BY <2>1, NewestType
    <3> QED BY <3>1 DEF TcMessages
  <2>3. v # NoMsg
    BY <2>1 DEF Ignores, ViewOK
  <2>4. v \in TcMessages(o) /\ v.seq \in Nat /\ v.ansn \in Nat
    <3>1. v \in TcMessages(o)
      BY <2>1, <2>3 DEF ViewOK
    <3> QED BY <3>1 DEF TcMessages
  <2>5. v.seq <= n.seq /\ v.ansn <= n.ansn
    BY <2>1, <2>3 DEF OrderOK, Traces, Recent
  <2>6. n.seq - v.seq <= Ws /\ n.ansn - v.ansn < Wa
    BY <2>3 DEF WithinWindows
  <2>7. tc[o].msg_seq = SeqOf(v) /\ tc[o].ansn = AnsnOf(v)
    BY <2>1, <2>3 DEF ViewOK
  <2>8. n.seq # v.seq
    BY <2>7 DEF SeqOf
  <2>9. /\ ws \in Nat \ {0} /\ wa \in Nat \ {0} /\ Ws \in Nat /\ Wa \in Nat
        /\ Ws + ws <= SEQ_MOD /\ Wa + wa <= SEQ_MOD
    <3>1. \A w, k \in Nat : w * k \in Nat /\ w * (k + 1) = w * k + w
      OBVIOUS
    <3> QED BY <3>1, TcSetAssumption, WindowAssumption
  <2>10. SeqOf(n) = (SeqOf(v) + (n.seq - v.seq)) % SEQ_MOD /\ SeqOf(v) \in SeqNumbers
    BY <2>2, <2>4, <2>5, LaterNumber, NumbersType DEF SeqOf
  <2>11. AnsnOf(n) = (AnsnOf(v) + (n.ansn - v.ansn)) % SEQ_MOD /\ AnsnOf(v) \in SeqNumbers
    BY <2>2, <2>4, <2>5, LaterNumber, NumbersType DEF AnsnOf
  <2> DEFINE x == SeqOf(v)
             y == AnsnOf(v)
             k == n.seq - v.seq
             j == n.ansn - v.ansn
  <2>12. k \in Nat /\ 0 < k /\ k <= Ws /\ j \in Nat /\ j < Wa /\ x \in SeqNumbers /\ y \in SeqNumbers
    BY <2>2, <2>4, <2>5, <2>6, <2>8, <2>10, <2>11
  <2>13. SeqOf(n) = (x + k) % SEQ_MOD /\ AnsnOf(n) = (y + j) % SEQ_MOD
    BY <2>10, <2>11
  <2>14. /\ AlreadySeen(tc[o], n) = (/\ olsr_seq_inrange_high(x - ws, x, SeqOf(n))
                                     /\ olsr_seq_inrange_high(y - wa, y, AnsnOf(n)))
         /\ Upcoming(tc[o], n) = (/\ olsr_seq_inrange_high(x, x + Ws, SeqOf(n))
                                  /\ olsr_seq_inrange_low(y, y + Wa, AnsnOf(n)))
    BY <2>7 DEF AlreadySeen, Upcoming
  <2>15. AlreadySeen(tc[o], n) \/ ~Upcoming(tc[o], n)
    BY DEF Ignores
  <2> HIDE DEF x, y, k, j, Ws, Wa, ws, wa
  <2>16. olsr_seq_inrange_high(x, x + Ws, SeqOf(n)) /\ ~olsr_seq_inrange_high(x - ws, x, SeqOf(n))
    BY <2>9, <2>12, <2>13, RangeAfter
  <2>17. olsr_seq_inrange_low(y, y + Wa, AnsnOf(n))
    <3>1. j <= Wa
      BY <2>9, <2>12
    <3>2. /\ 0 < j => olsr_seq_inrange_high(y, y + Wa, (y + j) % SEQ_MOD)
          /\ 0 < j => ~olsr_seq_inrange_high(y - wa, y, (y + j) % SEQ_MOD)
          /\ j < Wa => olsr_seq_inrange_low(y, y + Wa, (y + j) % SEQ_MOD)
      BY <2>9, <2>12, <3>1, RangeAfter
    <3> QED BY <2>12, <2>13, <3>2
  <2> QED BY <2>14, <2>15, <2>16, <2>17
<1> QED BY <1>1, BeliefInit, BeliefStep, PTL DEF Spec
=============================================================================
