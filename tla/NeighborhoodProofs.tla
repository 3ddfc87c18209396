------------------------- MODULE NeighborhoodProofs -------------------------
(***************************************************************************)
(* Proofs about the neighbourhood tables for every set of addresses,       *)
(* interfaces and identities and every number of messages: the tables have *)
(* their types, links and neighbours hold each other, both directions of   *)
(* the two hop relation agree, and the MPRs are up to date or about to be  *)
(* recalculated.                                                           *)
(***************************************************************************)
EXTENDS Neighborhood, FiniteSetTheorems, TLAPS

(* The tables, one field at a time.                                        *)

LinkTables == [LinkKeys -> LinkEntries \cup {NoLink}]
Pairs == Ids \X AllAddrs

TableSet ==
    [links : LinkTables, nbr : [Ids -> Neighbors], table : SUBSET Ids,
     ahead : SUBSET (Ids \X Ids), mid : [AllAddrs -> AllAddrs \cup {NoAddr}],
     two_hop : SUBSET AllAddrs, pointer : [AllAddrs -> Nat], list2 : SUBSET Pairs,
     nblist : SUBSET Pairs, timer2 : SUBSET Pairs, changes : BOOLEAN, link_changes : BOOLEAN]

Present(links) == {k \in LinkKeys : links[k] # NoLink}
LinksTo(links, id) == {k \in Present(links) : links[k].nbr = id}

\* A link points to the entry of the neighbour that sent its HELLOs.
LinksAttached(links, nbr, table) ==
    \A k \in Present(links) :
        links[k].nbr \in table /\ <<k[1], nbr[links[k].nbr].addr>> \in HelloPairs

\* A neighbour counts its links, of which there is one at least.
Counted(links, nbr, table) ==
    \A id \in table : /\ LinksTo(links, id) # {}
                      /\ nbr[id].linkcount = Cardinality(LinksTo(links, id))

\* No two entries have the same address.
Distinct(nbr, table) == \A i, j \in table : nbr[i].addr = nbr[j].addr => i = j

\* The order of the hash chains is one of entries in the table.
Chained(ahead, table) ==
    ahead \subseteq table \X table /\ \A i \in Ids : <<i, i>> \notin ahead

PeersKept(links, nbr, table, ahead) ==
    /\ LinksAttached(links, nbr, table) /\ Counted(links, nbr, table)
    /\ Distinct(nbr, table) /\ Chained(ahead, table)

\* An alias is no main address: a HELLO or a MID declared it.
MidKept(mid) ==
    \A a \in AllAddrs : mid[a] # NoAddr => /\ <<a, mid[a]>> \in HelloPairs \cup MidPairs
                                           /\ a # mid[a]

\* The pairs that lead to two hop neighbour t.
Into(pairs, t) == {p \in pairs : p[2] = t}

HopsKept(list2, nblist, two_hop, pointer, timer2, table) ==
    /\ list2 = nblist /\ timer2 \subseteq list2
    /\ \A p \in list2 : p[1] \in table
    /\ \A t \in AllAddrs : (t \in two_hop) <=> (Into(list2, t) # {})
    /\ \A t \in AllAddrs : pointer[t] = Cardinality(Into(list2, t))

Hops(d) == HopsKept(d.list2, d.nblist, d.two_hop, d.pointer, d.timer2, d.table)
Peers(d) == PeersKept(d.links, d.nbr, d.table, d.ahead)

\* The inductive invariant of the tables.
Kept(d) == d \in TableSet /\ Peers(d) /\ MidKept(d.mid) /\ Hops(d)

\* The MPRs were computed from what the tables say, or will be.
UpToDate(d, b) == d.changes \/ b = Basis(d)

-----------------------------------------------------------------------------
(* Finiteness and addresses.                                               *)

LEMMA FiniteKeys == IsFiniteSet(LinkKeys) /\ IsFiniteSet(Pairs)
<1>1. IsFiniteSet(Addrs) /\ IsFiniteSet(TwoHops) /\ IsFiniteSet(Ifaces) /\ IsFiniteSet(Ids)
  BY NeighborhoodAssumption, IdsAssumption
<1>2. IsFiniteSet(AllAddrs)
  BY <1>1, FS_Union DEF AllAddrs
<1> QED
  BY <1>1, <1>2, FS_Product DEF LinkKeys, Pairs

\* A subset of a finite set is finite, and has as many elements as are left
\* when the others are taken away.
LEMMA Without ==
  ASSUME NEW S, IsFiniteSet(S), NEW T, T \subseteq S
  PROVE  /\ IsFiniteSet(S) /\ IsFiniteSet(T) /\ IsFiniteSet(S \ T)
         /\ Cardinality(S) \in Nat /\ Cardinality(T) \in Nat /\ Cardinality(S \ T) \in Nat
         /\ Cardinality(S \ T) = Cardinality(S) - Cardinality(T)
         /\ Cardinality(S) = Cardinality(T) => S = T
<1>1. S \cap T = T
  OBVIOUS
<1>2. IsFiniteSet(T) /\ (Cardinality(S) = Cardinality(T) => S = T)
  BY FS_Subset
<1>3. IsFiniteSet(S \ T) /\ Cardinality(S \ T) = Cardinality(S) - Cardinality(S \cap T)
  BY FS_Difference
<1> QED
  BY <1>1, <1>2, <1>3, FS_CardinalityType

LEMMA EntryIsLink ==
  ASSUME NEW links \in LinkTables, NEW k \in Present(links)
  PROVE  /\ k \in LinkKeys /\ links[k] \in LinkEntries /\ links[k].nbr \in Ids
         /\ k[1] \in Addrs /\ k[2] \in Ifaces
  BY DEF LinkTables, Present, LinkEntries, LinkKeys

LEMMA LinkedPresent ==
  ASSUME NEW d
  PROVE  Linked(d) = Present(d.links)
  BY DEF Linked, Present

LEMMA LinksFinite ==
  ASSUME NEW links, NEW id
  PROVE  /\ IsFiniteSet(LinksTo(links, id)) /\ LinksTo(links, id) \subseteq Present(links)
         /\ IsFiniteSet(Present(links)) /\ Present(links) \subseteq LinkKeys
<1>1. /\ LinksTo(links, id) \in SUBSET LinkKeys /\ Present(links) \in SUBSET LinkKeys
      /\ LinksTo(links, id) \subseteq Present(links)
  BY DEF LinksTo, Present
<1> QED
  BY <1>1, FiniteKeys, FS_Subset

-----------------------------------------------------------------------------
(* The two hop relation.                                                   *)

LEMMA IntoFinite ==
  ASSUME NEW pairs \in SUBSET Pairs, NEW t
  PROVE  /\ IsFiniteSet(Into(pairs, t)) /\ Cardinality(Into(pairs, t)) \in Nat
         /\ (Cardinality(Into(pairs, t)) = 0) <=> (Into(pairs, t) = {})
<1>1. Into(pairs, t) \in SUBSET Pairs
  BY DEF Into
<1>2. IsFiniteSet(Into(pairs, t))
  BY <1>1, FiniteKeys, FS_Subset
<1> QED
  BY <1>2, FS_CardinalityType, FS_EmptySet

\* What is left of the pairs into t when some are cut.
CutFrom(pairs, cut, rest) ==
    pairs \in SUBSET Pairs /\ cut \subseteq pairs /\ rest = pairs \ cut

LEMMA IntoCut ==
  ASSUME NEW pairs, NEW cut, NEW rest, CutFrom(pairs, cut, rest), NEW t
  PROVE  /\ Into(rest, t) = Into(pairs, t) \ Into(cut, t)
         /\ Cardinality(Into(cut, t)) \in Nat
         /\ Cardinality(Into(rest, t)) = Cardinality(Into(pairs, t)) - Cardinality(Into(cut, t))
<1>1. Into(rest, t) = Into(pairs, t) \ Into(cut, t) /\ Into(cut, t) \subseteq Into(pairs, t)
  BY DEF Into, CutFrom
<1>2. IsFiniteSet(Into(pairs, t))
  BY IntoFinite DEF CutFrom
<1> QED
  BY <1>1, <1>2, Without

\* Pairs are cut from the relation.
CutHops(d, u, cut) ==
    /\ cut \subseteq d.list2
    /\ u.list2 = d.list2 \ cut /\ u.nblist = d.nblist \ cut /\ u.timer2 = d.timer2 \ cut
    /\ \A t \in AllAddrs : u.pointer[t] = d.pointer[t] - Cardinality(Into(cut, t))
    /\ \A t \in AllAddrs :
          (t \in u.two_hop) <=> (t \in d.two_hop /\ ~(Into(cut, t) # {} /\ u.pointer[t] < 1))

\* Both directions of the relation stay in step.
LEMMA HopsCut ==
  ASSUME NEW d, NEW u, NEW cut, d.list2 \in SUBSET Pairs, Hops(d), CutHops(d, u, cut)
  PROVE  /\ HopsKept(u.list2, u.nblist, u.two_hop, u.pointer, u.timer2, d.table)
         /\ \A t \in AllAddrs : u.pointer[t] \in Nat
<1> DEFINE l == d.list2    l2 == u.list2    ptr == d.pointer    ptr2 == u.pointer
<1>1. l = d.nblist /\ d.timer2 \subseteq l /\ \A p \in l : p[1] \in d.table
  BY DEF Hops, HopsKept
<1>2. ASSUME NEW t \in AllAddrs
      PROVE  /\ (t \in u.two_hop) <=> (Into(l2, t) # {})
             /\ ptr2[t] = Cardinality(Into(l2, t)) /\ ptr2[t] \in Nat
  <2>1. ptr[t] = Cardinality(Into(l, t)) /\ ((t \in d.two_hop) <=> (Into(l, t) # {}))
    BY DEF Hops, HopsKept
  <2>2. /\ Into(l2, t) = Into(l, t) \ Into(cut, t)
        /\ Cardinality(Into(l2, t)) = Cardinality(Into(l, t)) - Cardinality(Into(cut, t))
    <3>1. CutFrom(l, cut, l2)
      BY DEF CutFrom, CutHops
    <3> QED
      BY <3>1, IntoCut
  <2>3. /\ Cardinality(Into(l2, t)) \in Nat
        /\ (Cardinality(Into(l2, t)) = 0) <=> (Into(l2, t) = {})
    <3>1. l2 \in SUBSET Pairs
      BY DEF CutHops
    <3> QED
      BY <3>1, IntoFinite
  <2>4. ptr2[t] = Cardinality(Into(l2, t))
    BY <2>1, <2>2 DEF CutHops
  <2>5. (ptr2[t] < 1) <=> (Into(l2, t) = {})
    <3> DEFINE c == Cardinality(Into(l2, t))
    <3>1. c \in Nat /\ ptr2[t] = c /\ ((c = 0) <=> (Into(l2, t) = {}))
      BY <2>3, <2>4
    <3> HIDE DEF c
    <3>2. (c < 1) <=> (c = 0)
      BY <3>1
    <3> QED
      BY <3>1, <3>2
  <2>6. (t \in u.two_hop) <=> (Into(l, t) # {} /\ ~(Into(cut, t) # {} /\ Into(l2, t) = {}))
    BY <2>1, <2>5 DEF CutHops
  <2> QED
    BY <2>2, <2>3, <2>4, <2>6
<1> QED
  BY <1>1, <1>2 DEF HopsKept, CutHops

\* Neighbour id reaches two hop neighbours that it did not reach before.
AddHops(d, u, id, new) ==
    LET added == {<<id, t>> : t \in new}
    IN  /\ id \in d.table /\ new \subseteq AllAddrs /\ \A t \in new : <<id, t>> \notin d.list2
        /\ u.list2 = d.list2 \cup added /\ u.nblist = d.nblist \cup added
        /\ u.timer2 \subseteq d.list2 \cup added /\ u.two_hop = d.two_hop \cup new
        /\ \A t \in AllAddrs : u.pointer[t] = d.pointer[t] + (IF t \in new THEN 1 ELSE 0)

LEMMA HopsAdd ==
  ASSUME NEW d, NEW u, NEW id, NEW new, d.list2 \in SUBSET Pairs, Hops(d), AddHops(d, u, id, new)
  PROVE  /\ HopsKept(u.list2, u.nblist, u.two_hop, u.pointer, u.timer2, d.table)
         /\ \A t \in AllAddrs : u.pointer[t] \in Nat
<1> DEFINE l == d.list2    m == u.list2    ptr == d.pointer    ptr2 == u.pointer
<1>1. l = d.nblist /\ \A p \in l : p[1] \in d.table
  BY DEF Hops, HopsKept
<1>2. \A p \in m : p[1] \in d.table
  BY <1>1 DEF AddHops
<1>3. ASSUME NEW t \in AllAddrs
      PROVE  /\ (t \in u.two_hop) <=> (Into(m, t) # {})
             /\ ptr2[t] = Cardinality(Into(m, t)) /\ ptr2[t] \in Nat
  <2>1. ptr[t] = Cardinality(Into(l, t)) /\ ((t \in d.two_hop) <=> (Into(l, t) # {}))
    BY DEF Hops, HopsKept
  <2>2. IsFiniteSet(Into(l, t)) /\ Cardinality(Into(l, t)) \in Nat
    BY IntoFinite
  <2>3. CASE t \in new
    <3>1. Into(m, t) = Into(l, t) \cup {<<id, t>>} /\ <<id, t>> \notin Into(l, t)
      BY <2>3 DEF Into, AddHops
    <3>2. Cardinality(Into(m, t)) = Cardinality(Into(l, t)) + 1
      BY <2>2, <3>1, FS_AddElement
    <3>3. ptr2[t] = ptr[t] + 1 /\ t \in u.two_hop
      BY <2>3 DEF AddHops
    <3> QED
      BY <2>1, <2>2, <2>3, <3>1, <3>2, <3>3
  <2>4. CASE t \notin new
    <3>1. Into(m, t) = Into(l, t)
      BY <2>4 DEF Into, AddHops
    <3>2. ptr2[t] = ptr[t] + 0 /\ ptr[t] \in Nat /\ (t \in u.two_hop <=> t \in d.two_hop)
      BY <2>1, <2>2, <2>4 DEF AddHops
    <3>3. ptr2[t] = ptr[t]
      BY <3>2
    <3> QED
      BY <2>1, <2>2, <2>4, <3>1, <3>2, <3>3
  <2> QED
    BY <2>3, <2>4
<1>4. m = u.nblist /\ u.timer2 \subseteq m
  BY <1>1 DEF AddHops
<1> QED
  BY <1>2, <1>3, <1>4 DEF HopsKept

-----------------------------------------------------------------------------
(* What the operations on two hop entries leave alone.                     *)

SamePeers(d, u) == u.links = d.links /\ u.nbr = d.nbr /\ u.table = d.table /\ u.ahead = d.ahead
SameHops(d, u) ==
    /\ u.list2 = d.list2 /\ u.nblist = d.nblist /\ u.two_hop = d.two_hop
    /\ u.pointer = d.pointer /\ u.timer2 = d.timer2

LEMMA UnlinkFields ==
  ASSUME NEW d \in TableSet, NEW pairs \in SUBSET d.list2, Hops(d)
  PROVE  LET u == UnlinkPairs(d, pairs)
         IN  /\ SamePeers(d, u) /\ u.mid = d.mid /\ u.link_changes = d.link_changes
             /\ u.changes = (d.changes \/ pairs # {})
             /\ CutHops(d, u, pairs)
             /\ u \in TableSet
<1> DEFINE u == UnlinkPairs(d, pairs)
<1>1. SamePeers(d, u) /\ u.mid = d.mid /\ u.link_changes = d.link_changes
  BY DEF SamePeers, UnlinkPairs, TableSet
<1>2. u.changes = (d.changes \/ pairs # {})
  BY DEF UnlinkPairs, TableSet
<1>3. CutHops(d, u, pairs)
  <2>1. /\ u.list2 = d.list2 \ pairs /\ u.nblist = d.nblist \ pairs /\ u.timer2 = d.timer2 \ pairs
    BY DEF UnlinkPairs, TableSet
  <2>2. u.pointer = [t \in AllAddrs |-> d.pointer[t] - Cardinality({p \in pairs : p[2] = t})]
    BY DEF UnlinkPairs, TableSet
  <2>3. u.two_hop = {t \in d.two_hop :
            ~(t \in {p[2] : p \in pairs} /\ d.pointer[t] - Cardinality({p \in pairs : p[2] = t}) < 1)}
    BY DEF UnlinkPairs, TableSet
  <2>4. \A t \in AllAddrs : u.pointer[t] = d.pointer[t] - Cardinality(Into(pairs, t))
    BY <2>2 DEF Into
  <2>5. \A t \in AllAddrs :
           (t \in u.two_hop) <=> (t \in d.two_hop /\ ~(Into(pairs, t) # {} /\ u.pointer[t] < 1))
    BY <2>2, <2>3 DEF Into
  <2> QED
    BY <2>1, <2>4, <2>5 DEF CutHops
<1>4. u \in TableSet
  <2>1. d.list2 \in SUBSET Pairs
    BY DEF TableSet
  <2>2. \A t \in AllAddrs : u.pointer[t] \in Nat
    BY <1>3, <2>1, HopsCut
  <2> QED
    BY <2>2 DEF UnlinkPairs, TableSet
<1> QED
  BY <1>1, <1>2, <1>3, <1>4

LEMMA DeleteTwoHopFields ==
  ASSUME NEW d \in TableSet, NEW ts, Hops(d)
  PROVE  LET u == olsr_delete_two_hop_neighbor_table(d, ts)
             cut == {p \in d.list2 : p[2] \in ts}
         IN  /\ SamePeers(d, u) /\ u.mid = d.mid /\ u.link_changes = d.link_changes
             /\ u.changes = (d.changes \/ cut # {})
             /\ CutHops(d, u, cut)
             /\ u \in TableSet
<1> DEFINE u == olsr_delete_two_hop_neighbor_table(d, ts)
           cut == {p \in d.list2 : p[2] \in ts}
           gone == ts \cap d.two_hop
<1>1. {p \in d.nblist : p[2] \in gone} = cut
  <2>1. d.list2 = d.nblist /\ d.list2 \in SUBSET Pairs
    BY DEF Hops, HopsKept, TableSet
  <2>2. ASSUME NEW p \in d.list2 PROVE p[2] \in d.two_hop
    <3>1. p[2] \in AllAddrs /\ p \in Into(d.list2, p[2])
      BY <2>1 DEF Into, Pairs
    <3> QED
      BY <3>1 DEF Hops, HopsKept
  <2> QED
    BY <2>1, <2>2
<1>2. SamePeers(d, u) /\ u.mid = d.mid /\ u.link_changes = d.link_changes
  BY DEF SamePeers, olsr_delete_two_hop_neighbor_table, TableSet
<1>3. /\ u.changes = (d.changes \/ cut # {})
      /\ u.list2 = d.list2 \ cut /\ u.nblist = d.nblist \ cut /\ u.timer2 = d.timer2 \ cut
      /\ u.two_hop = d.two_hop \ gone
      /\ u.pointer = [t \in AllAddrs |-> IF t \in gone THEN 0 ELSE d.pointer[t]]
  <2> HIDE DEF cut
  <2> QED
    BY <1>1 DEF olsr_delete_two_hop_neighbor_table, TableSet
<1>4. ASSUME NEW t \in AllAddrs
      PROVE  /\ u.pointer[t] = d.pointer[t] - Cardinality(Into(cut, t))
             /\ (t \in u.two_hop) <=> (t \in d.two_hop /\ ~(Into(cut, t) # {} /\ u.pointer[t] < 1))
             /\ u.pointer[t] \in Nat
  <2>1. /\ d.pointer[t] = Cardinality(Into(d.list2, t))
        /\ (t \in d.two_hop) <=> (Into(d.list2, t) # {})
    BY DEF Hops, HopsKept
  <2>2. d.pointer[t] \in Nat
    BY DEF TableSet
  <2>3. CASE t \in gone
    <3>1. Into(cut, t) = Into(d.list2, t)
      BY <2>3 DEF Into
    <3>2. u.pointer[t] = 0 /\ t \notin u.two_hop /\ t \in d.two_hop
      BY <1>3, <2>3
    <3>3. d.pointer[t] - Cardinality(Into(cut, t)) = d.pointer[t] - d.pointer[t]
      BY <2>1, <3>1
    <3>4. d.pointer[t] - d.pointer[t] = 0
      BY <2>2
    <3>5. Into(cut, t) # {}
      BY <2>1, <3>1, <3>2
    <3>6. u.pointer[t] = d.pointer[t] - Cardinality(Into(cut, t))
      BY <3>2, <3>3, <3>4, Zenon
    <3> HIDE DEF cut, u, gone
    <3> QED
      BY <3>2, <3>5, <3>6
  <2>4. CASE t \notin gone
    <3>1. Into(cut, t) = {}
      BY <2>1, <2>4 DEF Into
    <3>2. u.pointer[t] = d.pointer[t] /\ (t \in u.two_hop <=> t \in d.two_hop)
      BY <1>3, <2>4
    <3>3. Cardinality(Into(cut, t)) = 0
      BY <3>1, FS_EmptySet
    <3> QED
      BY <2>2, <3>1, <3>2, <3>3
  <2> QED
    BY <2>3, <2>4
<1>5. CutHops(d, u, cut)
  <2>1. cut \subseteq d.list2
    OBVIOUS
  <2> HIDE DEF cut, u
  <2> QED
    BY <1>3, <1>4, <2>1 DEF CutHops
<1>6. u \in TableSet
  BY <1>4 DEF olsr_delete_two_hop_neighbor_table, TableSet
<1> QED
  BY <1>2, <1>3, <1>5, <1>6

\* Main addresses are addresses.
LEMMA MainType ==
  ASSUME NEW d \in TableSet, NEW a \in AllAddrs
  PROVE  MainAddr(d, a) \in AllAddrs
  BY DEF MainAddr, TableSet

LEMMA MessageNeighborsFields ==
  ASSUME NEW d \in TableSet, NEW id \in d.table, NEW nbrs \in SUBSET AllAddrs, Hops(d)
  PROVE  LET u == process_message_neighbors(d, id, nbrs)
             new == NewlyListed(d, id, {MainAddr(d, a) : a \in nbrs})
         IN  /\ SamePeers(d, u) /\ u.mid = d.mid /\ u.link_changes = d.link_changes
             /\ u.changes = (d.changes \/ new # {})
             /\ AddHops(d, u, id, new)
             /\ u \in TableSet
<1> DEFINE u == process_message_neighbors(d, id, nbrs)
           listed == {MainAddr(d, a) : a \in nbrs}
           new == NewlyListed(d, id, listed)
           again == {t \in listed : <<id, t>> \in d.list2
                                    \/ Cardinality({a \in nbrs : MainAddr(d, a) = t}) > 1}
<1>1. listed \in SUBSET AllAddrs
  BY MainType
<1>2. /\ new \in SUBSET AllAddrs /\ (\A t \in new : <<id, t>> \notin d.list2)
      /\ {<<id, t>> : t \in again} \subseteq d.list2 \cup {<<id, t>> : t \in new}
  BY <1>1 DEF NewlyListed
<1>3. id \in Ids /\ d.list2 \in SUBSET Pairs /\ d.timer2 \subseteq d.list2
  BY DEF TableSet, Hops, HopsKept
<1>4. u = [d EXCEPT !.two_hop = @ \cup new,
                    !.pointer = [t \in AllAddrs |-> d.pointer[t] + (IF t \in new THEN 1 ELSE 0)],
                    !.list2 = @ \cup {<<id, t>> : t \in new},
                    !.nblist = @ \cup {<<id, t>> : t \in new},
                    !.timer2 = @ \cup {<<id, t>> : t \in again},
                    !.changes = @ \/ new # {}]
  BY DEF process_message_neighbors
<1> HIDE DEF new, again, u, listed
<1>5. SamePeers(d, u) /\ u.mid = d.mid /\ u.link_changes = d.link_changes
  BY <1>4 DEF SamePeers, TableSet
<1>6. u.changes = (d.changes \/ new # {})
  BY <1>4 DEF TableSet
<1>7. AddHops(d, u, id, new)
  <2>1. /\ u.list2 = d.list2 \cup {<<id, t>> : t \in new}
        /\ u.nblist = d.nblist \cup {<<id, t>> : t \in new}
        /\ u.timer2 = d.timer2 \cup {<<id, t>> : t \in again}
        /\ u.two_hop = d.two_hop \cup new
        /\ u.pointer = [t \in AllAddrs |-> d.pointer[t] + (IF t \in new THEN 1 ELSE 0)]
    BY <1>4 DEF TableSet
  <2> QED
    BY <1>2, <1>3, <2>1 DEF AddHops
<1>8. u \in TableSet
  <2>1. \A t \in AllAddrs : u.pointer[t] \in Nat
    BY <1>3, <1>7, HopsAdd
  <2>2. {<<id, t>> : t \in new} \subseteq Pairs /\ {<<id, t>> : t \in again} \subseteq Pairs
    BY <1>2, <1>3 DEF Pairs
  <2> QED
    BY <1>2, <1>4, <2>1, <2>2 DEF TableSet
<1> QED
  BY <1>5, <1>6, <1>7, <1>8 DEF u, new, listed

-----------------------------------------------------------------------------
(* Main addresses and the neighbour table.                                 *)

Declared == HelloPairs \cup MidPairs

LEMMA OneMain ==
  ASSUME NEW x, NEW y, NEW z, <<x, y>> \in Declared, <<x, z>> \in Declared
  PROVE  y = z
  BY MainAssumption DEF Declared

LEMMA MainIsNoAlias ==
  ASSUME NEW x, NEW y, NEW w, <<x, y>> \in Declared, <<w, x>> \in Declared
  PROVE  y = x
  BY MainAssumption DEF Declared

LEMMA LookupIn ==
  ASSUME NEW d, Distinct(d.nbr, d.table), Chained(d.ahead, d.table), d.table \subseteq Ids, NEW a
  PROVE  /\ Lookup(d, a) = {id \in d.table : d.nbr[id].addr = a}
         /\ \A i, j \in Lookup(d, a) : i = j
<1> DEFINE found == {id \in d.table : d.nbr[id].addr = a}
<1>1. \A i, j \in found : i = j
  BY DEF Distinct
<1>2. \A i \in found : <<i, i>> \notin d.ahead
  BY DEF Chained
<1> QED
  BY <1>1, <1>2 DEF Lookup

LEMMA LookupFinds ==
  ASSUME NEW d, Peers(d), d.table \subseteq Ids, NEW a
  PROVE  /\ Lookup(d, a) = {id \in d.table : d.nbr[id].addr = a}
         /\ \A i, j \in Lookup(d, a) : i = j
  BY LookupIn DEF Peers, PeersKept

\* The address of a neighbour is the main address of a sender of HELLOs.
LEMMA NeighborSends ==
  ASSUME NEW d \in TableSet, Peers(d), NEW id \in d.table
  PROVE  \E k \in Present(d.links) : /\ d.links[k].nbr = id /\ k[1] \in Addrs
                                     /\ <<k[1], d.nbr[id].addr>> \in HelloPairs
<1>1. PICK k \in LinksTo(d.links, id) : TRUE
  BY DEF Peers, PeersKept, Counted
<1>2. k \in Present(d.links) /\ d.links[k].nbr = id
  BY DEF LinksTo
<1>3. k[1] \in Addrs
  BY <1>2, EntryIsLink DEF TableSet
<1> QED
  BY <1>2, <1>3 DEF Peers, PeersKept, LinksAttached

\* No neighbour entry stands under an alias address.
LEMMA NoBogus ==
  ASSUME NEW d \in TableSet, Peers(d), NEW a, NEW main, <<a, main>> \in Declared, a # main
  PROVE  Lookup(d, a) = {}
<1>1. ASSUME NEW id \in d.table PROVE d.nbr[id].addr # a
  <2>1. PICK k \in Present(d.links) : <<k[1], d.nbr[id].addr>> \in HelloPairs
    BY NeighborSends
  <2> QED
    BY <2>1, MainIsNoAlias DEF Declared
<1>2. d.table \subseteq Ids
  BY DEF TableSet
<1> QED
  BY <1>1, <1>2, LookupFinds

\* There is memory for an entry of a sender that has none.
LEMMA FreeId ==
  ASSUME NEW d \in TableSet, Peers(d), NEW from, NEW main, <<from, main>> \in HelloPairs,
         Lookup(d, main) = {}
  PROVE  \E i \in Ids : i \notin d.table
<1> DEFINE mains == {p[2] : p \in HelloPairs}
           f == [i \in Ids |-> d.nbr[i].addr]
<1> SUFFICES ASSUME \A i \in Ids : i \in d.table
             PROVE  FALSE
  OBVIOUS
<1>1. IsFiniteSet(mains) /\ main \in mains
  <2>1. mains \in SUBSET Addrs /\ main \in mains
    BY NeighborhoodAssumption
  <2> QED
    BY <2>1, NeighborhoodAssumption, FS_Subset
<1>2. /\ IsFiniteSet(mains \ {main}) /\ Cardinality(mains \ {main}) = Cardinality(mains) - 1
      /\ Cardinality(mains) \in Nat
  <2> HIDE DEF mains
  <2> QED
    BY <1>1, FS_RemoveElement, FS_CardinalityType
<1>3. Cardinality(Ids) \in Nat /\ Cardinality(mains) <= Cardinality(Ids) /\ IsFiniteSet(Ids)
  BY IdsAssumption, FS_CardinalityType
<1>4. Cardinality(mains \ {main}) < Cardinality(Ids)
  <2> HIDE DEF mains
  <2> QED
    BY <1>2, <1>3
<1>5. d.table \subseteq Ids
  BY DEF TableSet
<1>6. ASSUME NEW i \in Ids PROVE d.nbr[i].addr \in mains \ {main}
  <2>1. PICK k \in Present(d.links) : <<k[1], d.nbr[i].addr>> \in HelloPairs
    BY NeighborSends
  <2>2. d.nbr[i].addr # main
    BY <1>5, LookupFinds
  <2> QED
    BY <2>1, <2>2
<1>7. f \in [Ids -> mains \ {main}]
  BY <1>6
<1>8. \E i, j \in Ids : i # j /\ f[i] = f[j]
  <2> HIDE DEF mains, f
  <2> QED
    BY <1>2, <1>3, <1>4, <1>7, FS_PigeonHole
<1> QED
  BY <1>8 DEF Peers, PeersKept, Distinct

\* Statuses of links and of neighbours do not matter to how they hold each
\* other.
SameShape(links, nbr, table, links2, nbr2) ==
    /\ Present(links2) = Present(links)
    /\ \A k \in Present(links) : links2[k].nbr = links[k].nbr
    /\ \A id \in table : nbr2[id].addr = nbr[id].addr /\ nbr2[id].linkcount = nbr[id].linkcount

LEMMA ShapeKept ==
  ASSUME NEW links, NEW nbr, NEW table, NEW ahead, NEW links2, NEW nbr2,
         PeersKept(links, nbr, table, ahead), SameShape(links, nbr, table, links2, nbr2)
  PROVE  PeersKept(links2, nbr2, table, ahead)
<1>1. \A id : LinksTo(links2, id) = LinksTo(links, id)
  BY DEF LinksTo, SameShape
<1>2. LinksAttached(links2, nbr2, table)
  BY DEF PeersKept, LinksAttached, SameShape
<1>3. Counted(links2, nbr2, table)
  BY <1>1 DEF PeersKept, Counted, SameShape
<1>4. Distinct(nbr2, table) /\ Chained(ahead, table)
  BY DEF PeersKept, Distinct, SameShape
<1> QED
  BY <1>2, <1>3, <1>4 DEF PeersKept

\* Link k to neighbour id is new, and id may be new as well.
LinkAdded(links, nbr, table, links2, nbr2, table2, k, id) ==
    /\ Present(links2) = Present(links) \cup {k} /\ k \in LinkKeys /\ k \notin Present(links)
    /\ links2[k].nbr = id /\ \A x \in Present(links) : links2[x] = links[x]
    /\ table2 = table \cup {id} /\ <<k[1], nbr2[id].addr>> \in HelloPairs
    /\ \A i \in table : nbr2[i].addr = nbr[i].addr
    /\ \A i \in table \ {id} : nbr2[i].linkcount = nbr[i].linkcount
    /\ id \in table => nbr2[id].linkcount = nbr[id].linkcount + 1
    /\ id \notin table => nbr2[id].linkcount = 1

LEMMA LinkAddedKept ==
  ASSUME NEW links, NEW nbr, NEW table, NEW ahead, NEW links2, NEW nbr2, NEW table2, NEW ahead2,
         NEW k, NEW id, PeersKept(links, nbr, table, ahead),
         LinkAdded(links, nbr, table, links2, nbr2, table2, k, id),
         Distinct(nbr2, table2), Chained(ahead2, table2)
  PROVE  PeersKept(links2, nbr2, table2, ahead2)
<1>1. LinksAttached(links2, nbr2, table2)
  BY DEF PeersKept, LinksAttached, LinkAdded
<1>2. ASSUME NEW i \in table2, i # id
      PROVE  LinksTo(links2, i) # {} /\ nbr2[i].linkcount = Cardinality(LinksTo(links2, i))
  <2>1. LinksTo(links2, i) = LinksTo(links, i) /\ i \in table
    BY <1>2 DEF LinksTo, LinkAdded
  <2> QED
    BY <1>2, <2>1 DEF PeersKept, Counted, LinkAdded
<1>3. LinksTo(links2, id) = LinksTo(links, id) \cup {k} /\ k \notin LinksTo(links, id)
  BY DEF LinksTo, LinkAdded
<1>4. nbr2[id].linkcount = Cardinality(LinksTo(links2, id))
  <2>1. CASE id \in table
    <3>1. nbr2[id].linkcount = Cardinality(LinksTo(links, id)) + 1
      BY <2>1 DEF PeersKept, Counted, LinkAdded
    <3> QED
      BY <1>3, <3>1, LinksFinite, FS_AddElement
  <2>2. CASE id \notin table
    <3>1. LinksTo(links, id) = {}
      BY <2>2 DEF PeersKept, LinksAttached, LinksTo
    <3>2. LinksTo(links2, id) = {k}
      BY <1>3, <3>1
    <3>3. nbr2[id].linkcount = 1
      BY <2>2 DEF LinkAdded
    <3> QED
      BY <3>2, <3>3, FS_Singleton
  <2> QED
    BY <2>1, <2>2
<1>5. Counted(links2, nbr2, table2)
  BY <1>2, <1>3, <1>4 DEF Counted
<1> QED
  BY <1>1, <1>5 DEF PeersKept

\* Links ks go, and so do the neighbours in last, which have no other links.
LinksGone(links, nbr, table, links2, nbr2, table2, ks, last) ==
    /\ ks \subseteq Present(links) /\ Present(links2) = Present(links) \ ks
    /\ \A x \in Present(links) \ ks : links2[x] = links[x]
    /\ table2 = table \ last
    /\ \A id \in table : (id \in last) <=> (LinksTo(links, id) \subseteq ks)
    /\ \A id \in table2 : /\ nbr2[id].addr = nbr[id].addr
                          /\ nbr2[id].linkcount =
                                nbr[id].linkcount - Cardinality(LinksTo(links, id) \cap ks)

LEMMA LinksGoneKept ==
  ASSUME NEW links, NEW nbr, NEW table, NEW ahead, NEW links2, NEW nbr2, NEW table2, NEW ahead2,
         NEW ks, NEW last, PeersKept(links, nbr, table, ahead),
         LinksGone(links, nbr, table, links2, nbr2, table2, ks, last), Chained(ahead2, table2)
  PROVE  PeersKept(links2, nbr2, table2, ahead2)
<1>1. LinksAttached(links2, nbr2, table2)
  <2> SUFFICES ASSUME NEW k \in Present(links2)
               PROVE  links2[k].nbr \in table2 /\ <<k[1], nbr2[links2[k].nbr].addr>> \in HelloPairs
    BY DEF LinksAttached
  <2>1. k \in Present(links) /\ k \notin ks /\ links2[k] = links[k]
    BY DEF LinksGone
  <2>2. links[k].nbr \in table /\ <<k[1], nbr[links[k].nbr].addr>> \in HelloPairs
    BY <2>1 DEF PeersKept, LinksAttached
  <2>3. links[k].nbr \notin last
    BY <2>1, <2>2 DEF LinksGone, LinksTo
  <2> QED
    BY <2>1, <2>2, <2>3 DEF LinksGone
<1>2. ASSUME NEW id \in table2
      PROVE  LinksTo(links2, id) # {} /\ nbr2[id].linkcount = Cardinality(LinksTo(links2, id))
  <2> DEFINE cut == LinksTo(links, id) \cap ks
  <2>1. id \in table /\ id \notin last
    BY DEF LinksGone
  <2>2. LinksTo(links2, id) = LinksTo(links, id) \ cut
    BY DEF LinksGone, LinksTo
  <2>3. LinksTo(links2, id) # {}
    BY <2>1, <2>2 DEF LinksGone
  <2>4. cut \subseteq LinksTo(links, id)
    OBVIOUS
  <2>5. nbr2[id].linkcount = nbr[id].linkcount - Cardinality(cut)
    BY DEF LinksGone
  <2>6. nbr[id].linkcount = Cardinality(LinksTo(links, id))
    BY <2>1 DEF PeersKept, Counted
  <2> HIDE DEF cut
  <2>7. Cardinality(LinksTo(links2, id)) = Cardinality(LinksTo(links, id)) - Cardinality(cut)
    BY <2>2, <2>4, LinksFinite, Without
  <2> QED
    BY <2>3, <2>5, <2>6, <2>7
<1>3. Counted(links2, nbr2, table2)
  BY <1>2 DEF Counted
<1>4. Distinct(nbr2, table2)
  <2>1. \A id \in table2 : id \in table /\ nbr2[id].addr = nbr[id].addr
    BY DEF LinksGone
  <2> QED
    BY <2>1 DEF PeersKept, Distinct
<1> QED
  BY <1>1, <1>3, <1>4 DEF PeersKept

LEMMA FreedType == Freed \in Neighbors
  BY DEF Freed, NewNeighbor, Neighbors, WILL_NEVER

\* olsr_delete_neighbor_table finds exactly the entries it is asked for.
AddressesOf(d, gone, as) == gone \subseteq d.table /\ as = {d.nbr[id].addr : id \in gone}

LEMMA DeleteNeighborFields ==
  ASSUME NEW d \in TableSet, Peers(d), Hops(d), NEW gone, NEW as, AddressesOf(d, gone, as)
  PROVE  LET u == olsr_delete_neighbor_table(d, as)
         IN  /\ u \in TableSet /\ Hops(u) /\ u.links = d.links /\ u.mid = d.mid
             /\ u.table = d.table \ gone
             /\ u.ahead = {p \in d.ahead : p[1] \notin gone /\ p[2] \notin gone}
             /\ u.nbr = [i \in Ids |-> IF i \in gone THEN Freed ELSE d.nbr[i]]
             /\ u.changes = (d.changes \/ gone # {})
             /\ u.list2 = {p \in d.list2 : p[1] \notin gone}
<1> DEFINE u == olsr_delete_neighbor_table(d, as)
           cut == {p \in d.list2 : p[1] \in gone}
           v == UnlinkPairs(d, cut)
<1>0. /\ d.table \subseteq Ids /\ d.list2 \in SUBSET Pairs /\ gone \subseteq d.table
      /\ as = {d.nbr[id].addr : id \in gone}
  BY DEF TableSet, AddressesOf
<1>1. UNION {Lookup(d, a) : a \in as} = gone
  <2>1. \A a : Lookup(d, a) = {id \in d.table : d.nbr[id].addr = a}
    BY <1>0, LookupFinds
  <2>2. \A i, j \in d.table : d.nbr[i].addr = d.nbr[j].addr => i = j
    BY DEF Peers, PeersKept, Distinct
  <2>3. ASSUME NEW id \in gone PROVE \E a \in as : id \in Lookup(d, a)
    <3>1. d.nbr[id].addr \in as
      BY <1>0
    <3>2. id \in Lookup(d, d.nbr[id].addr)
      BY <1>0, <2>1
    <3> QED
      BY <3>1, <3>2
  <2>4. ASSUME NEW a \in as, NEW id \in Lookup(d, a) PROVE id \in gone
    <3>1. PICK j \in gone : a = d.nbr[j].addr
      BY <1>0
    <3> QED
      BY <1>0, <2>1, <2>2, <2>4, <3>1
  <2> QED
    BY <2>3, <2>4
<1>2. u = [Free(v, gone) EXCEPT !.changes = @ \/ gone # {}]
  BY <1>1 DEF olsr_delete_neighbor_table
<1>3. cut \in SUBSET d.list2
  OBVIOUS
<1>4. /\ v \in TableSet /\ v.links = d.links /\ v.nbr = d.nbr /\ v.table = d.table
      /\ v.ahead = d.ahead /\ v.mid = d.mid /\ v.changes = (d.changes \/ cut # {})
      /\ CutHops(d, v, cut)
  <2> HIDE DEF cut
  <2> QED
    BY <1>3, UnlinkFields DEF SamePeers
<1>5. cut # {} => gone # {}
  OBVIOUS
<1>6. v.list2 = {p \in d.list2 : p[1] \notin gone}
  <2>1. v.list2 = d.list2 \ cut
    BY <1>4 DEF CutHops
  <2> HIDE DEF v
  <2> QED
    BY <2>1
<1>7. HopsKept(v.list2, v.nblist, v.two_hop, v.pointer, v.timer2, d.table)
  <2> HIDE DEF cut, v
  <2> QED
    BY <1>0, <1>4, HopsCut
<1> HIDE DEF cut, v, u
<1>8. /\ u.links = v.links /\ u.mid = v.mid /\ SameHops(v, u) /\ u.changes = (v.changes \/ gone # {})
      /\ u.table = v.table \ gone
      /\ u.ahead = {p \in v.ahead : p[1] \notin gone /\ p[2] \notin gone}
  BY <1>2, <1>4 DEF Free, Dequeued, TableSet, SameHops
<1>9. u.nbr = [i \in Ids |-> IF i \in gone THEN Freed ELSE v.nbr[i]]
  BY <1>2, <1>4 DEF Free, Dequeued, TableSet
<1>10. Hops(u)
  <2>1. \A p \in u.list2 : p[1] \in u.table
    BY <1>4, <1>6, <1>7, <1>8 DEF SameHops, HopsKept
  <2> QED
    BY <1>7, <1>8, <2>1 DEF Hops, SameHops, HopsKept
<1>11. u \in TableSet
  <2>1. u.nbr \in [Ids -> Neighbors]
    BY <1>4, <1>9, FreedType DEF TableSet
  <2> QED
    BY <1>2, <1>4, <2>1 DEF Free, Dequeued, TableSet
<1> QED
  BY <1>4, <1>5, <1>6, <1>8, <1>9, <1>10, <1>11 DEF u, SameHops

-----------------------------------------------------------------------------
(* The basis of the MPR calculation.                                       *)

\* u shows the same symmetric neighbours, willingness and two hop neighbours.
SameView(d, u) ==
    /\ {i \in u.table : u.nbr[i].status = "SYM"} = {i \in d.table : d.nbr[i].status = "SYM"}
    /\ \A i \in d.table : d.nbr[i].status = "SYM" => /\ u.nbr[i].addr = d.nbr[i].addr
                                                    /\ u.nbr[i].will = d.nbr[i].will
    /\ u.list2 = d.list2

LEMMA ViewIsBasis ==
  ASSUME NEW d, NEW u, SameView(d, u)
  PROVE  Basis(u) = Basis(d)
<1> DEFINE S == {i \in d.table : d.nbr[i].status = "SYM"}
           F(e, i) == <<e.nbr[i].addr, e.nbr[i].will, {p[2] : p \in {q \in e.list2 : q[1] = i}}>>
<1>1. Basis(d) = {F(d, i) : i \in S} /\ Basis(u) = {F(u, i) : i \in S}
  BY DEF Basis, SameView
<1>2. \A i \in S : F(u, i) = F(d, i)
  BY DEF SameView
<1> HIDE DEF F, S
<1> QED
  BY <1>1, <1>2

\* A step asks for a recalculation or leaves the view and the request alone.
Reported(d, u) == u.changes \/ (u.changes = d.changes /\ SameView(d, u))

LEMMA ReportedUpToDate ==
  ASSUME NEW d, NEW u, NEW b, UpToDate(d, b), Reported(d, u)
  PROVE  UpToDate(u, b)
  BY ViewIsBasis DEF UpToDate, Reported

LEMMA ReportedSame ==
  ASSUME NEW d, NEW u, SamePeers(d, u), u.list2 = d.list2, u.changes = d.changes
  PROVE  Reported(d, u)
  BY DEF Reported, SameView, SamePeers

-----------------------------------------------------------------------------
(* Links go.                                                               *)

\* The other links are not touched, nor is the status of their neighbours.
OthersStay(d, v, ks) ==
    /\ Present(v.links) = Present(d.links) \ ks
    /\ \A x \in Present(d.links) \ ks :
          v.links[x] = d.links[x] /\ v.nbr[v.links[x].nbr].status = d.nbr[d.links[x].nbr].status

LEMMA DeleteLinksKept ==
  ASSUME NEW d, Kept(d), NEW ks \in SUBSET Linked(d)
  PROVE  /\ Kept(DeleteLinks(d, ks)) /\ Reported(d, DeleteLinks(d, ks))
         /\ OthersStay(d, DeleteLinks(d, ks), ks)
<1> DEFINE cut(id) == Cardinality({k \in ks : d.links[k].nbr = id})
           last == {id \in Ids : cut(id) > 0 /\ d.nbr[id].linkcount = cut(id)}
           as == {d.nbr[id].addr : id \in last}
           u == olsr_delete_neighbor_table(d, as)
           v == DeleteLinks(d, ks)
           less == [id \in Ids |-> IF id \in last THEN u.nbr[id]
                                   ELSE [u.nbr[id] EXCEPT !.linkcount = @ - cut(id)]]
<1>1. /\ d \in TableSet /\ Peers(d) /\ Hops(d) /\ MidKept(d.mid) /\ d.table \subseteq Ids
      /\ d.links \in LinkTables
  BY DEF Kept, TableSet
<1>2. v = [u EXCEPT !.nbr = less,
                    !.links = [k \in LinkKeys |-> IF k \in ks THEN NoLink ELSE @[k]],
                    !.changes = @ \/ ks # {}]
  BY DEF DeleteLinks
<1>3. ASSUME NEW id \in Ids
      PROVE  /\ {k \in ks : d.links[k].nbr = id} = LinksTo(d.links, id) \cap ks
             /\ cut(id) = Cardinality(LinksTo(d.links, id) \cap ks) /\ cut(id) \in Nat
             /\ (cut(id) = 0) <=> (LinksTo(d.links, id) \cap ks = {})
  <2> DEFINE c == LinksTo(d.links, id) \cap ks
  <2>1. {k \in ks : d.links[k].nbr = id} = c
    BY LinkedPresent DEF LinksTo
  <2>2. c \subseteq LinksTo(d.links, id) /\ IsFiniteSet(LinksTo(d.links, id))
    BY LinksFinite
  <2> HIDE DEF c
  <2>3. IsFiniteSet(c) /\ Cardinality(c) \in Nat /\ ((Cardinality(c) = 0) <=> (c = {}))
    BY <2>2, Without, FS_EmptySet
  <2> QED
    BY <2>1, <2>3 DEF c
<1>4. ASSUME NEW id \in Ids, id \notin d.table PROVE LinksTo(d.links, id) = {}
  BY <1>1, <1>4 DEF Peers, PeersKept, LinksAttached, LinksTo
<1>5. ASSUME NEW id \in Ids PROVE (id \in last) <=> (id \in d.table /\ LinksTo(d.links, id) \subseteq ks)
  <2> DEFINE c == LinksTo(d.links, id) \cap ks
  <2>1. cut(id) = Cardinality(c) /\ cut(id) \in Nat /\ ((cut(id) = 0) <=> (c = {}))
    BY <1>3
  <2>2. CASE id \notin d.table
    BY <1>4, <2>1, <2>2
  <2>3. CASE id \in d.table
    <3>1. LinksTo(d.links, id) # {} /\ d.nbr[id].linkcount = Cardinality(LinksTo(d.links, id))
      BY <1>1, <2>3 DEF Peers, PeersKept, Counted
    <3>2. c \subseteq LinksTo(d.links, id) /\ IsFiniteSet(LinksTo(d.links, id))
      BY LinksFinite
    <3>3. (Cardinality(LinksTo(d.links, id)) = Cardinality(c)) <=> (LinksTo(d.links, id) = c)
      <4> HIDE DEF c
      <4> QED
        BY <3>2, Without
    <3>4. (LinksTo(d.links, id) = c) <=> (LinksTo(d.links, id) \subseteq ks)
      OBVIOUS
    <3>5. (id \in last) <=> (cut(id) > 0 /\ Cardinality(LinksTo(d.links, id)) = Cardinality(c))
      BY <2>1, <3>1
    <3>6. (cut(id) > 0) <=> (c # {})
      <4> HIDE DEF c
      <4> QED
        BY <2>1
    <3> QED
      BY <2>3, <3>1, <3>3, <3>4, <3>5, <3>6
  <2> QED
    BY <2>2, <2>3
<1>6. last \in SUBSET d.table
  BY <1>5
<1>7. /\ u \in TableSet /\ Hops(u) /\ u.links = d.links /\ u.mid = d.mid
      /\ u.table = d.table \ last
      /\ u.ahead = {p \in d.ahead : p[1] \notin last /\ p[2] \notin last}
      /\ u.nbr = [i \in Ids |-> IF i \in last THEN Freed ELSE d.nbr[i]]
      /\ u.changes = (d.changes \/ last # {})
      /\ u.list2 = {p \in d.list2 : p[1] \notin last}
  <2>1. AddressesOf(d, last, as)
    BY <1>6 DEF AddressesOf
  <2> HIDE DEF last, as
  <2> QED
    BY <1>1, <2>1, DeleteNeighborFields
<1> HIDE DEF u, v, last, cut, as, less
<1>8. /\ v.table = u.table /\ v.ahead = u.ahead /\ SameHops(u, v) /\ v.mid = u.mid
      /\ v.changes = (u.changes \/ ks # {})
  BY <1>2, <1>7 DEF TableSet, SameHops
<1>9. /\ v.links = [k \in LinkKeys |-> IF k \in ks THEN NoLink ELSE d.links[k]]
      /\ v.links \in LinkTables
  <2>1. v.links = [k \in LinkKeys |-> IF k \in ks THEN NoLink ELSE d.links[k]]
    BY <1>2, <1>7 DEF TableSet
  <2> QED
    BY <1>1, <2>1 DEF LinkTables
<1>10. \A id \in Ids : /\ id \notin last => /\ v.nbr[id].linkcount = d.nbr[id].linkcount - cut(id)
                                           /\ v.nbr[id].addr = d.nbr[id].addr
                                           /\ v.nbr[id].status = d.nbr[id].status
                                           /\ v.nbr[id].will = d.nbr[id].will
  <2>1. v.nbr = less
    BY <1>2, <1>7 DEF TableSet
  <2>2. \A id \in Ids : d.nbr[id] \in Neighbors
    BY <1>1 DEF TableSet
  <2> QED
    BY <1>7, <2>1, <2>2 DEF Neighbors, less
<1>11. v \in TableSet
  <2>1. \A id \in Ids : cut(id) \in Nat /\ u.nbr[id] \in Neighbors
    BY <1>3, <1>7 DEF TableSet
  <2>2. less \in [Ids -> Neighbors]
    BY <2>1 DEF Neighbors, less
  <2>3. v.nbr \in [Ids -> Neighbors]
    BY <1>2, <1>7, <2>2 DEF TableSet
  <2> QED
    BY <1>2, <1>7, <1>9, <2>3 DEF TableSet
<1>12. Peers(v)
  <2>1. LinksGone(d.links, d.nbr, d.table, v.links, v.nbr, v.table, ks, last)
    <3>1. ks \subseteq Present(d.links)
      BY LinkedPresent
    <3>2. Present(v.links) = Present(d.links) \ ks
      BY <1>9 DEF Present
    <3>3. \A x \in Present(d.links) \ ks : v.links[x] = d.links[x]
      BY <1>9 DEF Present
    <3>4. \A id \in d.table : (id \in last) <=> (LinksTo(d.links, id) \subseteq ks)
      BY <1>1, <1>5
    <3>5. v.table = d.table \ last
      BY <1>7, <1>8
    <3>6. \A id \in v.table : /\ v.nbr[id].addr = d.nbr[id].addr
                              /\ v.nbr[id].linkcount =
                                   d.nbr[id].linkcount - Cardinality(LinksTo(d.links, id) \cap ks)
      BY <1>1, <1>3, <1>10, <3>5
    <3> QED
      BY <3>1, <3>2, <3>3, <3>4, <3>5, <3>6 DEF LinksGone
  <2>2. Chained(v.ahead, v.table)
    BY <1>1, <1>7, <1>8 DEF Peers, PeersKept, Chained
  <2> QED
    BY <1>1, <2>1, <2>2, LinksGoneKept DEF Peers
<1>13. Hops(v)
  BY <1>7, <1>8 DEF Hops, SameHops
<1>14. Kept(v)
  BY <1>1, <1>7, <1>8, <1>11, <1>12, <1>13 DEF Kept
<1>15. Reported(d, v)
  <2>1. CASE ks # {}
    BY <1>8, <2>1 DEF Reported
  <2>2. CASE ks = {}
    <3>1. last = {}
      BY <1>1, <1>5, <1>6, <2>2 DEF Peers, PeersKept, Counted
    <3>2. v.changes = d.changes /\ v.table = d.table
      BY <1>1, <1>7, <1>8, <2>2, <3>1 DEF TableSet
    <3>3. v.list2 = d.list2
      BY <1>7, <1>8, <3>1 DEF SameHops
    <3> QED
      BY <1>1, <1>10, <3>1, <3>2, <3>3 DEF Reported, SameView
  <2> QED
    BY <2>1, <2>2
<1>16. OthersStay(d, v, ks)
  <2>1. /\ Present(v.links) = Present(d.links) \ ks
        /\ \A x \in Present(d.links) \ ks : v.links[x] = d.links[x]
    BY <1>9 DEF Present
  <2>2. ASSUME NEW x \in Present(d.links) \ ks
        PROVE  v.nbr[d.links[x].nbr].status = d.nbr[d.links[x].nbr].status
    <3>1. d.links[x].nbr \in Ids
      BY <1>1, EntryIsLink
    <3>2. d.links[x].nbr \notin last
      BY <1>5, <3>1 DEF LinksTo
    <3> QED
      BY <1>10, <3>1, <3>2
  <2> QED
    BY <2>1, <2>2 DEF OthersStay
<1> QED
  BY <1>14, <1>15, <1>16 DEF v

-----------------------------------------------------------------------------
(* Statuses.                                                               *)

LEMMA CutKept ==
  ASSUME NEW d, NEW u, Kept(d), u \in TableSet, SamePeers(d, u), u.mid = d.mid,
         NEW cut, CutHops(d, u, cut)
  PROVE  Kept(u)
<1>1. d.list2 \in SUBSET Pairs /\ Hops(d) /\ u.table = d.table
  BY DEF Kept, TableSet, SamePeers
<1>2. Hops(u)
  BY <1>1, HopsCut DEF Hops
<1> QED
  BY <1>2 DEF Kept, Peers, SamePeers

\* One neighbour's status and willingness change.
Restated(d, u, id) ==
    /\ u.links = d.links /\ u.table = d.table /\ u.ahead = d.ahead /\ u.mid = d.mid
    /\ SameHops(d, u)
    /\ \A i \in Ids : u.nbr[i].addr = d.nbr[i].addr /\ u.nbr[i].linkcount = d.nbr[i].linkcount
    /\ \A i \in Ids \ {id} : u.nbr[i] = d.nbr[i]

LEMMA RestatedKept ==
  ASSUME NEW d, NEW u, NEW id, Kept(d), u \in TableSet, Restated(d, u, id)
  PROVE  Kept(u)
<1>1. d.table \subseteq Ids
  BY DEF Kept, TableSet
<1>2. SameShape(d.links, d.nbr, d.table, u.links, u.nbr)
  BY <1>1 DEF SameShape, Restated
<1>3. Peers(u)
  BY <1>2, ShapeKept DEF Kept, Peers, Restated
<1> QED
  BY <1>3 DEF Kept, Restated, Hops, SameHops

LEMMA StatusKept ==
  ASSUME NEW d, Kept(d), NEW id \in d.table, NEW sym \in BOOLEAN
  PROVE  LET u == update_neighbor_status(d, id, sym)
         IN  /\ Kept(u) /\ Reported(d, u)
             /\ u.links = d.links /\ u.table = d.table /\ u.mid = d.mid
             /\ \A i \in Ids : u.nbr[i].addr = d.nbr[i].addr
             /\ \A i \in Ids \ {id} : u.nbr[i] = d.nbr[i]
             /\ (u.nbr[id].status = "SYM") <=> sym
             /\ d.changes => u.changes
<1> DEFINE was == d.nbr[id].status = "SYM"
           v == IF sym /\ ~was THEN olsr_delete_two_hop_neighbor_table(d, {d.nbr[id].addr}) ELSE d
           u == update_neighbor_status(d, id, sym)
           new == IF sym THEN "SYM" ELSE "NOT_SYM"
<1>1. d \in TableSet /\ Hops(d) /\ id \in Ids /\ d.nbr[id] \in Neighbors
  BY DEF Kept, TableSet
<1>2. /\ Kept(v) /\ v \in TableSet /\ SamePeers(d, v) /\ v.mid = d.mid
      /\ v = d \/ sym # was
      /\ d.changes => v.changes
  <2>1. CASE sym /\ ~was
    <3> DEFINE cut == {p \in d.list2 : p[2] \in {d.nbr[id].addr}}
    <3>1. /\ v \in TableSet /\ SamePeers(d, v) /\ v.mid = d.mid /\ CutHops(d, v, cut)
          /\ v.changes = (d.changes \/ cut # {})
      BY <1>1, <2>1, DeleteTwoHopFields
    <3> HIDE DEF v, cut
    <3> QED
      BY <2>1, <3>1, CutKept
  <2>2. CASE ~(sym /\ ~was)
    BY <1>1, <2>2 DEF SamePeers
  <2> QED
    BY <2>1, <2>2
<1>3. u = [v EXCEPT !.nbr[id].status = new, !.changes = @ \/ (sym # was),
                    !.link_changes = @ \/ (sym # was)]
  BY DEF update_neighbor_status
<1>4. new \in {"SYM", "NOT_SYM"} /\ ((new = "SYM") <=> sym)
  OBVIOUS
<1> HIDE DEF v, u, new, was
<1>5. /\ u.links = v.links /\ u.table = v.table /\ u.ahead = v.ahead /\ u.mid = v.mid
      /\ SameHops(v, u) /\ u.changes = (v.changes \/ (sym # was))
  BY <1>2, <1>3 DEF TableSet, SameHops
<1>6. u.nbr = [v.nbr EXCEPT ![id].status = new]
  BY <1>2, <1>3 DEF TableSet
<1>7. /\ \A i \in Ids : u.nbr[i].addr = v.nbr[i].addr /\ u.nbr[i].linkcount = v.nbr[i].linkcount
                        /\ u.nbr[i].will = v.nbr[i].will
      /\ \A i \in Ids \ {id} : u.nbr[i] = v.nbr[i]
      /\ u.nbr[id].status = new /\ u.nbr \in [Ids -> Neighbors]
  <2>1. v.nbr \in [Ids -> Neighbors]
    BY <1>2 DEF TableSet
  <2> QED
    BY <1>1, <1>4, <1>6, <2>1 DEF Neighbors
<1>8. u \in TableSet
  BY <1>2, <1>3, <1>7 DEF TableSet
<1>9. Kept(u)
  <2>1. Restated(v, u, id)
    BY <1>5, <1>7 DEF Restated
  <2> QED
    BY <1>2, <1>8, <2>1, RestatedKept
<1>10. Reported(d, u)
  <2>1. CASE sym # was
    BY <1>5, <2>1 DEF Reported
  <2>2. CASE sym = was
    <3>1. v = d /\ u.changes = d.changes /\ was \in BOOLEAN
      BY <1>1, <1>2, <1>5, <2>2 DEF TableSet, was
    <3>2. (u.nbr[id].status = "SYM") <=> (d.nbr[id].status = "SYM")
      BY <1>4, <1>7, <2>2 DEF was
    <3>3. d.table \subseteq Ids
      BY <1>1 DEF TableSet
    <3> QED
      BY <1>5, <1>7, <3>1, <3>2, <3>3 DEF Reported, SameView, SameHops
  <2> QED
    BY <2>1, <2>2
<1> QED
  BY <1>2, <1>4, <1>5, <1>7, <1>9, <1>10 DEF u, SamePeers

-----------------------------------------------------------------------------
(* Links come and change.                                                  *)

\* Link k changes to e, which points to the same neighbour.
Relinked(d, u, k, e) ==
    /\ e \in LinkEntries /\ k \in Present(d.links) /\ e.nbr = d.links[k].nbr
    /\ u = [d EXCEPT !.links[k] = e]

LEMMA RelinkKept ==
  ASSUME NEW d, NEW u, NEW k, NEW e, Kept(d), Relinked(d, u, k, e)
  PROVE  /\ Kept(u) /\ Reported(d, u) /\ Present(u.links) = Present(d.links)
         /\ u.links[k] = e /\ \A x \in Present(d.links) \ {k} : u.links[x] = d.links[x]
         /\ u.nbr = d.nbr /\ u.table = d.table /\ u.mid = d.mid
         /\ u.changes = d.changes
<1>1. /\ d \in TableSet /\ d.links \in LinkTables /\ k \in LinkKeys /\ e \in LinkEntries
      /\ k \in Present(d.links) /\ e.nbr = d.links[k].nbr /\ u = [d EXCEPT !.links[k] = e]
  BY DEF Kept, TableSet, Relinked, Present
<1>2. /\ u.nbr = d.nbr /\ u.table = d.table /\ u.mid = d.mid /\ u.ahead = d.ahead
      /\ u.changes = d.changes /\ SameHops(d, u)
  BY <1>1 DEF TableSet, SameHops
<1>3. u.links = [d.links EXCEPT ![k] = e]
  BY <1>1 DEF TableSet
<1>4. e # NoLink
  BY <1>1, IdsAssumption DEF LinkEntries, NoLink
<1>5. /\ Present(u.links) = Present(d.links) /\ u.links[k] = e /\ u.links \in LinkTables
      /\ \A x \in Present(d.links) \ {k} : u.links[x] = d.links[x]
  BY <1>1, <1>3, <1>4 DEF Present, LinkTables
<1>6. u \in TableSet
  BY <1>1, <1>5 DEF TableSet
<1>7. SameShape(d.links, d.nbr, d.table, u.links, u.nbr)
  BY <1>1, <1>2, <1>5 DEF SameShape
<1>8. Peers(u)
  BY <1>2, <1>7, ShapeKept DEF Kept, Peers
<1>9. Kept(u)
  BY <1>2, <1>6, <1>8 DEF Kept, Hops, SameHops
<1>10. Reported(d, u)
  BY <1>2 DEF Reported, SameView, SameHops
<1> QED
  BY <1>2, <1>5, <1>9, <1>10

\* A main address has no entry as an alias.
LEMMA MainOfMain ==
  ASSUME NEW d, Kept(d), NEW from, NEW main, <<from, main>> \in HelloPairs
  PROVE  main \in Addrs /\ main \in AllAddrs /\ MainAddr(d, main) = main
<1>1. main \in Addrs /\ main \in AllAddrs
  BY NeighborhoodAssumption DEF AllAddrs
<1>2. d.mid[main] = NoAddr
  <2> SUFFICES ASSUME d.mid[main] # NoAddr PROVE FALSE
    OBVIOUS
  <2>1. <<main, d.mid[main]>> \in Declared /\ main # d.mid[main]
    BY <1>1 DEF Kept, MidKept, Declared
  <2> QED
    BY <2>1, MainIsNoAlias DEF Declared
<1> QED
  BY <1>1, <1>2 DEF MainAddr

NewLink(id) == [nbr |-> id, prev_status |-> "ASYM", link_sym_timer |-> FALSE, asym |-> FALSE]

\* A link is added to an entry that is there, or was made for it.
Attaching(d, u, k, id, main) ==
    /\ u \in TableSet /\ Hops(u) /\ u.links = d.links /\ u.mid = d.mid /\ u.changes = d.changes
    /\ u.table = d.table \cup {id} /\ id \in Ids /\ u.list2 = d.list2
    /\ Distinct(u.nbr, u.table) /\ Chained(u.ahead, u.table) /\ u.nbr[id].addr = main
    /\ \A i \in d.table : u.nbr[i] = d.nbr[i]
    /\ id \notin d.table => u.nbr[id] = NewNeighbor(main)

LEMMA KnownAttaching ==
  ASSUME NEW d, Kept(d), NEW k, NEW main, NEW id, id \in Lookup(d, main)
  PROVE  Attaching(d, d, k, id, main)
<1>1. d \in TableSet /\ Peers(d) /\ Hops(d) /\ d.table \subseteq Ids
  BY DEF Kept, TableSet
<1>2. id \in d.table /\ d.nbr[id].addr = main
  BY <1>1, LookupFinds
<1> QED
  BY <1>1, <1>2 DEF Attaching, Peers, PeersKept

LEMMA InsertAttaching ==
  ASSUME NEW d, Kept(d), NEW from, NEW k, NEW main, <<from, main>> \in HelloPairs,
         Lookup(d, main) = {}
  PROVE  LET u == olsr_insert_neighbor_table(d, main)
         IN  \E id \in Ids : Lookup(u, main) = {id} /\ Attaching(d, u, k, id, main)
<1> DEFINE u == olsr_insert_neighbor_table(d, main)
           id == CHOOSE i \in Ids : i \notin d.table
           new == NewNeighbor(main)
<1>1. d \in TableSet /\ Peers(d) /\ Hops(d) /\ d.table \subseteq Ids
  BY DEF Kept, TableSet
<1>2. id \in Ids /\ id \notin d.table
  BY <1>1, FreeId
<1>3. u = [Queued(d, id) EXCEPT !.nbr[id] = new]
  BY DEF olsr_insert_neighbor_table
<1>4. new \in Neighbors /\ new.addr = main /\ main \in AllAddrs
  BY MainOfMain DEF NewNeighbor, Neighbors, WILL_NEVER
<1> HIDE DEF u, id, new
<1>5. /\ u.links = d.links /\ u.mid = d.mid /\ u.changes = d.changes /\ SameHops(d, u)
      /\ u.table = d.table \cup {id} /\ u.ahead = d.ahead \cup ({id} \X d.table)
      /\ u.nbr = [d.nbr EXCEPT ![id] = new]
  BY <1>1, <1>3 DEF Queued, TableSet, SameHops
<1>6. u \in TableSet
  BY <1>1, <1>2, <1>3, <1>4 DEF Queued, TableSet
<1>7. u.nbr[id] = new /\ \A i \in d.table : u.nbr[i] = d.nbr[i]
  BY <1>1, <1>2, <1>5 DEF TableSet
<1>8. \A i \in d.table : d.nbr[i].addr # main
  BY <1>1, LookupFinds
<1>9. Distinct(u.nbr, u.table)
  BY <1>1, <1>4, <1>5, <1>7, <1>8 DEF Distinct, Peers, PeersKept
<1>10. Chained(u.ahead, u.table)
  BY <1>1, <1>2, <1>5 DEF Chained, Peers, PeersKept
<1>11. Hops(u)
  BY <1>1, <1>5 DEF Hops, HopsKept, SameHops
<1>12. Attaching(d, u, k, id, main)
  BY <1>2, <1>4, <1>5, <1>6, <1>7, <1>9, <1>10, <1>11 DEF Attaching, SameHops, new
<1>13. Lookup(u, main) = {id}
  <2>1. u.table \subseteq Ids
    BY <1>6 DEF TableSet
  <2>2. Lookup(u, main) = {i \in u.table : u.nbr[i].addr = main}
    BY <1>9, <1>10, <2>1, LookupIn
  <2> QED
    BY <1>4, <1>5, <1>7, <1>8, <2>2
<1> QED
  BY <1>2, <1>12, <1>13 DEF u

\* What add_link_entry leaves behind: link k, and all that was there.
Added(d, v, k) ==
    /\ Kept(v) /\ Reported(d, v) /\ v.mid = d.mid /\ v.changes = d.changes
    /\ Present(v.links) = Present(d.links) \cup {k}
    /\ \A x \in Present(d.links) : v.links[x] = d.links[x]
    /\ k \notin Present(d.links) => v.links[k] = NewLink(v.links[k].nbr)
    /\ \A i \in d.table : v.nbr[i].status = d.nbr[i].status /\ v.nbr[i].addr = d.nbr[i].addr

LEMMA AttachKept ==
  ASSUME NEW d, Kept(d), NEW u, NEW k \in LinkKeys, k \notin Present(d.links), NEW id, NEW main,
         <<k[1], main>> \in HelloPairs, Attaching(d, u, k, id, main), NEW v,
         v = [u EXCEPT !.nbr[id].linkcount = @ + 1, !.links[k] = NewLink(id)]
  PROVE  Added(d, v, k)
<1>1. /\ u \in TableSet /\ Hops(u) /\ u.links = d.links /\ u.mid = d.mid /\ u.changes = d.changes
      /\ u.table = d.table \cup {id} /\ id \in Ids /\ u.list2 = d.list2
      /\ Distinct(u.nbr, u.table) /\ Chained(u.ahead, u.table) /\ u.nbr[id].addr = main
      /\ \A i \in d.table : u.nbr[i] = d.nbr[i]
      /\ id \notin d.table => u.nbr[id] = NewNeighbor(main)
  BY DEF Attaching
<1>2. d \in TableSet /\ d.table \subseteq Ids /\ d.links \in LinkTables /\ Peers(d) /\ MidKept(d.mid)
  BY DEF Kept, TableSet
<1>3. /\ NewLink(id) \in LinkEntries /\ NewLink(id) # NoLink /\ NewLink(id).nbr = id
  BY <1>1, IdsAssumption DEF LinkEntries, NewLink, NoLink, LinkTypes
<1>4. /\ v.table = u.table /\ v.ahead = u.ahead /\ v.mid = u.mid /\ v.changes = u.changes
      /\ SameHops(u, v) /\ v.nbr = [u.nbr EXCEPT ![id].linkcount = @ + 1]
      /\ v.links = [u.links EXCEPT ![k] = NewLink(id)]
  BY <1>1 DEF TableSet, SameHops
<1>5. /\ Present(v.links) = Present(d.links) \cup {k} /\ v.links[k] = NewLink(id)
      /\ \A x \in Present(d.links) : v.links[x] = d.links[x]
      /\ v.links \in LinkTables
  BY <1>1, <1>2, <1>3, <1>4 DEF Present, LinkTables
<1>6. /\ \A i \in Ids : /\ v.nbr[i].addr = u.nbr[i].addr /\ v.nbr[i].status = u.nbr[i].status
                        /\ v.nbr[i].will = u.nbr[i].will
      /\ \A i \in Ids \ {id} : v.nbr[i] = u.nbr[i]
      /\ v.nbr[id].linkcount = u.nbr[id].linkcount + 1
      /\ v.nbr \in [Ids -> Neighbors]
  <2>1. u.nbr \in [Ids -> Neighbors]
    BY <1>1 DEF TableSet
  <2> QED
    BY <1>1, <1>4, <2>1 DEF Neighbors
<1>7. v \in TableSet
  BY <1>1, <1>5, <1>6 DEF TableSet
<1>8. LinkAdded(d.links, d.nbr, d.table, v.links, v.nbr, v.table, k, id)
  <2>1. id \notin d.table => v.nbr[id].linkcount = 1
    BY <1>1, <1>6 DEF NewNeighbor
  <2> QED
    BY <1>1, <1>2, <1>3, <1>4, <1>5, <1>6, <2>1 DEF LinkAdded
<1>9. Peers(v)
  <2>1. Distinct(v.nbr, v.table) /\ Chained(v.ahead, v.table)
    <3>1. v.table \subseteq Ids
      BY <1>7 DEF TableSet
    <3>2. \A i \in v.table : v.nbr[i].addr = u.nbr[i].addr
      BY <1>6, <3>1
    <3>3. Distinct(u.nbr, v.table)
      BY <1>1, <1>4
    <3>4. Distinct(v.nbr, v.table)
      BY ONLY <3>2, <3>3 DEF Distinct
    <3> QED
      BY <1>1, <1>4, <3>4
  <2> QED
    BY <1>2, <1>8, <2>1, LinkAddedKept DEF Peers
<1>10. Kept(v)
  BY <1>1, <1>2, <1>4, <1>7, <1>9 DEF Kept, Hops, SameHops
<1>11. Reported(d, v)
  <2>1. id \notin d.table => v.nbr[id].status # "SYM"
    BY <1>1, <1>6 DEF NewNeighbor
  <2>2. \A i \in d.table : /\ v.nbr[i].status = d.nbr[i].status /\ v.nbr[i].addr = d.nbr[i].addr
                           /\ v.nbr[i].will = d.nbr[i].will
    BY <1>1, <1>2, <1>6
  <2>3. v.table = d.table \cup {id} /\ v.list2 = d.list2 /\ v.changes = d.changes
    BY <1>1, <1>4 DEF SameHops
  <2> QED
    BY <2>1, <2>2, <2>3 DEF Reported, SameView
<1> QED
  BY <1>1, <1>2, <1>3, <1>4, <1>5, <1>6, <1>10, <1>11 DEF Added

LEMMA AddLinkKept ==
  ASSUME NEW d, Kept(d), NEW k \in LinkKeys, NEW main, <<k[1], main>> \in HelloPairs
  PROVE  Added(d, add_link_entry(d, k, main), k)
<1>1. d \in TableSet /\ d.table \subseteq Ids /\ d.links \in LinkTables /\ Peers(d)
  BY DEF Kept, TableSet
<1>2. CASE k \in Present(d.links)
  <2>1. <<k[1], d.nbr[d.links[k].nbr].addr>> \in HelloPairs
    BY <1>1, <1>2 DEF Peers, PeersKept, LinksAttached
  <2>2. d.nbr[d.links[k].nbr].addr = main
    BY <2>1, OneMain DEF Declared
  <2>3. add_link_entry(d, k, main) = d
    BY <1>2, <2>2, LinkedPresent DEF add_link_entry
  <2>4. Reported(d, d)
    BY DEF Reported, SameView
  <2> QED
    BY <1>2, <2>3, <2>4 DEF Added
<1>3. CASE k \notin Present(d.links)
  <2> DEFINE known == Lookup(d, main)
             u == IF known = {} THEN olsr_insert_neighbor_table(d, main) ELSE d
             id == CHOOSE i \in (IF known = {} THEN Lookup(u, main) ELSE known) : TRUE
             v == [u EXCEPT !.nbr[id].linkcount = @ + 1, !.links[k] = NewLink(id)]
  <2>1. add_link_entry(d, k, main) = v
    <3>1. k \notin Linked(d) /\ MainAddr(d, main) = main
      BY <1>3, LinkedPresent, MainOfMain
    <3> QED
      BY <3>1 DEF add_link_entry, NewLink
  <2>2. Attaching(d, u, k, id, main)
    <3>1. CASE known = {}
      <4>1. PICK i \in Ids : Lookup(u, main) = {i} /\ Attaching(d, u, k, i, main)
        BY <3>1, InsertAttaching
      <4>2. id = i
        BY <3>1, <4>1
      <4> QED
        BY <4>1, <4>2
    <3>2. CASE known # {}
      <4>1. id \in known /\ u = d
        BY <3>2
      <4> QED
        BY <4>1, KnownAttaching
    <3> QED
      BY <3>1, <3>2
  <2> HIDE DEF id, u
  <2> QED
    BY <1>3, <2>1, <2>2, AttachKept
<1> QED
  BY <1>2, <1>3

LEMMA HeardType ==
  ASSUME NEW lnk \in LinkEntries, NEW link \in LinkTypes
  PROVE  Heard(lnk, link) \in LinkEntries /\ Heard(lnk, link).nbr = lnk.nbr
<1> DEFINE timer == link \in {"SYM", "ASYM"} \/ (lnk.link_sym_timer /\ link # "LOST")
           yes == TRUE
<1>1. timer \in BOOLEAN /\ yes \in BOOLEAN
  OBVIOUS
<1>2. Heard(lnk, link) = [lnk EXCEPT !.asym = yes, !.prev_status = link, !.link_sym_timer = timer]
  BY DEF Heard
<1> HIDE DEF timer, yes
<1> QED
  BY <1>1, <1>2 DEF LinkEntries

\* update_link_entry adds a link, changes it and updates its neighbour.
UpdateSteps(d, up, k, m, a, v) ==
    /\ Added(d, a, k) /\ Relinked(a, v, k, Heard(a.links[k], m.link))
    /\ v.links[k].nbr \in v.table
    /\ update_link_entry(d, up, k, m) =
          update_neighbor_status(v, v.links[k].nbr, HasSymLink(v, up, k[1]))

LEMMA UpdateLinkSteps ==
  ASSUME NEW d, Kept(d), NEW up, NEW k \in LinkKeys, NEW m, m.link \in LinkTypes,
         <<k[1], m.main>> \in HelloPairs
  PROVE  \E a, v : UpdateSteps(d, up, k, m, a, v)
<1> DEFINE a == add_link_entry(d, k, m.main)
           v == [a EXCEPT !.links[k] = Heard(a.links[k], m.link)]
<1>1. Added(d, a, k)
  BY AddLinkKept
<1>2. update_link_entry(d, up, k, m) =
         update_neighbor_status(v, v.links[k].nbr, HasSymLink(v, up, k[1]))
  BY DEF update_link_entry
<1> HIDE DEF a
<1>3. Kept(a) /\ k \in Present(a.links) /\ a.links \in LinkTables
  BY <1>1 DEF Added, Kept, TableSet
<1>4. a.links[k] \in LinkEntries
  BY <1>3, EntryIsLink
<1>5. Relinked(a, v, k, Heard(a.links[k], m.link))
  BY <1>3, <1>4, HeardType DEF Relinked
<1>6. Kept(v) /\ k \in Present(v.links)
  <2> HIDE DEF v
  <2> QED
    BY <1>3, <1>5, RelinkKept
<1>7. v.links[k].nbr \in v.table
  <2> HIDE DEF v
  <2> QED
    BY <1>6 DEF Kept, Peers, PeersKept, LinksAttached
<1> QED
  BY <1>1, <1>2, <1>5, <1>7 DEF UpdateSteps

LEMMA UpdateLinkKept ==
  ASSUME NEW d, Kept(d), NEW up, NEW k \in LinkKeys, NEW m, m.link \in LinkTypes,
         <<k[1], m.main>> \in HelloPairs
  PROVE  LET u == update_link_entry(d, up, k, m)
         IN  /\ Kept(u) /\ Reported(d, u) /\ u.mid = d.mid
             /\ Present(u.links) = Present(d.links) \cup {k}
<1>1. PICK a, v : UpdateSteps(d, up, k, m, a, v)
  BY UpdateLinkSteps
<1> DEFINE sym == HasSymLink(v, up, k[1])
           id == v.links[k].nbr
           u == update_neighbor_status(v, id, sym)
<1>2. sym \in BOOLEAN
  BY DEF HasSymLink
<1>3. Kept(a) /\ Reported(d, a) /\ a.mid = d.mid /\ a.changes = d.changes
      /\ Present(a.links) = Present(d.links) \cup {k}
  BY <1>1 DEF UpdateSteps, Added
<1>4. Relinked(a, v, k, Heard(a.links[k], m.link)) /\ id \in v.table
      /\ update_link_entry(d, up, k, m) = u
  BY <1>1 DEF UpdateSteps
<1>5. Kept(v) /\ Reported(a, v) /\ v.mid = a.mid /\ v.changes = a.changes
      /\ Present(v.links) = Present(a.links)
  BY <1>3, <1>4, RelinkKept
<1>6. Kept(u) /\ Reported(v, u) /\ u.mid = v.mid /\ u.links = v.links
  <2> HIDE DEF sym, id
  <2> QED
    BY <1>2, <1>4, <1>5, StatusKept
<1> HIDE DEF u
<1>7. Reported(d, u)
  BY <1>3, <1>5, <1>6 DEF Reported, SameView
<1> QED
  BY <1>3, <1>4, <1>5, <1>6, <1>7

-----------------------------------------------------------------------------
(* Aliases come and go.                                                    *)

\* Only the aliases and the request for a recalculation change.
OnlyMid(d, u) == SamePeers(d, u) /\ SameHops(d, u)

LEMMA OnlyMidKept ==
  ASSUME NEW d, NEW u, Kept(d), u \in TableSet, OnlyMid(d, u), MidKept(u.mid)
  PROVE  Kept(u)
  BY DEF Kept, OnlyMid, SamePeers, SameHops, Hops, Peers

LEMMA DeclaredAddrs ==
  ASSUME NEW x, NEW y, <<x, y>> \in Declared
  PROVE  x \in Addrs /\ y \in Addrs /\ x \in AllAddrs /\ y \in AllAddrs /\ y # NoAddr
  BY NeighborhoodAssumption DEF Declared, AllAddrs

LEMMA MidTupleKept ==
  ASSUME NEW d, Kept(d), NEW alias, NEW main, <<alias, main>> \in Declared, alias # main
  PROVE  LET u == insert_mid_tuple(d, main, alias)
         IN  Kept(u) /\ SamePeers(d, u)
<1> DEFINE v == [d EXCEPT !.mid[alias] = main]
           aliases == Aliases(v, main)
           w == olsr_delete_two_hop_neighbor_table(v, aliases)
           cut == {p \in v.list2 : p[2] \in aliases}
<1>1. d \in TableSet /\ alias \in AllAddrs /\ main \in AllAddrs /\ main # NoAddr
  BY DeclaredAddrs DEF Kept
<1>2. CASE d.mid[alias] = main
  BY <1>2 DEF insert_mid_tuple, SamePeers
<1>3. CASE d.mid[alias] # main
  <2>1. v \in TableSet /\ OnlyMid(d, v)
    BY <1>1 DEF TableSet, OnlyMid, SamePeers, SameHops
  <2>2. v.mid = [d.mid EXCEPT ![alias] = main] /\ d.mid \in [AllAddrs -> AllAddrs \cup {NoAddr}]
    BY <1>1 DEF TableSet
  <2>3. MidKept(v.mid)
    BY <1>1, <2>2 DEF Kept, MidKept, Declared
  <2> HIDE DEF v
  <2>4. Kept(v)
    BY <2>1, <2>3, OnlyMidKept
  <2>5. w \in TableSet /\ SamePeers(v, w) /\ w.mid = v.mid /\ CutHops(v, w, cut)
    <3>1. v \in TableSet /\ Hops(v)
      BY <2>4 DEF Kept
    <3> QED
      BY <3>1, DeleteTwoHopFields
  <2>6. Kept(w)
    <3> HIDE DEF w, cut
    <3> QED
      BY <2>4, <2>5, CutKept
  <2> HIDE DEF w
  <2>7. ASSUME NEW a \in aliases PROVE Lookup(w, a) = {}
    <3>1. a \in AllAddrs /\ v.mid[a] = main
      BY DEF Aliases
    <3>2. <<a, main>> \in Declared /\ a # main
      BY <1>1, <2>3, <3>1 DEF MidKept, Declared
    <3> QED
      BY <2>6, <3>2, NoBogus DEF Kept
  <2>8. DropBogus(w, main, aliases) = w
    <3>1. UNION {Lookup(w, a) : a \in aliases} = {}
      BY <2>7
    <3> QED
      BY <3>1 DEF DropBogus
  <2>9. insert_mid_tuple(d, main, alias) = w
    BY <1>3, <2>8 DEF insert_mid_tuple, v, w
  <2> QED
    BY <2>1, <2>5, <2>6, <2>9 DEF OnlyMid, SamePeers
<1> QED
  BY <1>2, <1>3

LEMMA MidAliasKept ==
  ASSUME NEW d, Kept(d), NEW alias, NEW main, <<alias, main>> \in Declared, alias # main
  PROVE  LET u == insert_mid_alias(d, main, alias)
         IN  Kept(u) /\ SamePeers(d, u) /\ u.changes
<1> DEFINE v == insert_mid_tuple(d, main, alias)
           yes == TRUE
           u == [v EXCEPT !.changes = yes]
<1>1. Lookup(d, alias) = {}
  BY NoBogus DEF Kept
<1>2. insert_mid_alias(d, main, alias) = u
  BY <1>1 DEF insert_mid_alias
<1>3. Kept(v) /\ SamePeers(d, v)
  BY MidTupleKept
<1>4. yes \in BOOLEAN /\ yes
  OBVIOUS
<1> HIDE DEF v, yes
<1>5. u \in TableSet /\ OnlyMid(v, u) /\ u.mid = v.mid /\ u.changes = yes
  BY <1>3, <1>4 DEF Kept, TableSet, OnlyMid, SamePeers, SameHops
<1>6. Kept(u)
  <2>1. MidKept(u.mid)
    BY <1>3, <1>5 DEF Kept
  <2> HIDE DEF u
  <2> QED
    BY <1>3, <1>5, <2>1, OnlyMidKept
<1> QED
  BY <1>2, <1>3, <1>4, <1>5, <1>6 DEF OnlyMid, SamePeers

\* Aliases are forgotten.
LEMMA ForgetKept ==
  ASSUME NEW d, Kept(d), NEW gone, NEW c \in BOOLEAN, d.changes => c, NEW u,
         u = [d EXCEPT !.mid = [a \in AllAddrs |-> IF a \in gone THEN NoAddr ELSE d.mid[a]],
                       !.changes = c]
  PROVE  Kept(u) /\ Reported(d, u)
<1> DEFINE mid == [a \in AllAddrs |-> IF a \in gone THEN NoAddr ELSE d.mid[a]]
<1>1. d \in TableSet /\ d.mid \in [AllAddrs -> AllAddrs \cup {NoAddr}] /\ d.changes \in BOOLEAN
  BY DEF Kept, TableSet
<1>2. mid \in [AllAddrs -> AllAddrs \cup {NoAddr}] /\ MidKept(mid)
  BY <1>1 DEF Kept, MidKept
<1>3. u = [d EXCEPT !.mid = mid, !.changes = c]
  OBVIOUS
<1> HIDE DEF mid
<1>4. u \in TableSet /\ OnlyMid(d, u) /\ u.mid = mid /\ u.changes = c
  BY <1>1, <1>2, <1>3 DEF TableSet, OnlyMid, SamePeers, SameHops
<1>5. Kept(u)
  BY <1>2, <1>4, OnlyMidKept
<1>6. Reported(d, u)
  BY <1>1, <1>4 DEF OnlyMid, SamePeers, SameHops, Reported, SameView
<1> QED
  BY <1>5, <1>6

-----------------------------------------------------------------------------
(* HELLO messages.                                                         *)

Willed(d, u, id, will, lq, lc) ==
    u = [d EXCEPT !.nbr[id].will = will, !.changes = @ \/ lq \/ d.nbr[id].will # will,
                  !.link_changes = lc]

LEMMA WillKept ==
  ASSUME NEW d, Kept(d), NEW id \in d.table, NEW will \in Willingness, NEW lq \in BOOLEAN,
         NEW lc \in BOOLEAN, NEW u, Willed(d, u, id, will, lq, lc)
  PROVE  /\ Kept(u) /\ Reported(d, u) /\ u.links = d.links /\ u.table = d.table
         /\ \A i \in Ids : u.nbr[i].status = d.nbr[i].status /\ u.nbr[i].addr = d.nbr[i].addr
<1>1. d \in TableSet /\ id \in Ids /\ d.nbr \in [Ids -> Neighbors] /\ d.table \subseteq Ids
  BY DEF Kept, TableSet
<1>2. /\ u.links = d.links /\ u.table = d.table /\ u.ahead = d.ahead /\ u.mid = d.mid
      /\ SameHops(d, u) /\ u.nbr = [d.nbr EXCEPT ![id].will = will]
      /\ u.changes = (d.changes \/ lq \/ d.nbr[id].will # will)
  BY <1>1 DEF TableSet, SameHops, Willed
<1>3. /\ u.nbr \in [Ids -> Neighbors] /\ u.nbr[id].will = will
      /\ \A i \in Ids : /\ u.nbr[i].addr = d.nbr[i].addr /\ u.nbr[i].linkcount = d.nbr[i].linkcount
                        /\ u.nbr[i].status = d.nbr[i].status
      /\ \A i \in Ids \ {id} : u.nbr[i] = d.nbr[i]
  BY <1>1, <1>2 DEF Neighbors
<1>4. u \in TableSet
  BY <1>1, <1>3 DEF TableSet, Willed
<1>5. Kept(u)
  <2>1. Restated(d, u, id)
    BY <1>2, <1>3 DEF Restated
  <2> QED
    BY <1>4, <2>1, RestatedKept
<1>6. Reported(d, u)
  <2>1. CASE lq \/ d.nbr[id].will # will
    BY <1>2, <2>1 DEF Reported
  <2>2. CASE ~lq /\ d.nbr[id].will = will
    <3>1. u.changes = d.changes /\ \A i \in Ids : u.nbr[i].will = d.nbr[i].will
      BY <1>1, <1>2, <1>3, <2>2 DEF TableSet
    <3> QED
      BY <1>1, <1>2, <1>3, <3>1 DEF Reported, SameView, SameHops
  <2> QED
    BY <2>1, <2>2
<1> QED
  BY <1>2, <1>3, <1>5, <1>6

LEMMA MessageNeighborsKept ==
  ASSUME NEW d, Kept(d), NEW id \in d.table, NEW nbrs \in SUBSET AllAddrs
  PROVE  LET u == process_message_neighbors(d, id, nbrs)
         IN  Kept(u) /\ Reported(d, u) /\ SamePeers(d, u)
<1> DEFINE u == process_message_neighbors(d, id, nbrs)
           new == NewlyListed(d, id, {MainAddr(d, a) : a \in nbrs})
<1>1. d \in TableSet /\ Hops(d) /\ d.list2 \in SUBSET Pairs
  BY DEF Kept, TableSet
<1>2. /\ SamePeers(d, u) /\ u.mid = d.mid /\ u.changes = (d.changes \/ new # {})
      /\ AddHops(d, u, id, new) /\ u \in TableSet
  BY <1>1, MessageNeighborsFields
<1> HIDE DEF u, new
<1>3. Kept(u)
  <2>1. HopsKept(u.list2, u.nblist, u.two_hop, u.pointer, u.timer2, d.table)
    BY <1>1, <1>2, HopsAdd
  <2> QED
    BY <1>2, <2>1 DEF Kept, Hops, Peers, SamePeers
<1>4. Reported(d, u)
  <2>1. CASE new # {}
    BY <1>2, <2>1 DEF Reported
  <2>2. CASE new = {}
    <3>1. u.list2 = d.list2 /\ u.changes = d.changes
      BY <1>1, <1>2, <2>2 DEF AddHops, TableSet
    <3> QED
      BY <1>2, <3>1, ReportedSame
  <2> QED
    BY <2>1, <2>2
<1> QED
  BY <1>2, <1>3, <1>4 DEF u

\* The MPRs are recalculated.
LEMMA SettleKept ==
  ASSUME NEW d, Kept(d), UpToDate(d, basis), Settle(d)
  PROVE  Kept(db') /\ UpToDate(db', basis') /\ db'.links = d.links /\ db'.nbr = d.nbr
<1> DEFINE no == FALSE
<1>1. PICK newMpr \in {FALSE, d.changes /\ Basis(d) # {}} :
         db' = [d EXCEPT !.changes = no, !.link_changes = @ \/ newMpr]
  BY DEF Settle
<1>2. newMpr \in BOOLEAN /\ d \in TableSet /\ no \in BOOLEAN /\ ~no
  BY DEF Kept, TableSet
<1>3. basis' = IF d.changes THEN Basis(d) ELSE basis
  BY DEF Settle
<1> HIDE DEF no
<1>4. db' \in TableSet /\ OnlyMid(d, db') /\ db'.mid = d.mid
  BY <1>1, <1>2 DEF TableSet, OnlyMid, SamePeers, SameHops
<1>5. Kept(db')
  <2>1. MidKept(db'.mid)
    BY <1>4 DEF Kept
  <2> QED
    BY <1>4, <2>1, OnlyMidKept
<1>6. SameView(d, db')
  BY <1>4 DEF SameView, OnlyMid, SamePeers, SameHops
<1>7. Basis(db') = Basis(d)
  BY <1>6, ViewIsBasis
<1> QED
  BY <1>3, <1>4, <1>5, <1>7 DEF UpToDate, OnlyMid, SamePeers

\* What a HELLO over link k leaves, with the links as update_link_entry left
\* them.
LEMMA HelloKept ==
  ASSUME Kept(db), UpToDate(db, basis), mprs_set \subseteq Addrs, NEW p \in HelloPairs,
         NEW i \in Ifaces, NEW msg \in Messages, NEW lqChange \in Flags,
         olsr_hello_tap(p[1], p[2], i, msg, lqChange)
  PROVE  LET linked == update_link_entry(db, ifnet, <<p[1], i>>, [main |-> p[2], link |-> msg.link])
         IN  /\ Kept(db') /\ UpToDate(db', basis') /\ mprs_set' \subseteq Addrs /\ ifnet' = ifnet
             /\ db'.links = linked.links /\ Present(db'.links) = Present(db.links) \cup {<<p[1], i>>}
             /\ \A j \in Ids : db'.nbr[j].status = linked.nbr[j].status
<1> DEFINE from == p[1]
           main == p[2]
           k == <<from, i>>
           m == [main |-> main, link |-> msg.link]
           linked == update_link_entry(db, ifnet, k, m)
           alias == from # main /\ linked.mid[from] \in {NoAddr, main}
           known == IF alias THEN insert_mid_alias(linked, main, from) ELSE linked
           id == known.links[k].nbr
           selected == msg.link = "SYM" /\ msg.mpr
           lc == known.link_changes \/ lqChange \/ (selected /\ main \notin mprs_set)
           willing == [known EXCEPT !.nbr[id].will = msg.will,
                                    !.changes = @ \/ lqChange \/ known.nbr[id].will # msg.will,
                                    !.link_changes = lc]
           final == IF msg.will = WILL_NEVER THEN willing
                    ELSE process_message_neighbors(willing, id, msg.nbrs)
<1>1. /\ msg.link \in LinkTypes /\ msg.will \in Willingness /\ msg.nbrs \in SUBSET AllAddrs
      /\ msg.mpr \in BOOLEAN /\ lqChange \in BOOLEAN
  BY NeighborhoodAssumption DEF Messages, AllAddrs
<1>2. /\ <<from, main>> \in HelloPairs /\ <<from, main>> \in Declared /\ from \in Addrs
      /\ main \in Addrs /\ k \in LinkKeys /\ k[1] = from
  BY NeighborhoodAssumption DEF Declared, LinkKeys
<1>3. /\ Settle(final) /\ ifnet' = ifnet
      /\ mprs_set' = IF selected THEN mprs_set \cup {main} ELSE mprs_set
  BY DEF olsr_hello_tap
<1>4. Kept(linked) /\ Reported(db, linked) /\ Present(linked.links) = Present(db.links) \cup {k}
  <2>1. m.link \in LinkTypes /\ <<k[1], m.main>> \in HelloPairs
    BY <1>1, <1>2
  <2>2. Kept(db) /\ k \in LinkKeys
    BY <1>2
  <2> HIDE DEF k, m
  <2> QED
    BY ONLY <2>1, <2>2, UpdateLinkKept
<1> HIDE DEF linked
<1>5. Kept(known) /\ Reported(linked, known) /\ SamePeers(linked, known)
  <2>1. CASE alias
    <3>1. /\ Kept(insert_mid_alias(linked, main, from))
          /\ SamePeers(linked, insert_mid_alias(linked, main, from))
          /\ insert_mid_alias(linked, main, from).changes
      BY <1>2, <1>4, <2>1, MidAliasKept
    <3> QED
      BY <2>1, <3>1 DEF Reported
  <2>2. CASE ~alias
    <3>1. known = linked
      BY <2>2
    <3> QED
      BY <1>4, <3>1 DEF Reported, SameView, SamePeers
  <2> QED
    BY <2>1, <2>2
<1> HIDE DEF known
<1>6. id \in known.table
  <2>1. k \in Present(known.links)
    BY <1>4, <1>5 DEF SamePeers
  <2> QED
    BY <1>5, <2>1 DEF Kept, Peers, PeersKept, LinksAttached
<1>7. lc \in BOOLEAN
  BY <1>1, <1>5 DEF Kept, TableSet
<1> HIDE DEF id, lc, selected
<1>8. /\ Kept(willing) /\ Reported(known, willing) /\ willing.links = known.links
      /\ willing.table = known.table
      /\ \A j \in Ids : willing.nbr[j].status = known.nbr[j].status
  <2>1. Willed(known, willing, id, msg.will, lqChange, lc)
    BY DEF Willed
  <2> HIDE DEF willing
  <2> QED
    BY <1>1, <1>5, <1>6, <1>7, <2>1, WillKept
<1> HIDE DEF willing
<1>9. Kept(final) /\ Reported(willing, final) /\ SamePeers(willing, final)
  <2>1. CASE msg.will = WILL_NEVER
    BY <1>8, <2>1 DEF Reported, SameView, SamePeers
  <2>2. CASE msg.will # WILL_NEVER
    <3>1. final = process_message_neighbors(willing, id, msg.nbrs)
      BY <2>2
    <3>2. id \in willing.table
      BY <1>6, <1>8
    <3> QED
      BY <1>1, <1>8, <3>1, <3>2, MessageNeighborsKept
  <2> QED
    BY <2>1, <2>2
<1> HIDE DEF final
<1>10. UpToDate(final, basis)
  <2>1. UpToDate(linked, basis)
    BY <1>4, ReportedUpToDate
  <2>2. UpToDate(known, basis)
    BY <1>5, <2>1, ReportedUpToDate
  <2>3. UpToDate(willing, basis)
    BY <1>8, <2>2, ReportedUpToDate
  <2> QED
    BY <1>9, <2>3, ReportedUpToDate
<1>11. Kept(db') /\ UpToDate(db', basis') /\ db'.links = final.links /\ db'.nbr = final.nbr
  BY <1>3, <1>9, <1>10, SettleKept
<1>12. mprs_set' \subseteq Addrs
  BY <1>2, <1>3
<1>13. db'.links = linked.links
  BY <1>5, <1>8, <1>9, <1>11 DEF SamePeers
<1>14. \A j \in Ids : db'.nbr[j].status = linked.nbr[j].status
  BY <1>5, <1>8, <1>9, <1>11 DEF SamePeers
<1>15. Present(db'.links) = Present(db.links) \cup {<<p[1], i>>}
  BY <1>4, <1>13
<1> QED
  BY <1>3, <1>11, <1>12, <1>13, <1>14, <1>15 DEF linked, m

-----------------------------------------------------------------------------
(* The other steps.                                                        *)

LEMMA MidStep ==
  ASSUME Kept(db), UpToDate(db, basis), NEW p \in MidPairs, NEW pruned,
         olsr_input_mid(p[1], p[2], pruned)
  PROVE  /\ Kept(db') /\ UpToDate(db', basis) /\ UNCHANGED <<ifnet, mprs_set, basis>>
         /\ db'.links = db.links /\ db'.nbr = db.nbr
<1> DEFINE u == IF db.mid[p[1]] = NoAddr THEN insert_mid_alias(db, p[2], p[1]) ELSE db
           c == u.changes \/ pruned # {}
           mid == [a \in AllAddrs |-> IF a \in pruned THEN NoAddr ELSE u.mid[a]]
<1>1. <<p[1], p[2]>> \in Declared /\ p[1] # p[2]
  BY NeighborhoodAssumption, MainAssumption DEF Declared
<1>2. Kept(u) /\ Reported(db, u) /\ SamePeers(db, u)
  <2>1. CASE db.mid[p[1]] = NoAddr
    BY <1>1, <2>1, MidAliasKept DEF Reported
  <2>2. CASE db.mid[p[1]] # NoAddr
    BY <2>2 DEF Reported, SameView, SamePeers
  <2> QED
    BY <2>1, <2>2
<1>3. db' = [u EXCEPT !.mid = mid, !.changes = c] /\ UNCHANGED <<ifnet, mprs_set, basis>>
  BY DEF olsr_input_mid
<1> HIDE DEF u
<1>4. u \in TableSet /\ c \in BOOLEAN /\ (u.changes => c)
  BY <1>2 DEF Kept, TableSet
<1> HIDE DEF c
<1>5. Kept(db') /\ Reported(u, db')
  BY <1>2, <1>3, <1>4, ForgetKept
<1>6. UpToDate(db', basis)
  <2>1. UpToDate(u, basis)
    BY <1>2, ReportedUpToDate
  <2> QED
    BY <1>5, <2>1, ReportedUpToDate
<1>7. db'.links = u.links /\ db'.nbr = u.nbr
  BY <1>3, <1>4 DEF TableSet
<1> QED
  BY <1>2, <1>3, <1>5, <1>6, <1>7 DEF SamePeers

LEMMA ExpireMidStep ==
  ASSUME Kept(db), UpToDate(db, basis), NEW main, olsr_expire_mid_entry(main)
  PROVE  /\ Kept(db') /\ UpToDate(db', basis) /\ UNCHANGED <<ifnet, mprs_set, basis>>
         /\ db'.links = db.links /\ db'.nbr = db.nbr
<1> DEFINE gone == Aliases(db, main)
           mid == [a \in AllAddrs |-> IF a \in gone THEN NoAddr ELSE db.mid[a]]
           c == db.changes
<1>1. db \in TableSet /\ c \in BOOLEAN /\ (db.changes => c)
  BY DEF Kept, TableSet
<1>2. [a \in AllAddrs |-> IF db.mid[a] = main THEN NoAddr ELSE db.mid[a]] = mid
  BY DEF Aliases
<1>3. /\ db' = [db EXCEPT !.mid = [a \in AllAddrs |-> IF db.mid[a] = main THEN NoAddr ELSE db.mid[a]]]
      /\ UNCHANGED <<ifnet, mprs_set, basis>>
  BY DEF olsr_expire_mid_entry, Tables
<1>4. db' = [db EXCEPT !.mid = mid, !.changes = c]
  <2> HIDE DEF mid
  <2> QED
    BY <1>1, <1>2, <1>3 DEF TableSet
<1> HIDE DEF gone, c
<1>5. Kept(db') /\ Reported(db, db')
  BY <1>1, <1>4, ForgetKept
<1>6. UpToDate(db', basis)
  BY <1>5, ReportedUpToDate
<1>7. db'.links = db.links /\ db'.nbr = db.nbr
  BY <1>1, <1>3 DEF TableSet
<1> QED
  BY <1>3, <1>5, <1>6, <1>7

LEMMA AsymStep ==
  ASSUME Kept(db), NEW k, AsymTimesOut(k)
  PROVE  \E e : /\ Relinked(db, db', k, e) /\ ~e.asym
                /\ e.link_sym_timer = db.links[k].link_sym_timer
<1> DEFINE no == FALSE
           e == [db.links[k] EXCEPT !.asym = no]
<1>1. db \in TableSet /\ db.links \in LinkTables /\ k \in Present(db.links)
  BY LinkedPresent DEF Kept, TableSet, AsymTimesOut
<1>2. db' = [db EXCEPT !.links[k].asym = no]
  BY DEF AsymTimesOut, Tables
<1>3. db.links[k] \in LinkEntries
  BY <1>1, EntryIsLink
<1>4. no \in BOOLEAN /\ ~no
  OBVIOUS
<1> HIDE DEF no
<1>5. /\ e \in LinkEntries /\ e.nbr = db.links[k].nbr /\ e.asym = no
      /\ e.link_sym_timer = db.links[k].link_sym_timer
  BY <1>3, <1>4 DEF LinkEntries
<1>6. db' = [db EXCEPT !.links[k] = e]
  BY <1>2
<1> QED
  BY <1>1, <1>4, <1>5, <1>6 DEF Relinked

\* A step that only touches link_changes.
LEMMA AnsnStep ==
  ASSUME Kept(db), UpToDate(db, basis), NEW lc \in BOOLEAN, db' = [db EXCEPT !.link_changes = lc]
  PROVE  Kept(db') /\ UpToDate(db', basis) /\ db'.links = db.links /\ db'.nbr = db.nbr
<1>1. db \in TableSet
  BY DEF Kept
<1>2. db' \in TableSet /\ OnlyMid(db, db') /\ db'.mid = db.mid /\ db'.changes = db.changes
  BY <1>1 DEF TableSet, OnlyMid, SamePeers, SameHops
<1>3. Kept(db')
  <2>1. MidKept(db'.mid)
    BY <1>2 DEF Kept
  <2> QED
    BY <1>2, <2>1, OnlyMidKept
<1>4. Reported(db, db')
  BY <1>2 DEF OnlyMid, SamePeers, SameHops, Reported, SameView
<1> QED
  BY <1>2, <1>3, <1>4, ReportedUpToDate DEF OnlyMid, SamePeers

LEMMA ExpireTwoHopStep ==
  ASSUME Kept(db), UpToDate(db, basis), NEW p, olsr_expire_nbr2_list(p)
  PROVE  /\ Kept(db') /\ UpToDate(db', basis) /\ UNCHANGED <<ifnet, mprs_set, basis>>
         /\ db'.links = db.links /\ db'.nbr = db.nbr
<1>1. /\ p \in db.timer2 /\ db' = UnlinkPairs(db, {p}) /\ UNCHANGED <<ifnet, mprs_set, basis>>
  BY DEF olsr_expire_nbr2_list, Tables
<1>2. db \in TableSet /\ Hops(db) /\ {p} \in SUBSET db.list2
  BY <1>1 DEF Kept, Hops, HopsKept
<1>3. /\ db' \in TableSet /\ SamePeers(db, db') /\ db'.mid = db.mid
      /\ db'.changes = (db.changes \/ {p} # {}) /\ CutHops(db, db', {p})
  BY <1>1, <1>2, UnlinkFields
<1>4. Kept(db')
  BY <1>3, CutKept
<1> QED
  BY <1>1, <1>3, <1>4 DEF UpToDate, SamePeers

LEMMA LinkStatusType ==
  ASSUME NEW lnk
  PROVE  lookup_link_status(lnk) \in LinkTypes
  BY DEF lookup_link_status, LinkTypes

\* The timer of link k stops; if the neighbour was symmetric, its status follows
\* from its links.
SymTimerSteps(k, u, v) ==
    /\ \E e : Relinked(db, u, k, e) /\ ~e.link_sym_timer
    /\ \E e : Relinked(u, v, k, e) /\ ~e.link_sym_timer
    /\ \/ db' = u
       \/ db' = [update_neighbor_status(v, v.links[k].nbr, HasSymLink(v, ifnet, k[1]))
                    EXCEPT !.changes = TRUE]

LEMMA SymTimerSplit ==
  ASSUME Kept(db), NEW k, olsr_expire_link_sym_timer(k)
  PROVE  \E u, v : SymTimerSteps(k, u, v)
<1> DEFINE no == FALSE
           u == [db EXCEPT !.links[k].link_sym_timer = FALSE]
           v == [u EXCEPT !.links[k].prev_status = lookup_link_status(u.links[k])]
           e == [db.links[k] EXCEPT !.link_sym_timer = no]
           status == lookup_link_status(u.links[k])
           f == [e EXCEPT !.prev_status = status]
<1>1. db \in TableSet /\ db.links \in LinkTables /\ k \in Present(db.links)
  BY LinkedPresent DEF Kept, TableSet, olsr_expire_link_sym_timer
<1>2. \/ db' = u
      \/ db' = [update_neighbor_status(v, v.links[k].nbr, HasSymLink(v, ifnet, k[1]))
                   EXCEPT !.changes = TRUE]
  BY DEF olsr_expire_link_sym_timer, Tables
<1>3. db.links[k] \in LinkEntries
  BY <1>1, EntryIsLink
<1>4. no \in BOOLEAN /\ ~no /\ status \in LinkTypes
  BY LinkStatusType
<1>5. u = [db EXCEPT !.links[k] = e] /\ v = [u EXCEPT !.links[k].prev_status = status]
  OBVIOUS
<1> HIDE DEF no, status, u, v
<1>6. e \in LinkEntries /\ e.nbr = db.links[k].nbr /\ e.link_sym_timer = no
  BY <1>3, <1>4 DEF LinkEntries
<1>7. Relinked(db, u, k, e)
  BY <1>1, <1>5, <1>6 DEF Relinked
<1> HIDE DEF e
<1>8. Kept(u) /\ u.links[k] = e /\ k \in Present(u.links)
  BY <1>1, <1>7, RelinkKept
<1>9. f \in LinkEntries /\ f.nbr = e.nbr /\ f.link_sym_timer = no
  BY <1>4, <1>6 DEF LinkEntries
<1>10. v = [u EXCEPT !.links[k] = f]
  BY <1>5, <1>8
<1>11. Relinked(u, v, k, f)
  BY <1>8, <1>9, <1>10 DEF Relinked
<1> HIDE DEF f
<1> QED
  BY <1>2, <1>4, <1>6, <1>7, <1>9, <1>11 DEF SymTimerSteps

LEMMA Requested ==
  ASSUME NEW d, Kept(d), NEW u, u = [d EXCEPT !.changes = TRUE]
  PROVE  Kept(u) /\ u.changes /\ u.links = d.links /\ u.nbr = d.nbr
<1> DEFINE yes == TRUE
<1>1. yes \in BOOLEAN /\ yes /\ d \in TableSet /\ u = [d EXCEPT !.changes = yes]
  BY DEF Kept
<1> HIDE DEF yes
<1>2. u \in TableSet /\ OnlyMid(d, u) /\ u.mid = d.mid /\ u.changes = yes
  BY <1>1 DEF TableSet, OnlyMid, SamePeers, SameHops
<1>3. MidKept(u.mid)
  BY <1>2 DEF Kept
<1>4. Kept(u)
  BY <1>2, <1>3, OnlyMidKept
<1> QED
  BY <1>1, <1>2, <1>4 DEF OnlyMid, SamePeers

LEMMA SymTimerStep ==
  ASSUME Kept(db), UpToDate(db, basis), NEW k, olsr_expire_link_sym_timer(k)
  PROVE  /\ Kept(db') /\ UpToDate(db', basis) /\ UNCHANGED <<ifnet, mprs_set, basis>>
         /\ Present(db'.links) = Present(db.links)
<1>1. PICK u, v : SymTimerSteps(k, u, v)
  BY SymTimerSplit
<1>2. PICK e : Relinked(db, u, k, e)
  BY <1>1 DEF SymTimerSteps
<1>3. PICK f : Relinked(u, v, k, f)
  BY <1>1 DEF SymTimerSteps
<1>4. /\ Kept(u) /\ Reported(db, u) /\ Present(u.links) = Present(db.links)
      /\ k \in Present(db.links)
  <2>1. k \in Present(db.links)
    BY <1>2 DEF Relinked
  <2> QED
    BY <1>2, <2>1, RelinkKept
<1>5. /\ Kept(v) /\ Present(v.links) = Present(u.links)
  BY <1>3, <1>4, RelinkKept
<1>6. UNCHANGED <<ifnet, mprs_set, basis>>
  BY DEF olsr_expire_link_sym_timer, Tables
<1>7. CASE db' = u
  BY <1>4, <1>6, <1>7, ReportedUpToDate
<1>8. CASE db' # u
  <2> DEFINE id == v.links[k].nbr
             sym == HasSymLink(v, ifnet, k[1])
             w == update_neighbor_status(v, id, sym)
  <2>1. id \in v.table /\ sym \in BOOLEAN
    <3>1. sym \in BOOLEAN
      BY DEF HasSymLink
    <3>2. k \in Present(v.links)
      BY <1>4, <1>5
    <3> QED
      BY <1>5, <3>1, <3>2 DEF Kept, Peers, PeersKept, LinksAttached
  <2>2. db' = [w EXCEPT !.changes = TRUE]
    BY <1>1, <1>8 DEF SymTimerSteps
  <2> HIDE DEF id, sym
  <2>3. Kept(w) /\ w.links = v.links
    BY <1>5, <2>1, StatusKept
  <2> HIDE DEF w
  <2>4. Kept(db') /\ db'.changes /\ db'.links = w.links
    BY <2>2, <2>3, Requested
  <2> QED
    BY <1>4, <1>5, <1>6, <2>3, <2>4 DEF UpToDate
<1> QED
  BY <1>7, <1>8

-----------------------------------------------------------------------------
(* The invariant.                                                          *)

Inv ==
    /\ Kept(db) /\ UpToDate(db, basis)
    /\ ifnet \subseteq Ifaces /\ mprs_set \subseteq Addrs
    /\ \A k \in Present(db.links) : k[2] \in ifnet

LEMMA DeleteLinksStep ==
  ASSUME Kept(db), UpToDate(db, basis), NEW ks \in SUBSET Linked(db), db' = DeleteLinks(db, ks)
  PROVE  Kept(db') /\ UpToDate(db', basis) /\ OthersStay(db, db', ks)
  BY DeleteLinksKept, ReportedUpToDate

LEMMA InitInv == Init => Inv
<1> SUFFICES ASSUME Init PROVE Inv
  OBVIOUS
<1> DEFINE no == FALSE
<1>1. db = EmptyTables /\ ifnet = Ifaces /\ mprs_set = {} /\ basis = {}
  BY DEF Init
<1>2. /\ db.links = [k \in LinkKeys |-> NoLink] /\ db.nbr = [i \in Ids |-> Freed] /\ db.table = {}
      /\ db.ahead = {} /\ db.mid = [a \in AllAddrs |-> NoAddr] /\ db.two_hop = {}
      /\ db.pointer = [a \in AllAddrs |-> 0] /\ db.list2 = {} /\ db.nblist = {} /\ db.timer2 = {}
      /\ db.changes = no /\ db.link_changes = no /\ no \in BOOLEAN
  BY <1>1 DEF EmptyTables
<1>3. db \in TableSet
  <2>1. db = [links |-> [k \in LinkKeys |-> NoLink], nbr |-> [i \in Ids |-> Freed], table |-> {},
              ahead |-> {}, mid |-> [a \in AllAddrs |-> NoAddr], two_hop |-> {},
              pointer |-> [a \in AllAddrs |-> 0], list2 |-> {}, nblist |-> {}, timer2 |-> {},
              changes |-> no, link_changes |-> no]
    BY <1>1 DEF EmptyTables
  <2> HIDE DEF no
  <2> QED
    BY <1>2, <2>1, FreedType DEF TableSet, LinkTables
<1>4. Present(db.links) = {}
  BY <1>2 DEF Present
<1>5. Peers(db)
  BY <1>2, <1>4 DEF Peers, PeersKept, LinksAttached, Counted, Distinct, Chained
<1>6. MidKept(db.mid)
  BY <1>2 DEF MidKept
<1>7. Hops(db)
  <2>1. \A t : Into({}, t) = {} /\ Cardinality(Into({}, t)) = 0
    BY FS_EmptySet DEF Into
  <2> QED
    BY <1>2, <2>1 DEF Hops, HopsKept
<1>8. Basis(db) = {}
  BY <1>2 DEF Basis
<1> QED
  BY <1>1, <1>3, <1>4, <1>5, <1>6, <1>7, <1>8 DEF Inv, Kept, UpToDate

\* Each action keeps the invariant.
LEMMA NextInv == Inv /\ [Next]_vars => Inv'
<1> SUFFICES ASSUME Inv, [Next]_vars PROVE Inv'
  OBVIOUS
<1>0. /\ Kept(db) /\ UpToDate(db, basis) /\ ifnet \subseteq Ifaces /\ mprs_set \subseteq Addrs
      /\ \A k \in Present(db.links) : k[2] \in ifnet
  BY DEF Inv
<1>1. CASE ReceiveHello
  <2>1. PICK p \in HelloPairs, i \in ifnet, msg \in Messages, lqChange \in Flags :
           olsr_hello_tap(p[1], p[2], i, msg, lqChange)
    BY <1>1 DEF ReceiveHello
  <2>2. i \in Ifaces
    BY <1>0
  <2>3. /\ Kept(db') /\ UpToDate(db', basis') /\ mprs_set' \subseteq Addrs /\ ifnet' = ifnet
        /\ Present(db'.links) = Present(db.links) \cup {<<p[1], i>>}
    BY <1>0, <2>1, <2>2, HelloKept
  <2> QED
    BY <1>0, <2>3 DEF Inv
<1>2. CASE ReceiveMid
  <2>1. PICK p \in MidPairs, pruned \in SUBSET Addrs : olsr_input_mid(p[1], p[2], pruned)
    BY <1>2 DEF ReceiveMid
  <2> QED
    BY <1>0, <2>1, MidStep DEF Inv
<1>3. ASSUME NEW k \in LinkKeys, AsymTimesOut(k) PROVE Inv'
  <2>1. PICK e : Relinked(db, db', k, e)
    BY <1>0, <1>3, AsymStep
  <2>2. Kept(db') /\ Reported(db, db') /\ Present(db'.links) = Present(db.links)
    BY <1>0, <2>1, RelinkKept
  <2>3. UpToDate(db', basis)
    BY <1>0, <2>2, ReportedUpToDate
  <2>4. UNCHANGED <<ifnet, mprs_set, basis>>
    BY <1>3 DEF AsymTimesOut, Tables
  <2> QED
    BY <1>0, <2>2, <2>3, <2>4 DEF Inv
<1>4. ASSUME NEW k \in LinkKeys, olsr_expire_link_sym_timer(k) PROVE Inv'
  BY <1>0, <1>4, SymTimerStep DEF Inv
<1>5. CASE ExpireLinks
  <2>1. PICK k \in Linked(db) : Tables(DeleteLinks(db, {k}))
    BY <1>5 DEF ExpireLinks, olsr_expire_link_entry, olsr_delete_link_entry
  <2>2. {k} \in SUBSET Linked(db)
    OBVIOUS
  <2>3. db' = DeleteLinks(db, {k}) /\ UNCHANGED <<ifnet, mprs_set, basis>>
    BY <2>1 DEF Tables
  <2>4. Kept(db') /\ UpToDate(db', basis) /\ OthersStay(db, db', {k})
    BY <1>0, <2>2, <2>3, DeleteLinksStep
  <2>5. Present(db'.links) \subseteq Present(db.links)
    BY <2>4 DEF OthersStay
  <2> QED
    BY <1>0, <2>3, <2>4, <2>5 DEF Inv
<1>6. CASE ExpireTwoHops
  <2>1. PICK p : olsr_expire_nbr2_list(p)
    BY <1>6 DEF ExpireTwoHops
  <2> QED
    BY <1>0, <2>1, ExpireTwoHopStep DEF Inv
<1>7. ASSUME NEW a \in Addrs, olsr_expire_mid_entry(a) PROVE Inv'
  BY <1>0, <1>7, ExpireMidStep DEF Inv
<1>8. ASSUME NEW a \in Addrs, olsr_expire_mpr_sel_entry(a) PROVE Inv'
  <2>1. db' = [db EXCEPT !.link_changes = TRUE] /\ mprs_set' = mprs_set \ {a}
        /\ UNCHANGED <<ifnet, basis>>
    BY <1>8 DEF olsr_expire_mpr_sel_entry
  <2>2. Kept(db') /\ UpToDate(db', basis) /\ db'.links = db.links
    BY <1>0, <2>1, AnsnStep
  <2> QED
    BY <1>0, <2>1, <2>2 DEF Inv
<1>9. ASSUME NEW i \in Ifaces, olsr_remove_interface(i) PROVE Inv'
  <2> DEFINE ks == {k \in Linked(db) : k[2] = i}
  <2>1. ks \in SUBSET Linked(db)
    OBVIOUS
  <2>2. db' = DeleteLinks(db, ks) /\ ifnet' = ifnet \ {i} /\ UNCHANGED <<mprs_set, basis>>
    BY <1>9 DEF olsr_remove_interface
  <2>3. Kept(db') /\ UpToDate(db', basis) /\ OthersStay(db, db', ks)
    <3> HIDE DEF ks
    <3> QED
      BY <1>0, <2>1, <2>2, DeleteLinksStep
  <2>4. \A k \in Present(db'.links) : k \in Present(db.links) /\ k \notin ks
    BY <2>3 DEF OthersStay
  <2>5. \A k \in Present(db'.links) : k[2] \in ifnet \ {i}
    BY <1>0, <2>4, LinkedPresent
  <2> QED
    BY <1>0, <2>2, <2>3, <2>5 DEF Inv
<1>10. ASSUME NEW i \in Ifaces, AddInterface(i) PROVE Inv'
  BY <1>0, <1>10 DEF AddInterface, Inv
<1>11. CASE olsr_process_changes
  <2>1. Settle(db) /\ UNCHANGED <<ifnet, mprs_set>>
    BY <1>11 DEF olsr_process_changes
  <2>2. Kept(db') /\ UpToDate(db', basis') /\ db'.links = db.links
    BY <1>0, <2>1, SettleKept
  <2> QED
    BY <1>0, <2>1, <2>2 DEF Inv
<1>12. CASE increase_local_ansn
  <2>1. db' = [db EXCEPT !.link_changes = FALSE] /\ UNCHANGED <<ifnet, mprs_set, basis>>
    BY <1>12 DEF increase_local_ansn
  <2>2. Kept(db') /\ UpToDate(db', basis) /\ db'.links = db.links
    BY <1>0, <2>1, AnsnStep
  <2> QED
    BY <1>0, <2>1, <2>2 DEF Inv
<1>13. CASE UNCHANGED vars
  BY <1>0, <1>13 DEF vars, Inv
<1> QED
  BY <1>1, <1>2, <1>3, <1>4, <1>5, <1>6, <1>7, <1>8, <1>9, <1>10, <1>11, <1>12, <1>13 DEF Next

-----------------------------------------------------------------------------
(* The theorems.                                                           *)

LEMMA InvAlways == Spec => []Inv
  BY InitInv, NextInv, PTL DEF Spec

\* The tables keep their types: no two hop counter goes negative, no timer runs
\* for a list entry that is gone.
THEOREM NeighborhoodTypes == Spec => []TypeOK
<1>1. Inv => TypeOK
  BY DEF Inv, Kept, TableSet, LinkTables, Pairs, Peers, PeersKept, Chained, Hops, HopsKept, TypeOK
<1> QED
  BY <1>1, InvAlways, PTL

\* No link points to a freed neighbour and no neighbour outlives its links,
\* whatever links and interfaces come and go.
THEOREM NeighborsAlwaysExist == Spec => []NeighborMustExist
<1>1. \A id : LinksOf(db, id) = LinksTo(db.links, id)
  BY LinkedPresent DEF LinksOf, LinksTo
<1>2. Inv => NeighborMustExist
  BY <1>1, LinkedPresent
     DEF Inv, Kept, Peers, PeersKept, LinksAttached, Counted, NeighborMustExist
<1> QED
  BY <1>2, InvAlways, PTL

\* Both directions of the two hop relation and its counters always agree.
THEOREM TwoHopAlwaysConsistent == Spec => []TwoHopConsistent
<1>1. Inv => TwoHopConsistent
  <2> SUFFICES ASSUME Inv PROVE TwoHopConsistent
    OBVIOUS
  <2>1. Hops(db) /\ db.list2 \in SUBSET Pairs /\ db.two_hop \in SUBSET AllAddrs
    BY DEF Inv, Kept, TableSet
  <2>2. db.list2 = db.nblist /\ \A p \in db.list2 : p[1] \in db.table
    BY <2>1 DEF Hops, HopsKept
  <2>3. \A t \in AllAddrs : (t \in db.two_hop) <=> (\E p \in db.list2 : p[2] = t)
    BY <2>1 DEF Hops, HopsKept, Into
  <2>4. db.two_hop = {p[2] : p \in db.list2}
    <3>1. \A p \in db.list2 : p[2] \in AllAddrs
      BY <2>1 DEF Pairs
    <3> QED
      BY <2>1, <2>3, <3>1
  <2>5. \A t \in AllAddrs : db.pointer[t] = Cardinality({p \in db.list2 : p[2] = t})
    BY <2>1 DEF Hops, HopsKept, Into
  <2> QED
    BY <2>2, <2>4, <2>5 DEF TwoHopConsistent
<1> QED
  BY <1>1, InvAlways, PTL

\* No change of the neighbourhood goes unnoticed by the MPR calculation.
THEOREM MprAlwaysUpToDate == Spec => []MprUpToDate
<1>1. Inv => MprUpToDate
  BY DEF Inv, UpToDate, MprUpToDate
<1> QED
  BY <1>1, InvAlways, PTL

-----------------------------------------------------------------------------
(* Symmetric neighbours.                                                   *)

\* We hear each neighbour from one of its interfaces only.
OneAddressHeard == \A p, q \in HelloPairs : p[2] = q[2] => p[1] = q[1]

SymBut(d, id) ==
    \A x \in Present(d.links) :
        (lookup_link_status(d.links[x]) = "SYM" /\ d.links[x].nbr # id)
            => d.nbr[d.links[x].nbr].status = "SYM"

SymOK(d) ==
    \A x \in Present(d.links) :
        lookup_link_status(d.links[x]) = "SYM" => d.nbr[d.links[x].nbr].status = "SYM"

LEMMA StatusOfTimer ==
  ASSUME NEW lnk \in LinkEntries
  PROVE  (lookup_link_status(lnk) = "SYM") <=> lnk.link_sym_timer
  BY DEF lookup_link_status, LinkEntries

\* The status of a neighbour follows from its links.
LEMMA SymUpdated ==
  ASSUME OneAddressHeard, NEW d, Kept(d), NEW up, \A x \in Present(d.links) : x[2] \in up,
         NEW k \in Present(d.links), SymBut(d, d.links[k].nbr)
  PROVE  SymOK(update_neighbor_status(d, d.links[k].nbr, HasSymLink(d, up, k[1])))
<1> DEFINE id == d.links[k].nbr
           sym == HasSymLink(d, up, k[1])
           u == update_neighbor_status(d, id, sym)
<1>1. d \in TableSet /\ d.links \in LinkTables /\ Peers(d)
  BY DEF Kept, TableSet
<1>2. id \in d.table /\ sym \in BOOLEAN
  <2>1. sym \in BOOLEAN
    BY DEF HasSymLink
  <2> QED
    BY <1>1, <2>1 DEF Peers, PeersKept, LinksAttached
<1>3. /\ u.links = d.links /\ \A i \in Ids \ {id} : u.nbr[i] = d.nbr[i]
      /\ (u.nbr[id].status = "SYM") <=> sym
  <2> HIDE DEF id, sym
  <2> QED
    BY <1>2, StatusKept
<1>4. ASSUME NEW x \in Present(d.links), d.links[x].nbr = id, lookup_link_status(d.links[x]) = "SYM"
      PROVE  sym
  <2>1. <<x[1], d.nbr[id].addr>> \in HelloPairs /\ <<k[1], d.nbr[id].addr>> \in HelloPairs
    BY <1>1, <1>4 DEF Peers, PeersKept, LinksAttached
  <2>2. x[1] = k[1]
    BY <2>1 DEF OneAddressHeard
  <2>3. k[1] \in AllAddrs
    BY <1>1, EntryIsLink DEF AllAddrs
  <2>4. k[1] \in {MainAddr(d, k[1])} \cup Aliases(d, MainAddr(d, k[1]))
    BY <2>3 DEF MainAddr, Aliases
  <2> QED
    BY <1>4, <2>2, <2>4, LinkedPresent DEF HasSymLink
<1>5. ASSUME NEW x \in Present(d.links), lookup_link_status(d.links[x]) = "SYM"
      PROVE  u.nbr[d.links[x].nbr].status = "SYM"
  <2>1. d.links[x].nbr \in Ids
    BY <1>1, EntryIsLink
  <2> HIDE DEF id, sym, u
  <2>2. CASE d.links[x].nbr = id
    BY <1>3, <1>4, <1>5, <2>2
  <2>3. CASE d.links[x].nbr # id
    <3>1. SymBut(d, id)
      BY DEF id
    <3> QED
      BY <1>3, <1>5, <2>1, <2>3, <3>1 DEF SymBut
  <2> QED
    BY <2>2, <2>3
<1> HIDE DEF u
<1>6. SymOK(u)
  BY <1>3, <1>5 DEF SymOK
<1> QED
  BY <1>6 DEF u

\* Changing link k leaves the neighbours of the other links as they are.
LEMMA RelinkSym ==
  ASSUME NEW d, NEW u, NEW k, NEW e, Kept(d), SymOK(d), Relinked(d, u, k, e)
  PROVE  /\ SymBut(u, u.links[k].nbr) /\ k \in Present(u.links)
         /\ (e.link_sym_timer => d.links[k].link_sym_timer) => SymOK(u)
<1>1. /\ Present(u.links) = Present(d.links) /\ u.links[k] = e /\ u.nbr = d.nbr
      /\ \A x \in Present(d.links) \ {k} : u.links[x] = d.links[x]
  BY RelinkKept
<1>2. e.nbr = d.links[k].nbr /\ e \in LinkEntries /\ k \in Present(d.links)
  BY DEF Relinked
<1>3. SymBut(u, u.links[k].nbr) /\ k \in Present(u.links)
  BY <1>1, <1>2 DEF SymBut, SymOK
<1>4. ASSUME e.link_sym_timer => d.links[k].link_sym_timer PROVE SymOK(u)
  <2>1. d.links[k] \in LinkEntries
    BY <1>2, EntryIsLink DEF Kept, TableSet
  <2>2. (lookup_link_status(e) = "SYM") => (lookup_link_status(d.links[k]) = "SYM")
    BY <1>2, <1>4, <2>1, StatusOfTimer
  <2> QED
    BY <1>1, <1>2, <2>2 DEF SymOK
<1> QED
  BY <1>3, <1>4

\* A HELLO over an interface that is up.
LEMMA UpdateLinkSym ==
  ASSUME OneAddressHeard, NEW d, Kept(d), SymOK(d), NEW up,
         \A x \in Present(d.links) : x[2] \in up,
         NEW k \in LinkKeys, k[2] \in up, NEW m, m.link \in LinkTypes, <<k[1], m.main>> \in HelloPairs
  PROVE  SymOK(update_link_entry(d, up, k, m))
<1>1. PICK a, v : UpdateSteps(d, up, k, m, a, v)
  BY UpdateLinkSteps
<1>2. Added(d, a, k) /\ Relinked(a, v, k, Heard(a.links[k], m.link))
      /\ update_link_entry(d, up, k, m) =
            update_neighbor_status(v, v.links[k].nbr, HasSymLink(v, up, k[1]))
  BY <1>1 DEF UpdateSteps
<1>3. Kept(a) /\ Present(a.links) = Present(d.links) \cup {k}
  BY <1>2 DEF Added
<1>4. SymOK(a)
  <2>1. \A x \in Present(d.links) : d.links[x].nbr \in d.table
    BY DEF Kept, Peers, PeersKept, LinksAttached
  <2>2. k \notin Present(d.links) => lookup_link_status(a.links[k]) # "SYM"
    BY <1>2 DEF Added, NewLink, lookup_link_status
  <2>3. \A x \in Present(d.links) : /\ a.links[x] = d.links[x]
                                    /\ a.nbr[d.links[x].nbr].status = d.nbr[d.links[x].nbr].status
    BY <1>2, <2>1 DEF Added
  <2> QED
    BY <1>3, <2>2, <2>3 DEF SymOK
<1>5. SymBut(v, v.links[k].nbr) /\ k \in Present(v.links)
  BY <1>2, <1>3, <1>4, RelinkSym
<1>6. Kept(v) /\ Present(v.links) = Present(a.links)
  BY <1>2, <1>3, RelinkKept
<1>7. \A x \in Present(v.links) : x[2] \in up
  BY <1>3, <1>6
<1> QED
  BY <1>2, <1>5, <1>6, <1>7, SymUpdated

LEMMA SymSame ==
  ASSUME NEW d, NEW u, SymOK(d), u.links = d.links, u.nbr = d.nbr
  PROVE  SymOK(u)
  BY DEF SymOK

LEMMA SymTimerSym ==
  ASSUME OneAddressHeard, Inv, SymOK(db), NEW k, olsr_expire_link_sym_timer(k)
  PROVE  SymOK(db')
<1>1. Kept(db) /\ \A x \in Present(db.links) : x[2] \in ifnet
  BY DEF Inv
<1>2. PICK u, v : SymTimerSteps(k, u, v)
  BY <1>1, SymTimerSplit
<1>3. PICK e : Relinked(db, u, k, e) /\ ~e.link_sym_timer
  BY <1>2 DEF SymTimerSteps
<1>4. PICK f : Relinked(u, v, k, f) /\ ~f.link_sym_timer
  BY <1>2 DEF SymTimerSteps
<1>5. Kept(u) /\ Present(u.links) = Present(db.links) /\ SymOK(u)
  BY <1>1, <1>3, RelinkKept, RelinkSym
<1>6. /\ Kept(v) /\ Present(v.links) = Present(u.links)
      /\ SymBut(v, v.links[k].nbr) /\ k \in Present(v.links)
  BY <1>4, <1>5, RelinkKept, RelinkSym
<1>7. CASE db' = u
  BY <1>5, <1>7
<1>8. CASE db' # u
  <2> DEFINE id == v.links[k].nbr
             sym == HasSymLink(v, ifnet, k[1])
             w == update_neighbor_status(v, id, sym)
  <2>1. \A x \in Present(v.links) : x[2] \in ifnet
    BY <1>1, <1>5, <1>6
  <2>2. SymOK(w)
    BY <1>6, <2>1, SymUpdated
  <2>3. id \in v.table /\ sym \in BOOLEAN
    <3>1. sym \in BOOLEAN
      BY DEF HasSymLink
    <3> QED
      BY <1>6, <3>1 DEF Kept, Peers, PeersKept, LinksAttached
  <2>4. db' = [w EXCEPT !.changes = TRUE]
    BY <1>2, <1>8 DEF SymTimerSteps
  <2> HIDE DEF id, sym
  <2>5. Kept(w)
    BY <1>6, <2>3, StatusKept
  <2> HIDE DEF w
  <2>6. db'.links = w.links /\ db'.nbr = w.nbr
    BY <2>4, <2>5, Requested
  <2> QED
    BY <2>2, <2>6, SymSame
<1> QED
  BY <1>7, <1>8

LEMMA OthersSym ==
  ASSUME NEW d, NEW u, NEW ks, SymOK(d), OthersStay(d, u, ks)
  PROVE  SymOK(u)
  BY DEF SymOK, OthersStay

LEMMA NextSym ==
  ASSUME OneAddressHeard, Inv, SymOK(db), [Next]_vars
  PROVE  SymOK(db')
<1>0. /\ Kept(db) /\ UpToDate(db, basis) /\ ifnet \subseteq Ifaces /\ mprs_set \subseteq Addrs
      /\ \A k \in Present(db.links) : k[2] \in ifnet
  BY DEF Inv
<1>1. CASE ReceiveHello
  <2>1. PICK p \in HelloPairs, i \in ifnet, msg \in Messages, lqChange \in Flags :
           olsr_hello_tap(p[1], p[2], i, msg, lqChange)
    BY <1>1 DEF ReceiveHello
  <2> DEFINE k == <<p[1], i>>
             m == [main |-> p[2], link |-> msg.link]
             linked == update_link_entry(db, ifnet, k, m)
  <2>2. i \in Ifaces /\ msg.link \in LinkTypes
    BY <1>0 DEF Messages
  <2>3. /\ k \in LinkKeys /\ k[2] \in ifnet /\ m.link \in LinkTypes
        /\ <<k[1], m.main>> \in HelloPairs
    BY <2>2, NeighborhoodAssumption DEF LinkKeys
  <2>4. /\ Kept(db') /\ db'.links = linked.links
        /\ \A j \in Ids : db'.nbr[j].status = linked.nbr[j].status
    BY <1>0, <2>1, <2>2, HelloKept
  <2> HIDE DEF k, m
  <2>5. SymOK(linked)
    BY <1>0, <2>3, UpdateLinkSym
  <2>6. \A x \in Present(db'.links) : db'.links[x].nbr \in Ids
    BY <2>4, EntryIsLink DEF Kept, TableSet
  <2> HIDE DEF linked
  <2> QED
    BY <2>4, <2>5, <2>6 DEF SymOK
<1>2. CASE ReceiveMid
  <2>1. PICK p \in MidPairs, pruned \in SUBSET Addrs : olsr_input_mid(p[1], p[2], pruned)
    BY <1>2 DEF ReceiveMid
  <2> QED
    BY <1>0, <2>1, MidStep, SymSame
<1>3. ASSUME NEW k \in LinkKeys, AsymTimesOut(k) PROVE SymOK(db')
  <2>1. PICK e : Relinked(db, db', k, e) /\ e.link_sym_timer = db.links[k].link_sym_timer
    BY <1>0, <1>3, AsymStep
  <2> QED
    BY <1>0, <2>1, RelinkSym
<1>4. ASSUME NEW k \in LinkKeys, olsr_expire_link_sym_timer(k) PROVE SymOK(db')
  BY <1>4, SymTimerSym
<1>5. CASE ExpireLinks
  <2>1. PICK k \in Linked(db) : Tables(DeleteLinks(db, {k}))
    BY <1>5 DEF ExpireLinks, olsr_expire_link_entry, olsr_delete_link_entry
  <2>2. {k} \in SUBSET Linked(db) /\ db' = DeleteLinks(db, {k})
    BY <2>1 DEF Tables
  <2> QED
    BY <1>0, <2>2, DeleteLinksStep, OthersSym
<1>6. CASE ExpireTwoHops
  <2>1. PICK p : olsr_expire_nbr2_list(p)
    BY <1>6 DEF ExpireTwoHops
  <2> QED
    BY <1>0, <2>1, ExpireTwoHopStep, SymSame
<1>7. ASSUME NEW a \in Addrs, olsr_expire_mid_entry(a) PROVE SymOK(db')
  BY <1>0, <1>7, ExpireMidStep, SymSame
<1>8. ASSUME NEW a \in Addrs, olsr_expire_mpr_sel_entry(a) PROVE SymOK(db')
  BY <1>0, <1>8, AnsnStep, SymSame DEF olsr_expire_mpr_sel_entry
<1>9. ASSUME NEW i \in Ifaces, olsr_remove_interface(i) PROVE SymOK(db')
  <2> DEFINE ks == {k \in Linked(db) : k[2] = i}
  <2>1. ks \in SUBSET Linked(db) /\ db' = DeleteLinks(db, ks)
    BY <1>9 DEF olsr_remove_interface
  <2> HIDE DEF ks
  <2> QED
    BY <1>0, <2>1, DeleteLinksStep, OthersSym
<1>10. ASSUME NEW i \in Ifaces, AddInterface(i) PROVE SymOK(db')
  BY <1>10 DEF AddInterface
<1>11. CASE olsr_process_changes
  BY <1>0, <1>11, SettleKept, SymSame DEF olsr_process_changes
<1>12. CASE increase_local_ansn
  BY <1>0, <1>12, AnsnStep, SymSame DEF increase_local_ansn
<1>13. CASE UNCHANGED vars
  BY <1>13 DEF vars
<1> QED
  BY <1>1, <1>2, <1>3, <1>4, <1>5, <1>6, <1>7, <1>8, <1>9, <1>10, <1>11, <1>12, <1>13 DEF Next

\* When each neighbour is heard from one interface, a symmetric link always makes
\* its neighbour symmetric: HELLOs, timers and lost interfaces keep the status of
\* the neighbour in step with its links.
THEOREM SymLinksMakeSymNeighbors ==
  ASSUME OneAddressHeard
  PROVE  Spec => []SymLinkMeansSymNeighbor
<1>1. SymLinkMeansSymNeighbor <=> SymOK(db)
  BY LinkedPresent DEF SymLinkMeansSymNeighbor, SymOK
<1>2. Init => SymOK(db)
  BY DEF Init, EmptyTables, SymOK, Present
<1>3. Inv /\ SymOK(db) /\ [Next]_vars => SymOK(db)'
  <2> SUFFICES ASSUME Inv, SymOK(db), [Next]_vars PROVE SymOK(db')
    BY DEF SymOK
  <2> QED
    BY NextSym
<1> QED
  BY <1>1, <1>2, <1>3, InvAlways, PTL DEF Spec
=============================================================================
