---------------------------- MODULE MCAdvertise ----------------------------
(* A small instance of Advertise: two bytes of two bits, two addresses to  *)
(* a part.                                                                 *)
EXTENDS Advertise

\* IPv6, and IPv4 on big endian hosts: any addresses.
BigEndian == [order |-> "network", addrs |-> {1, 6, 7, 8, 13}, immediate_send_tc |-> FALSE,
              start |-> {S \in SUBSET {1, 6, 7, 8, 13} : Cardinality(S) \in {1, 4, 5}}]

\* IPv4 on little endian hosts: addresses that differ in the last byte only.
LittleEndian == [order |-> "host", addrs |-> {4, 5, 6, 7}, immediate_send_tc |-> TRUE,
                 start |-> {{}, {4, 6}, {4, 5, 6, 7}}]

MCNetworks == {BigEndian, LittleEndian}

=============================================================================
