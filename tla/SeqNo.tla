-------------------------------- MODULE SeqNo --------------------------------
(***************************************************************************)
(* Arithmetic of the wrapping 16-bit sequence numbers of olsrd: message    *)
(* sequence numbers and ANSNs.  The code computes them in uint16_t; here   *)
(* the modulus is a parameter, so that TLC can run through a whole cycle.  *)
(***************************************************************************)
EXTENDS Integers

CONSTANT SEQ_MOD        \* 2^16 in the code: the range of a uint16_t

ASSUME SeqModAssumption == SEQ_MOD \in Nat /\ SEQ_MOD > 3 /\ SEQ_MOD % 2 = 0

SeqNumbers == 0 .. SEQ_MOD - 1

HALF == SEQ_MOD \div 2

\* duplicate_set.c: the signed distance from seqno2 to seqno1.  The distance
\* of exactly half the range keeps the sign of the raw difference.
olsr_seqno_diff(seqno1, seqno2) ==
    LET diff == seqno1 - seqno2
    IN  IF diff > HALF THEN diff - SEQ_MOD
        ELSE IF diff < -HALF THEN diff + SEQ_MOD
        ELSE diff

\* olsr_protocol.h; MAXVALUE/2 is HALF - 1.
SEQNO_GREATER_THAN(s1, s2) ==
    \/ s1 > s2 /\ s1 - s2 <= HALF - 1
    \/ s2 > s1 /\ s2 - s1 > HALF - 1

\* tc_set.c: is seq in (beg, end], where beg may lie below 0 and end above
\* the range.  (uint16_t) of such a border is its remainder.
olsr_seq_inrange_high(beg, end, seq) ==
    IF beg < 0 THEN seq > beg % SEQ_MOD \/ seq <= end
    ELSE IF end >= SEQ_MOD THEN seq > beg \/ seq <= end % SEQ_MOD
    ELSE seq > beg /\ seq <= end

\* tc_set.c: is seq in [beg, end).
olsr_seq_inrange_low(beg, end, seq) ==
    IF beg < 0 THEN seq >= beg % SEQ_MOD \/ seq < end
    ELSE IF end >= SEQ_MOD THEN seq >= beg \/ seq < end % SEQ_MOD
    ELSE seq >= beg /\ seq < end

=============================================================================
