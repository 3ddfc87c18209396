-------------------------- MODULE DuplicateSetProofs --------------------------
(***************************************************************************)
(* Proofs about DuplicateSet, for every value of its constants: the window *)
(* never accepts a message twice.                                          *)
(*                                                                         *)
(* The argument: all messages in flight are younger than IN_FLIGHT, so the *)
(* distance of an accepted message behind the top of the window is smaller *)
(* than half the range and olsr_seqno_diff computes it without ambiguity.  *)
(***************************************************************************)
EXTENDS DuplicateSet, NumberFacts, TLAPS

\* The arithmetic content of the assumptions.
LEMMA ConstFacts ==
    /\ SEQ_MOD \in Nat /\ SEQ_MOD > 3
    /\ HALF \in Nat /\ 2 * HALF = SEQ_MOD
    /\ WINDOW \in Nat /\ WINDOW > 0 /\ IN_FLIGHT \in Nat /\ IN_FLIGHT > 0
    /\ WINDOW + IN_FLIGHT <= HALF
BY SeqModAssumption, DuplicateSetAssumption DEF HALF

\* Timestamps stay in the range of the millisecond clock.
LEMMA TimeFacts ==
    /\ TIME_MOD \in Nat /\ TIME_MOD > 0 /\ DUPLICATE_VTIME \in Nat
    /\ DUP_MAX_TOO_LOW \in Nat /\ DUP_MAX_TOO_LOW >= 2
    /\ DUPLICATE_CLEANUP_INTERVAL \in Nat /\ DUPLICATE_CLEANUP_JITTER \in Nat
    /\ DUPLICATE_CLEANUP_JITTER < DUPLICATE_CLEANUP_INTERVAL
    /\ MAX_CLOCK \in Nat /\ MAX_SENT \in Nat
BY DuplicateSetAssumption

USE ConstFacts

\* What olsr_seqno_diff returns, from the distance of n behind s.
LEMMA DiffValue ==
    ASSUME NEW s \in SeqNumbers, NEW n \in Int, NEW d, d = (s - n) % SEQ_MOD
    PROVE  /\ d \in 0 .. SEQ_MOD - 1
           /\ d < HALF => olsr_seqno_diff(n % SEQ_MOD, s) = -d
           /\ d > HALF => olsr_seqno_diff(n % SEQ_MOD, s) = SEQ_MOD - d
           /\ d = HALF => olsr_seqno_diff(n % SEQ_MOD, s) \in {HALF, -HALF}
<1> DEFINE r == n % SEQ_MOD
<1>1. r \in 0 .. SEQ_MOD - 1
  BY ModRange
<1>2. s \in 0 .. SEQ_MOD - 1
  BY DEF SeqNumbers
<1>3. d = (s - r) % SEQ_MOD
  <2>1. s \in Int /\ SEQ_MOD \in Nat /\ SEQ_MOD > 0
    BY <1>2
  <2>2. (s - (n % SEQ_MOD)) % SEQ_MOD = (s - n) % SEQ_MOD
    BY <2>1, ModMinus
  <2> QED BY <2>2
<1>4. CASE s >= r
  <2>1. s - r \in 0 .. SEQ_MOD - 1
    BY <1>1, <1>2, <1>4
  <2>2. d = s - r
    BY <2>1, <1>3, ModSmall
  <2> QED BY <2>1, <2>2, <1>1, <1>2 DEF olsr_seqno_diff
<1>5. CASE s < r
  <2>1. s - r + SEQ_MOD \in 0 .. SEQ_MOD - 1
    BY <1>1, <1>2, <1>5
  <2>2. 1 * SEQ_MOD + (s - r) = s - r + SEQ_MOD
    BY <1>1, <1>2
  <2>3. (1 * SEQ_MOD + (s - r)) % SEQ_MOD = (s - r) % SEQ_MOD
    BY <1>1, <1>2, ModShift
  <2>4. d = s - r + SEQ_MOD
    BY <2>1, <2>2, <2>3, <1>3, ModSmall
  <2> QED BY <2>1, <2>4, <1>1, <1>2, <1>5 DEF olsr_seqno_diff
<1> QED BY <1>1, <1>2, <1>4, <1>5
(* Type correctness. *)

USE TimeFacts

\* Processing a message keeps a duplicate entry in its type.
LEMMA EntryTypes ==
    ASSUME NEW e \in DupEntry, NEW seqnr \in SeqNumbers, clock \in Nat
    PROVE  Updated(e, seqnr) \in DupEntry
<1>1. GET_TIMESTAMP(DUPLICATE_VTIME) \in 0 .. TIME_MOD - 1
  BY ModRange DEF GET_TIMESTAMP, now_times
<1>2. LaterTimestamp(e) \in 0 .. TIME_MOD - 1
  BY <1>1 DEF LaterTimestamp, DupEntry
<1>3. olsr_seqno_diff(seqnr, e.seqnr) \in Int
  BY DEF olsr_seqno_diff, SeqNumbers, DupEntry
<1>4. ShiftLeft(e.array, olsr_seqno_diff(seqnr, e.seqnr)) \subseteq 0 .. WINDOW - 1
  BY DEF ShiftLeft
<1>5. CASE StartsOver(e, seqnr)
  BY <1>2, <1>5 DEF Updated, DupEntry
<1>6. CASE ~StartsOver(e, seqnr) /\ TooLow(e, seqnr)
  <2>1. e.too_low_counter + 1 \in 0 .. DUP_MAX_TOO_LOW
    BY <1>6 DEF StartsOver, DupEntry
  <2> QED BY <1>2, <1>6, <2>1 DEF Updated, DupEntry
<1>7. CASE ~TooLow(e, seqnr) /\ olsr_seqno_diff(seqnr, e.seqnr) <= 0
  <2>1. -olsr_seqno_diff(seqnr, e.seqnr) \in 0 .. WINDOW - 1
    BY <1>3, <1>7 DEF TooLow
  <2> DEFINE bits == e.array \cup {-olsr_seqno_diff(seqnr, e.seqnr)}
  <2>2. bits \in SUBSET (0 .. WINDOW - 1)
    BY <2>1 DEF DupEntry
  <2>3. Updated(e, seqnr) =
          [seqnr |-> e.seqnr, too_low_counter |-> 0, array |-> bits,
           valid_until |-> LaterTimestamp(e)]
    BY <1>7 DEF Updated, DupEntry, StartsOver
  <2>4. e.seqnr \in SeqNumbers
    BY DEF DupEntry
  <2> HIDE DEF bits
  <2> QED BY <1>2, <2>2, <2>3, <2>4 DEF DupEntry
<1>8. CASE ~TooLow(e, seqnr) /\ ~(olsr_seqno_diff(seqnr, e.seqnr) <= 0)
  BY <1>2, <1>4, <1>8 DEF Updated, DupEntry, StartsOver
<1> QED BY <1>5, <1>6, <1>7, <1>8

\* A freshly created duplicate entry has its type.
LEMMA NewEntryTypes ==
    ASSUME NEW seqnr \in SeqNumbers, clock \in Nat
    PROVE  olsr_create_duplicate_entry(seqnr) \in DupEntry
<1>1. GET_TIMESTAMP(DUPLICATE_VTIME) \in 0 .. TIME_MOD - 1
  BY ModRange DEF GET_TIMESTAMP, now_times
<1> QED BY <1>1 DEF olsr_create_duplicate_entry, DupEntry

\* The types hold in every reachable state (olsr_message_is_duplicate,
\* olsr_cleanup_duplicates and the cleanup timer keep every dup_entry field
\* in its range).
THEOREM TypeCorrect == Spec => []TypeOK
<1>1. Init => TypeOK
  <2> SUFFICES ASSUME Init PROVE TypeOK
    OBVIOUS
  <2>1. sent \in [Originators -> Nat] /\ booted \in [Originators -> Nat]
    BY DEF Init
  <2>2. cleanup_timer \in Nat
    BY DEF Init, CleanupPeriods
  <2> QED BY <2>1, <2>2 DEF Init, TypeOK
<1>2. TypeOK /\ [Next]_vars => TypeOK'
  <2> SUFFICES ASSUME TypeOK, [Next]_vars PROVE TypeOK'
    OBVIOUS
  <2> USE DEF TypeOK
  <2>0. clock \in Nat /\ clock \in 0 .. MAX_CLOCK
    OBVIOUS
  <2>1. ASSUME NEW o \in Originators, Send(o) PROVE TypeOK'
    BY <2>1 DEF Send, codeVars
  <2>2. ASSUME NEW o \in Originators, Reboot(o) PROVE TypeOK'
    <3>1. PICK n \in sent[o] + 1 .. sent[o] + SEQ_MOD :
            /\ booted' = [booted EXCEPT ![o] = n]
            /\ sent' = [sent EXCEPT ![o] = n - 1]
      BY <2>2 DEF Reboot
    <3>2. n \in Nat /\ n - 1 \in Nat
      OBVIOUS
    <3>3. rebooted' \in [Originators -> BOOLEAN]
      BY <2>2 DEF Reboot, Known
    <3> QED BY <2>2, <3>1, <3>2, <3>3 DEF Reboot, codeVars
  <2>3. ASSUME NEW o \in Originators, NEW n \in InFlight(o), Deliver(o, n) PROVE TypeOK'
    <3>1. n \in Nat
      BY DEF InFlight
    <3>2. n % SEQ_MOD \in SeqNumbers
      BY <3>1, ModRange DEF SeqNumbers
    <3>3. AfterMessage(duplicate_set[o], n % SEQ_MOD) \in DupEntry
      BY <2>0, <3>2, EntryTypes, NewEntryTypes DEF AfterMessage
    <3>4. duplicate_set' \in [Originators -> DupEntry \cup {NoEntry}]
      BY <2>3, <3>3 DEF Deliver
    <3>5. accepted' \in [Originators -> SUBSET Nat]
      BY <2>3, <3>1 DEF Deliver
    <3>6. /\ creator' \in [Originators -> Nat \cup {-1}]
          /\ last' \in [Originators -> Nat \cup {-1}]
          /\ blocked' \in [Originators -> Nat]
      BY <2>3, <3>1 DEF Deliver
    <3>7. rebooted' \in [Originators -> BOOLEAN]
      BY <2>3, Zenon DEF Deliver
    <3> QED BY <2>0, <2>3, <3>4, <3>5, <3>6, <3>7 DEF Deliver, envVars
  <2>4. ASSUME NEW o \in Originators, olsr_cleanup_duplicates(o) PROVE TypeOK'
    <3>1. [duplicate_set[o] EXCEPT !.too_low_counter = DUP_MAX_TOO_LOW - 2] \in DupEntry
      BY <2>4 DEF olsr_cleanup_duplicates, Known, Entry, DupEntry
    <3>2. duplicate_set' = [duplicate_set EXCEPT ![o] =
                              [duplicate_set[o] EXCEPT !.too_low_counter = DUP_MAX_TOO_LOW - 2]]
      BY <2>4 DEF olsr_cleanup_duplicates
    <3> QED BY <2>4, <3>1, <3>2 DEF olsr_cleanup_duplicates, envVars
  <2>5. ASSUME olsr_cleanup_duplicate_entry PROVE TypeOK'
    <3>1. duplicate_set' \in [Originators -> DupEntry \cup {NoEntry}]
      BY <2>5 DEF olsr_cleanup_duplicate_entry, Entry
    <3>2. cleanup_timer' \in Nat
      BY <2>5 DEF olsr_cleanup_duplicate_entry, CleanupPeriods
    <3>3. rebooted' \in [Originators -> BOOLEAN]
      BY <2>5, Zenon DEF olsr_cleanup_duplicate_entry
    <3> QED BY <2>5, <3>1, <3>2, <3>3 DEF olsr_cleanup_duplicate_entry, envVars
  <2>6. ASSUME Tick PROVE TypeOK'
    BY <2>6 DEF Tick, envVars, historyVars
  <2>7. ASSUME UNCHANGED vars PROVE TypeOK'
    BY <2>7 DEF vars
  <2> QED BY <2>1, <2>2, <2>3, <2>4, <2>5, <2>6, <2>7 DEF Next
<1> QED BY <1>1, <1>2, PTL DEF Spec
HIDE TimeFacts

(* The window. *)

\* How far n lies behind the top of o's window.
Behind(o, n) == (Entry(o).seqnr - n) % SEQ_MOD

\* Every accepted message that may still arrive is at most WINDOW + IN_FLIGHT
\* behind the top, and its bit is set while it is inside the window.
WindowOf(o) ==
    /\ accepted[o] # {} => Known(o)
    /\ \A n \in accepted[o] :
          /\ sent[o] - IN_FLIGHT < n /\ n <= sent[o]
          /\ Behind(o, n) <= sent[o] + WINDOW - 1 - n
          /\ n # creator[o] /\ Behind(o, n) < WINDOW => Behind(o, n) \in Entry(o).array

WindowInv == \A o \in Originators : WindowOf(o)

\* The invariant of the window implies the verdicts of AcceptedOnce.
LEMMA WindowImpliesOnce == TypeOK /\ WindowInv => AcceptedOnce
<1> SUFFICES ASSUME TypeOK, WindowInv,
                    NEW o \in Originators, NEW n \in accepted[o] \ {creator[o]}
             PROVE  \/ Verdict(Entry(o), n % SEQ_MOD)
                    \/ StartsOver(Entry(o), n % SEQ_MOD)
  BY DEF AcceptedOnce
<1> DEFINE d == Behind(o, n)
           e == Entry(o)
<1>1. n \in Nat /\ sent[o] \in Nat
  BY DEF TypeOK
<1>2. e # NoEntry /\ e \in DupEntry /\ e.seqnr \in SeqNumbers
  BY DEF WindowInv, WindowOf, Known, Entry, TypeOK, DupEntry
<1>3. d \in Int /\ d < HALF
  <2>1. d \in 0 .. SEQ_MOD - 1
    BY <1>1, <1>2, ModRange DEF Behind, SeqNumbers
  <2>2. d <= sent[o] + WINDOW - 1 - n /\ sent[o] - IN_FLIGHT < n
    BY DEF WindowInv, WindowOf
  <2> QED BY <2>1, <2>2, <1>1
<1>4. olsr_seqno_diff(n % SEQ_MOD, e.seqnr) = -d
  BY <1>1, <1>2, <1>3, DiffValue DEF Behind
<1>5. d < WINDOW => d \in e.array
  BY DEF WindowInv, WindowOf
<1>6. d \in 0 .. SEQ_MOD - 1
  BY <1>1, <1>2, ModRange DEF Behind, SeqNumbers
<1> HIDE DEF d
<1>7. CASE d >= WINDOW
  <2>1. TooLow(e, n % SEQ_MOD)
    BY <1>4, <1>6, <1>7 DEF TooLow
  <2> QED BY <1>2, <2>1 DEF Verdict
<1>8. CASE d < WINDOW
  <2>1. ~TooLow(e, n % SEQ_MOD)
    BY <1>4, <1>6, <1>8 DEF TooLow
  <2>2. -(-d) = d /\ -d <= 0
    BY <1>6
  <2> QED BY <1>2, <1>4, <1>5, <1>8, <2>1, <2>2 DEF Verdict
<1> QED BY <1>3, <1>7, <1>8

\* The distance of a number behind itself is nothing.
LEMMA BehindItself ==
    ASSUME NEW n \in Int
    PROVE  ((n % SEQ_MOD) - n) % SEQ_MOD = 0
<1>0. SEQ_MOD \in Nat /\ SEQ_MOD > 0
  OBVIOUS
<1>1. PICK q \in Int : n = q * SEQ_MOD + (n % SEQ_MOD)
  BY <1>0, ModDecompose
<1>2. n % SEQ_MOD \in Int
  BY ModRange
<1>3. (n % SEQ_MOD) - n = (-q) * SEQ_MOD + 0
  BY <1>1, <1>2
<1>4. -q \in Int /\ 0 \in 0 .. SEQ_MOD - 1
  OBVIOUS
<1>5. ((-q) * SEQ_MOD + 0) % SEQ_MOD = 0
  BY <1>4, ModUnique
<1> QED BY <1>3, <1>5

\* A step up to n moves every accepted message further behind by exactly the
\* difference the code computed.
LEMMA MoveUp ==
    ASSUME NEW s \in SeqNumbers, NEW n \in Int, NEW m \in Int, NEW dm,
           dm = (s - m) % SEQ_MOD,
           olsr_seqno_diff(n % SEQ_MOD, s) > 0,
           m + dm - n < HALF, n - (m + dm) < HALF
    PROVE  /\ olsr_seqno_diff(n % SEQ_MOD, s) = n - (m + dm)
           /\ 0 <= n - m /\ n - m < SEQ_MOD => ((n % SEQ_MOD) - m) % SEQ_MOD = n - m
<1> DEFINE dn == (s - n) % SEQ_MOD
<1>1. s \in Int /\ SEQ_MOD \in Nat /\ SEQ_MOD > 0
  BY DEF SeqNumbers
<1>2. dm \in 0 .. SEQ_MOD - 1 /\ dn \in 0 .. SEQ_MOD - 1
  BY <1>1, ModRange
<1>3. olsr_seqno_diff(n % SEQ_MOD, s) = SEQ_MOD - dn /\ dn >= HALF
  <2> DEFINE diff == olsr_seqno_diff(n % SEQ_MOD, s)
  <2>1. /\ dn < HALF => diff = -dn
        /\ dn > HALF => diff = SEQ_MOD - dn
        /\ dn = HALF => diff \in {HALF, -HALF}
    BY DiffValue
  <2>2. diff > 0
    OBVIOUS
  <2> HIDE DEF dn, diff
  <2>3. ~(dn < HALF)
    BY ONLY <1>2, <2>1, <2>2, ConstFacts
  <2>4. dn = HALF => diff = SEQ_MOD - dn
    BY ONLY <1>2, <2>1, <2>2, ConstFacts
  <2>5. diff = SEQ_MOD - dn /\ dn >= HALF
    BY ONLY <1>2, <2>1, <2>3, <2>4, ConstFacts
  <2> QED BY <2>5 DEF diff
<1>4. PICK q \in Int : s - m = q * SEQ_MOD + dm
  <2>1. s - m \in Int
    BY <1>1
  <2> QED BY <1>1, <2>1, ModDecompose
<1>5. PICK p \in Int : s - n = p * SEQ_MOD + dn
  <2>1. s - n \in Int
    BY <1>1
  <2> QED BY <1>1, <2>1, ModDecompose
<1> HIDE DEF dn
<1>6. n - (m + dm) = (q - p) * SEQ_MOD - dn
  BY <1>1, <1>2, <1>4, <1>5
<1>7. q - p = 1
  <2> DEFINE k == q - p
  <2>0. k \in Int
    OBVIOUS
  <2>1. k * SEQ_MOD - dn < HALF /\ -HALF < k * SEQ_MOD - dn
    BY <1>1, <1>2, <1>6
  <2> HIDE DEF k
  <2>2. ~(k >= 2)
    <3>1. k >= 2 => k * SEQ_MOD >= 2 * SEQ_MOD
      BY <2>0
    <3> QED BY <2>0, <2>1, <3>1, <1>2
  <2>3. ~(k <= 0)
    <3>1. k <= 0 => k * SEQ_MOD <= 0
      BY <2>0
    <3> QED BY <2>0, <2>1, <3>1, <1>2, <1>3
  <2> QED BY <2>0, <2>2, <2>3 DEF k
<1>8. n - (m + dm) = SEQ_MOD - dn
  BY <1>1, <1>2, <1>6, <1>7
<1>9. ((n % SEQ_MOD) - m) % SEQ_MOD = (n - m) % SEQ_MOD
  BY <1>1, ModMinus
<1>10. 0 <= n - m /\ n - m < SEQ_MOD => (n - m) % SEQ_MOD = n - m
  BY ModSmall
<1> QED BY <1>3, <1>8, <1>9, <1>10
\* A message delivered to olsr_message_is_duplicate keeps the window of its
\* originator in order.
LEMMA DeliverKeepsWindow ==
    ASSUME TypeOK, WindowInv,
           NEW o \in Originators, NEW n \in InFlight(o), Deliver(o, n)
    PROVE  WindowOf(o)'
<1> DEFINE e == Entry(o)
           r == n % SEQ_MOD
           diff == olsr_seqno_diff(r, e.seqnr)
<1>1. /\ n \in Nat /\ sent[o] \in Nat /\ sent[o] - IN_FLIGHT < n /\ n <= sent[o]
      /\ accepted[o] \in SUBSET Nat
  BY DEF InFlight, TypeOK
<1>2. /\ Entry(o)' = AfterMessage(e, r) /\ sent'[o] = sent[o]
      /\ accepted'[o] = IF ~Known(o) \/ StartsOver(e, r) THEN {n}
                        ELSE IF Verdict(e, r) THEN accepted[o] ELSE accepted[o] \cup {n}
      /\ creator'[o] = IF ~Known(o) THEN n
                       ELSE IF StartsOver(e, r) \/ (n = creator[o] /\ ~Verdict(e, r)) THEN -1
                       ELSE creator[o]
  BY DEF Deliver, TypeOK, Entry, envVars
<1>3. r \in SeqNumbers /\ r # -1
  BY <1>1, ModRange DEF SeqNumbers
<1>4. (r - n) % SEQ_MOD = 0
  BY <1>1, BehindItself
<1>5. Known(o)'
  <2>1. clock \in Nat /\ e \in DupEntry \cup {NoEntry}
    BY TimeFacts DEF TypeOK, Entry
  <2>2. AfterMessage(e, r) \in DupEntry
    BY <1>3, <2>1, EntryTypes, NewEntryTypes DEF AfterMessage
  <2>3. AfterMessage(e, r).seqnr # -1
    BY <2>2 DEF DupEntry, SeqNumbers
  <2> QED BY <1>2, <2>3 DEF Known, NoEntry
<1>6. CASE ~Known(o)
  <2>1. Entry(o)'.seqnr = r /\ accepted'[o] = {n} /\ creator'[o] = n
    BY <1>2, <1>6 DEF AfterMessage, Known, olsr_create_duplicate_entry
  <2> QED BY <1>1, <1>2, <1>4, <1>5, <2>1 DEF WindowOf, Behind
<1>7. CASE Known(o)
  <2>1. e \in DupEntry /\ e.seqnr \in SeqNumbers /\ e # NoEntry
    BY <1>7 DEF TypeOK, Known, Entry, DupEntry
  <2>2. Entry(o)' = Updated(e, r)
    BY <1>2, <2>1 DEF AfterMessage
  <2>3. diff \in Int
    BY <1>3, <2>1 DEF olsr_seqno_diff, SeqNumbers
  <2>4. CASE StartsOver(e, r)
    <3>1. Entry(o)'.seqnr = r /\ Entry(o)'.array = {0} /\ accepted'[o] = {n}
      BY <1>2, <2>2, <2>4 DEF Updated
    <3> QED BY <1>1, <1>2, <1>4, <1>5, <3>1 DEF WindowOf, Behind
  <2>5. CASE ~StartsOver(e, r) /\ TooLow(e, r)
    <3>1. Verdict(e, r)
      BY <2>1, <2>5 DEF Verdict
    <3>2. Entry(o)'.seqnr = e.seqnr /\ Entry(o)'.array = e.array
      BY <2>1, <2>2, <2>5 DEF Updated, DupEntry
    <3>3. accepted'[o] = accepted[o] /\ creator'[o] = creator[o]
      BY <1>2, <1>7, <2>5, <3>1
    <3> QED BY <1>2, <1>5, <3>2, <3>3 DEF WindowOf, Behind, WindowInv
  <2>6. CASE ~TooLow(e, r) /\ diff <= 0
    <3>1. ~StartsOver(e, r)
      BY <2>6 DEF StartsOver
    <3>2. Entry(o)'.seqnr = e.seqnr /\ Entry(o)'.array = e.array \cup {-diff}
      BY <2>1, <2>2, <2>6, <3>1 DEF Updated, DupEntry
    <3>3. Behind(o, n) = -diff /\ Behind(o, n) \in 0 .. WINDOW - 1
      <4> DEFINE d == Behind(o, n)
      <4>1. /\ d \in 0 .. SEQ_MOD - 1
            /\ d < HALF => diff = -d
            /\ d > HALF => diff = SEQ_MOD - d
            /\ d = HALF => diff \in {HALF, -HALF}
        BY <1>1, <2>1, DiffValue DEF Behind
      <4>2. diff >= -(WINDOW - 1)
        BY <2>3, <2>6 DEF TooLow
      <4>3. diff <= 0
        BY <2>6
      <4> HIDE DEF d, diff
      <4>4. ~(d > HALF) /\ ~(d = HALF)
        BY ONLY <2>3, <4>1, <4>2, <4>3, ConstFacts
      <4>5. d = -diff /\ d \in 0 .. WINDOW - 1
        BY ONLY <2>3, <4>1, <4>2, <4>3, <4>4, ConstFacts
      <4> QED BY <4>5 DEF d
    <3>4. accepted'[o] \in SUBSET (accepted[o] \cup {n})
      BY <1>2, <1>7, <3>1
    <3>5. ASSUME NEW m \in accepted'[o]
          PROVE  /\ sent[o] - IN_FLIGHT < m /\ m <= sent[o]
                 /\ Behind(o, m) <= sent[o] + WINDOW - 1 - m
                 /\ m # creator'[o] /\ Behind(o, m) < WINDOW
                       => Behind(o, m) \in e.array \cup {-diff}
      <4>1. CASE m = n
        BY <1>1, <3>3, <4>1
      <4>2. CASE m # n
        <5>1. m \in accepted[o]
          BY <3>4, <4>2
        <5>2. m # creator'[o] => m # creator[o] \/ m = n
          BY <1>2, <1>7, <3>1
        <5> QED BY <4>2, <5>1, <5>2 DEF WindowInv, WindowOf
      <4> QED BY <4>1, <4>2
    <3>6. \A m : Behind(o, m)' = (Entry(o)'.seqnr - m) % SEQ_MOD
      BY DEF Behind
    <3> QED BY <1>2, <1>5, <3>2, <3>5 DEF WindowOf, Behind
  <2>7. CASE ~TooLow(e, r) /\ ~(diff <= 0)
    <3>1. ~StartsOver(e, r) /\ ~Verdict(e, r)
      BY <2>7 DEF StartsOver, Verdict
    <3>2. Entry(o)'.seqnr = r /\ Entry(o)'.array = ShiftLeft(e.array, diff) \cup {0}
      BY <2>2, <2>7, <3>1 DEF Updated
    <3>3. accepted'[o] = accepted[o] \cup {n}
      BY <1>2, <1>7, <3>1
    <3>4. ASSUME NEW m \in accepted'[o]
          PROVE  /\ sent[o] - IN_FLIGHT < m /\ m <= sent[o]
                 /\ (r - m) % SEQ_MOD <= sent[o] + WINDOW - 1 - m
                 /\ m # creator'[o] /\ (r - m) % SEQ_MOD < WINDOW
                       => (r - m) % SEQ_MOD \in ShiftLeft(e.array, diff) \cup {0}
      <4>1. CASE m = n
        BY <1>1, <1>4, <4>1
      <4>2. CASE m # n
        <5>1. m \in accepted[o] /\ m \in Nat
          BY <1>1, <3>3, <4>2
        <5> DEFINE dm == Behind(o, m)
        <5>2. /\ sent[o] - IN_FLIGHT < m /\ m <= sent[o]
              /\ dm <= sent[o] + WINDOW - 1 - m
              /\ m # creator[o] /\ dm < WINDOW => dm \in e.array
          BY <5>1 DEF WindowInv, WindowOf
        <5>3. dm \in 0 .. SEQ_MOD - 1
          BY <2>1, <5>1, ModRange DEF Behind, SeqNumbers
        <5>4. m + dm - n < HALF /\ n - (m + dm) < HALF
          <6> HIDE DEF dm
          <6> QED BY <1>1, <5>1, <5>2, <5>3
        <5>5. diff > 0
          BY <2>3, <2>7
        <5>6. /\ diff = n - (m + dm)
              /\ 0 <= n - m /\ n - m < SEQ_MOD => (r - m) % SEQ_MOD = n - m
          BY <1>1, <2>1, <5>1, <5>4, <5>5, MoveUp DEF Behind
        <5> HIDE DEF dm, diff
        <5>7. (r - m) % SEQ_MOD = dm + diff /\ dm + diff = n - m
          BY <1>1, <2>3, <5>1, <5>2, <5>3, <5>5, <5>6
        <5>8. dm < WINDOW /\ dm + diff < WINDOW /\ dm \in e.array => dm + diff \in ShiftLeft(e.array, diff)
          BY <2>3, <5>3, <5>5 DEF ShiftLeft
        <5>9. m # creator'[o] => m # creator[o]
          BY <1>2, <1>7, <3>1, <4>2
        <5>10. dm + diff < WINDOW => dm < WINDOW
          BY <2>3, <5>3, <5>5
        <5> QED BY <1>1, <5>1, <5>2, <5>7, <5>8, <5>9, <5>10
      <4> QED BY <4>1, <4>2
    <3> QED BY <1>2, <1>5, <3>2, <3>4 DEF WindowOf, Behind
  <2> QED BY <2>4, <2>5, <2>6, <2>7
<1> QED BY <1>6, <1>7

\* An originator that a step leaves alone keeps its window.
LEMMA UntouchedWindow ==
    ASSUME NEW o, WindowOf(o), duplicate_set'[o] = duplicate_set[o], sent'[o] = sent[o],
           accepted'[o] = accepted[o], creator'[o] = creator[o]
    PROVE  WindowOf(o)'
BY DEF WindowOf, Behind, Known, Entry

\* AcceptedOnce: no message accepted since its entry (re)started is accepted
\* again by olsr_message_is_duplicate, for any window, range of sequence
\* numbers and depth of reordering with WINDOW + IN_FLIGHT <= SEQ_MOD / 2.
THEOREM AcceptsOnce == Spec => []AcceptedOnce
<1>1. Init => WindowInv
  BY DEF Init, WindowInv, WindowOf
<1>2. TypeOK /\ WindowInv /\ [Next]_vars => WindowInv'
  <2> SUFFICES ASSUME TypeOK, WindowInv, [Next]_vars, NEW p \in Originators
               PROVE  WindowOf(p)'
    BY DEF WindowInv
  <2>0. WindowOf(p)
    BY DEF WindowInv
  <2>1. ASSUME NEW o \in Originators, Send(o) PROVE WindowOf(p)'
    <3>1. CASE p # o
      BY <2>0, <2>1, <3>1, UntouchedWindow DEF Send, codeVars, TypeOK
    <3>2. CASE p = o
      <4>1. /\ duplicate_set' = duplicate_set /\ creator' = creator
            /\ sent'[p] = sent[p] + 1
            /\ accepted'[p] = accepted[p] \cap (sent[p] + 2 - IN_FLIGHT .. MAX_SENT)
        BY <2>1, <3>2 DEF Send, codeVars, TypeOK
      <4>2. sent[p] \in Nat /\ accepted[p] \in SUBSET Nat /\ duplicate_set[p] \in DupEntry \cup {NoEntry}
        BY DEF TypeOK
      <4>3. Known(p)' = Known(p) /\ Entry(p)' = Entry(p)
        BY <4>1 DEF Known, Entry
      <4>4. ASSUME NEW m \in accepted'[p]
            PROVE  /\ sent'[p] - IN_FLIGHT < m /\ m <= sent'[p]
                   /\ Behind(p, m) <= sent'[p] + WINDOW - 1 - m
                   /\ m # creator'[p] /\ Behind(p, m) < WINDOW => Behind(p, m) \in Entry(p).array
        <5>1. m \in accepted[p] /\ m \in Nat /\ m >= sent[p] + 2 - IN_FLIGHT
          BY <4>1, <4>2
        <5>2. Behind(p, m) \in Int
          <6>1. Entry(p).seqnr \in Int
            BY <2>0, <4>2, <5>1 DEF WindowOf, Known, Entry, DupEntry, SeqNumbers
          <6>2. Entry(p).seqnr - m \in Int
            BY <5>1, <6>1
          <6> QED BY <6>2, ModRange DEF Behind
        <5> QED BY <2>0, <4>1, <4>2, <5>1, <5>2 DEF WindowOf
      <4> QED BY <2>0, <4>1, <4>3, <4>4 DEF WindowOf, Behind
    <3> QED BY <3>1, <3>2
  <2>2. ASSUME NEW o \in Originators, Reboot(o) PROVE WindowOf(p)'
    <3>1. CASE p # o
      BY <2>0, <2>2, <3>1, UntouchedWindow DEF Reboot, codeVars, TypeOK
    <3>2. CASE p = o
      BY <2>2, <3>2 DEF Reboot, WindowOf, TypeOK
    <3> QED BY <3>1, <3>2
  <2>3. ASSUME NEW o \in Originators, NEW n \in InFlight(o), Deliver(o, n) PROVE WindowOf(p)'
    <3>1. CASE p # o
      BY <2>0, <2>3, <3>1, UntouchedWindow DEF Deliver, envVars, TypeOK
    <3>2. CASE p = o
      BY <2>3, <3>2, DeliverKeepsWindow
    <3> QED BY <3>1, <3>2
  <2>4. ASSUME NEW o \in Originators, olsr_cleanup_duplicates(o) PROVE WindowOf(p)'
    <3>1. CASE p # o
      BY <2>0, <2>4, <3>1, UntouchedWindow DEF olsr_cleanup_duplicates, envVars, TypeOK
    <3>2. CASE p = o
      <4>1. /\ Entry(p) \in DupEntry
            /\ Entry(p)' = [Entry(p) EXCEPT !.too_low_counter = DUP_MAX_TOO_LOW - 2]
        BY <2>4, <3>2 DEF olsr_cleanup_duplicates, Known, Entry, TypeOK
      <4>2. Entry(p)'.seqnr = Entry(p).seqnr /\ Entry(p)'.array = Entry(p).array
        BY <4>1 DEF DupEntry
      <4>3. Known(p)'
        BY <4>1, <4>2 DEF Known, NoEntry, DupEntry, SeqNumbers
      <4> QED BY <2>0, <2>4, <4>2, <4>3 DEF olsr_cleanup_duplicates, envVars, WindowOf, Behind
    <3> QED BY <3>1, <3>2
  <2>5. ASSUME olsr_cleanup_duplicate_entry PROVE WindowOf(p)'
    <3>1. CASE Known(p) /\ TIMED_OUT(Entry(p).valid_until)
      <4>1. accepted'[p] = {}
        BY <2>5, <3>1 DEF olsr_cleanup_duplicate_entry
      <4> QED BY <4>1 DEF WindowOf
    <3>2. CASE ~(Known(p) /\ TIMED_OUT(Entry(p).valid_until))
      BY <2>0, <2>5, <3>2, UntouchedWindow DEF olsr_cleanup_duplicate_entry, envVars, Entry
    <3> QED BY <3>1, <3>2
  <2>6. ASSUME Tick PROVE WindowOf(p)'
    BY <2>0, <2>6, UntouchedWindow DEF Tick, envVars, historyVars
  <2>7. ASSUME UNCHANGED vars PROVE WindowOf(p)'
    BY <2>0, <2>7, UntouchedWindow DEF vars
  <2> QED BY <2>1, <2>2, <2>3, <2>4, <2>5, <2>6, <2>7 DEF Next
<1> QED BY <1>1, <1>2, TypeCorrect, WindowImpliesOnce, PTL DEF Spec

(* Originators that have not rebooted. *)

\* The newest message delivered since the entry (re)started is one of the
\* originator's present life, and not far behind.
LastOf(o) ==
    last[o] # -1 =>
        /\ Known(o)
        /\ booted[o] <= last[o] /\ last[o] <= sent[o]
        /\ sent[o] - last[o] < HALF

\* Without a reboot the top of the window is that message, and the bits in
\* the window are those of accepted messages.
FreshOf(o) ==
    Known(o) /\ ~rebooted[o] =>
        /\ last[o] # -1
        /\ Entry(o).seqnr = last[o] % SEQ_MOD
        /\ \A k \in Entry(o).array : last[o] - k \in InFlight(o) => last[o] - k \in accepted[o]

FreshInv == \A o \in Originators : LastOf(o) /\ FreshOf(o)

\* Behind a top that is the remainder of a true number, the code computes the
\* true distance of every message in flight.
LEMMA TrueDistance ==
    ASSUME NEW l \in Nat, NEW n \in Nat, l - n < HALF, n - l < HALF
    PROVE  olsr_seqno_diff(n % SEQ_MOD, l % SEQ_MOD) = n - l
<1> DEFINE s == l % SEQ_MOD
           d == (s - n) % SEQ_MOD
<1>0. SEQ_MOD \in Nat /\ SEQ_MOD > 0
  OBVIOUS
<1>1. s \in SeqNumbers
  BY <1>0, ModRange DEF SeqNumbers
<1>2. d = (l - n) % SEQ_MOD
  <2>1. l \in Int /\ n \in Int
    OBVIOUS
  <2>2. ((l % SEQ_MOD) - n) % SEQ_MOD = (l - n) % SEQ_MOD
    BY <1>0, <2>1, ModMinus
  <2> QED BY <2>2
<1>3. /\ d < HALF => olsr_seqno_diff(n % SEQ_MOD, s) = -d
      /\ d > HALF => olsr_seqno_diff(n % SEQ_MOD, s) = SEQ_MOD - d
  <2>1. n \in Int
    OBVIOUS
  <2> HIDE DEF s
  <2> QED BY <1>1, <2>1, DiffValue
<1>4. CASE l >= n
  <2>1. l - n \in 0 .. SEQ_MOD - 1
    BY <1>4
  <2>2. d = l - n
    BY <1>0, <1>2, <2>1, ModSmall
  <2> QED BY <1>3, <2>1, <2>2
<1>5. CASE l < n
  <2>1. 1 * SEQ_MOD + (l - n) \in 0 .. SEQ_MOD - 1
    BY <1>5
  <2>2. (1 * SEQ_MOD + (l - n)) % SEQ_MOD = (l - n) % SEQ_MOD
    BY <1>0, ModShift
  <2>3. d = 1 * SEQ_MOD + (l - n)
    BY <1>0, <1>2, <2>1, <2>2, ModSmall
  <2> QED BY <1>3, <1>5, <2>1, <2>3
<1> QED BY <1>4, <1>5

\* No message in flight is too low for an originator that has not rebooted.
LEMMA FreshDistance ==
    ASSUME TypeOK, NEW o \in Originators, LastOf(o), FreshOf(o), Known(o), ~rebooted[o],
           NEW n \in InFlight(o)
    PROVE  /\ n \in Nat /\ last[o] \in Nat /\ sent[o] \in Nat
           /\ sent[o] - IN_FLIGHT < n /\ n <= sent[o] /\ last[o] <= sent[o]
           /\ Entry(o) \in DupEntry
           /\ olsr_seqno_diff(n % SEQ_MOD, Entry(o).seqnr) = n - last[o]
           /\ last[o] - n < WINDOW
           /\ ~TooLow(Entry(o), n % SEQ_MOD)
<1>1. /\ n \in Nat /\ last[o] \in Nat /\ sent[o] \in Nat
      /\ sent[o] - IN_FLIGHT < n /\ n <= sent[o]
  BY DEF InFlight, TypeOK, FreshOf
<1>2. /\ last[o] <= sent[o] /\ sent[o] - last[o] < HALF
      /\ Entry(o).seqnr = last[o] % SEQ_MOD
      /\ Entry(o) \in DupEntry
  BY DEF LastOf, FreshOf, Known, Entry, TypeOK
<1>3. last[o] - n < WINDOW /\ last[o] - n < HALF /\ n - last[o] < HALF
  BY <1>1, <1>2, DelayAssumption
<1>4. olsr_seqno_diff(n % SEQ_MOD, Entry(o).seqnr) = n - last[o]
  BY <1>1, <1>2, <1>3, TrueDistance
<1>5. ~TooLow(Entry(o), n % SEQ_MOD)
  BY <1>1, <1>3, <1>4 DEF TooLow
<1> QED BY <1>1, <1>2, <1>3, <1>4, <1>5

\* What the window of such an originator says of its messages in flight.
LEMMA FreshVerdicts == TypeOK /\ FreshInv => NoNewMessageBlocked /\ StartsOverOnlyAfterReboot
<1> SUFFICES ASSUME TypeOK, FreshInv, NEW o \in Originators, Known(o), ~rebooted[o],
                    NEW n \in InFlight(o)
             PROVE  /\ ~StartsOver(Entry(o), n % SEQ_MOD)
                    /\ n \notin accepted[o] => ~Verdict(Entry(o), n % SEQ_MOD)
  BY DEF NoNewMessageBlocked, StartsOverOnlyAfterReboot
<1>1. LastOf(o) /\ FreshOf(o)
  BY DEF FreshInv
<1>2. /\ n \in Nat /\ last[o] \in Nat
      /\ olsr_seqno_diff(n % SEQ_MOD, Entry(o).seqnr) = n - last[o]
      /\ ~TooLow(Entry(o), n % SEQ_MOD)
  BY <1>1, FreshDistance
<1>3. ~StartsOver(Entry(o), n % SEQ_MOD)
  BY <1>2 DEF StartsOver
<1>4. ASSUME Verdict(Entry(o), n % SEQ_MOD) PROVE n \in accepted[o]
  <2>1. -(n - last[o]) \in Entry(o).array
    BY <1>2, <1>4 DEF Verdict
  <2>2. last[o] - (-(n - last[o])) = n
    BY <1>2
  <2> QED BY <1>1, <2>1, <2>2 DEF FreshOf
<1> QED BY <1>3, <1>4

\* An originator that a step leaves alone stays as fresh as it is.
LEMMA UntouchedFresh ==
    ASSUME NEW o, LastOf(o), FreshOf(o), duplicate_set'[o] = duplicate_set[o],
           sent'[o] = sent[o], booted'[o] = booted[o], accepted'[o] = accepted[o],
           rebooted'[o] = rebooted[o], last'[o] = last[o]
    PROVE  LastOf(o)' /\ FreshOf(o)'
BY DEF LastOf, FreshOf, Known, Entry, InFlight

\* The bits stay those of accepted messages when one is delivered.
LEMMA DeliverKeepsFresh ==
    ASSUME TypeOK, NEW o \in Originators, LastOf(o), FreshOf(o),
           NEW n \in InFlight(o), Deliver(o, n)
    PROVE  LastOf(o)' /\ FreshOf(o)'
<1> DEFINE e == Entry(o)
           r == n % SEQ_MOD
           diff == olsr_seqno_diff(r, e.seqnr)
           starting == ~Known(o) \/ StartsOver(e, r)
<1>1. /\ n \in Nat /\ sent[o] \in Nat /\ booted[o] \in Nat
      /\ sent[o] - IN_FLIGHT < n /\ n <= sent[o] /\ booted[o] <= n
      /\ last[o] \in Nat \cup {-1}
  BY DEF InFlight, TypeOK
<1>2. /\ Entry(o)' = AfterMessage(e, r) /\ sent'[o] = sent[o] /\ booted'[o] = booted[o]
      /\ accepted'[o] = IF starting THEN {n}
                        ELSE IF Verdict(e, r) THEN accepted[o] ELSE accepted[o] \cup {n}
      /\ last'[o] = IF n > last[o] \/ starting THEN n ELSE last[o]
  BY DEF Deliver, TypeOK, Entry, envVars
<1>3. rebooted'[o] <=> rebooted[o] /\ ~starting
  BY Zenon DEF Deliver, TypeOK, Entry
<1>4. InFlight(o)' = InFlight(o)
  BY <1>2 DEF InFlight
<1>5. r \in SeqNumbers
  BY <1>1, ModRange DEF SeqNumbers
<1>6. Known(o)'
  <2>1. clock \in Nat /\ e \in DupEntry \cup {NoEntry}
    BY TimeFacts DEF TypeOK, Entry
  <2>2. AfterMessage(e, r) \in DupEntry
    BY <1>5, <2>1, EntryTypes, NewEntryTypes DEF AfterMessage
  <2>3. AfterMessage(e, r).seqnr # -1
    BY <2>2 DEF DupEntry, SeqNumbers
  <2> QED BY <1>2, <2>3 DEF Known, NoEntry
<1>7. LastOf(o)'
  <2>1. sent[o] - n < HALF
    BY <1>1
  <2> QED BY <1>1, <1>2, <1>6, <2>1 DEF LastOf
<1>8. CASE starting
  <2>1. last'[o] = n /\ accepted'[o] = {n}
    BY <1>2, <1>8
  <2>2. Entry(o)'.seqnr = r /\ Entry(o)'.array \in {{}, {0}}
    BY <1>2, <1>8 DEF AfterMessage, Updated, olsr_create_duplicate_entry, Known
  <2>3. ASSUME NEW k \in Entry(o)'.array PROVE last'[o] - k \in accepted'[o]
    BY <1>1, <2>1, <2>2
  <2> QED BY <1>1, <1>7, <2>1, <2>2, <2>3 DEF FreshOf
<1>9. CASE ~starting /\ rebooted[o]
  BY <1>3, <1>7, <1>9 DEF FreshOf
<1>10. CASE ~starting /\ ~rebooted[o]
  <2>1. Known(o) /\ ~StartsOver(e, r) /\ e # NoEntry
    BY <1>10 DEF Known
  <2>2. /\ last[o] \in Nat /\ e \in DupEntry /\ last[o] <= sent[o]
        /\ diff = n - last[o] /\ last[o] - n < WINDOW /\ ~TooLow(e, r)
    BY <1>10, <2>1, FreshDistance
  <2>3. \A k \in e.array : last[o] - k \in InFlight(o) => last[o] - k \in accepted[o]
    BY <1>10, <2>1 DEF FreshOf
  <2>4. e.seqnr = last[o] % SEQ_MOD /\ e.array \in SUBSET (0 .. WINDOW - 1)
    BY <1>10, <2>1, <2>2 DEF FreshOf, DupEntry
  <2>5. Entry(o)' = Updated(e, r)
    BY <1>2, <2>1 DEF AfterMessage
  <2>6. CASE n <= last[o]
    <3>1. Entry(o)'.seqnr = e.seqnr /\ Entry(o)'.array = e.array \cup {last[o] - n}
      <4>1. diff <= 0 /\ -diff = last[o] - n
        BY <1>1, <2>2, <2>6
      <4> HIDE DEF diff
      <4>2. Updated(e, r) = [e EXCEPT !.too_low_counter = 0, !.array = @ \cup {-diff},
                                      !.valid_until = LaterTimestamp(e)]
        BY <2>1, <2>2, <4>1 DEF Updated, diff
      <4> QED BY <2>2, <2>5, <4>1, <4>2 DEF DupEntry
    <3>2. last'[o] = last[o]
      BY <1>1, <1>2, <1>10, <2>2, <2>6
    <3>3. accepted[o] \subseteq accepted'[o]
      BY <1>2, <1>10
    <3>4. n \in accepted'[o]
      <4>1. CASE Verdict(e, r)
        <5>1. last[o] - n \in e.array
          BY <1>1, <2>2, <4>1 DEF Verdict
        <5>2. last[o] - (last[o] - n) = n
          BY <1>1, <2>2
        <5> QED BY <2>3, <3>3, <5>1, <5>2
      <4>2. CASE ~Verdict(e, r)
        BY <1>2, <1>10, <4>2
      <4> QED BY <4>1, <4>2
    <3>5. last[o] - (last[o] - n) = n
      BY <1>1, <2>2
    <3>6. ASSUME NEW k \in Entry(o)'.array, last'[o] - k \in InFlight(o)'
          PROVE  last'[o] - k \in accepted'[o]
      BY <1>4, <2>3, <3>1, <3>2, <3>3, <3>4, <3>5, <3>6
    <3> QED BY <2>2, <2>4, <1>7, <3>1, <3>2, <3>6 DEF FreshOf
  <2>7. CASE n > last[o]
    <3>0. diff > 0 /\ diff \in Int
      BY <1>1, <2>2, <2>7
    <3>1. Entry(o)'.seqnr = r /\ Entry(o)'.array = ShiftLeft(e.array, diff) \cup {0}
      BY <2>1, <2>2, <2>5, <3>0 DEF Updated
    <3>2. last'[o] = n
      BY <1>2, <2>7
    <3>3. accepted'[o] = accepted[o] \cup {n}
      <4>1. ~Verdict(e, r)
        BY <2>2, <3>0 DEF Verdict
      <4> QED BY <1>2, <1>10, <4>1
    <3>4. ASSUME NEW k \in Entry(o)'.array, last'[o] - k \in InFlight(o)'
          PROVE  last'[o] - k \in accepted'[o]
      <4>1. CASE k = 0
        BY <1>1, <3>2, <3>3, <4>1
      <4>2. CASE k # 0
        <5>1. PICK j \in e.array : k = j + diff
          BY <3>1, <4>2 DEF ShiftLeft
        <5>2. j \in Int
          BY <2>4
        <5>3. n - k = last[o] - j
          BY <1>1, <2>2, <5>1, <5>2
        <5> QED BY <1>4, <2>3, <3>2, <3>3, <3>4, <5>3
      <4> QED BY <4>1, <4>2
    <3> QED BY <1>1, <1>7, <3>1, <3>2, <3>4 DEF FreshOf
  <2> QED BY <1>1, <2>2, <2>6, <2>7
<1> QED BY <1>7, <1>8, <1>9, <1>10

\* Every step keeps the originators that have not rebooted in order.
LEMMA FreshStep == TypeOK /\ FreshInv /\ [Next]_vars => FreshInv'
<1> SUFFICES ASSUME TypeOK, FreshInv, [Next]_vars, NEW p \in Originators
             PROVE  LastOf(p)' /\ FreshOf(p)'
  BY DEF FreshInv
<1>0. LastOf(p) /\ FreshOf(p)
  BY DEF FreshInv
<1>1. ASSUME NEW o \in Originators, Send(o) PROVE LastOf(p)' /\ FreshOf(p)'
  <2>1. CASE p # o
    BY <1>0, <1>1, <2>1, UntouchedFresh DEF Send, codeVars, TypeOK
  <2>2. CASE p = o
    <3>1. /\ duplicate_set' = duplicate_set /\ last' = last /\ booted' = booted
          /\ rebooted' = rebooted /\ sent[p] < MAX_SENT
          /\ sent'[p] = sent[p] + 1
          /\ accepted'[p] = accepted[p] \cap (sent[p] + 2 - IN_FLIGHT .. MAX_SENT)
          /\ Known(p) => sent[p] - last[p] < MAX_LOST \/ sent[p] - booted[p] < MAX_LOST
      BY <1>1, <2>2 DEF Send, codeVars, TypeOK
    <3>2. /\ sent[p] \in Nat /\ booted[p] \in Nat /\ last[p] \in Nat \cup {-1}
          /\ MAX_SENT \in Nat /\ MAX_LOST \in Nat
      BY DuplicateSetAssumption DEF TypeOK
    <3>3. Known(p)' = Known(p) /\ Entry(p)' = Entry(p)
      BY <3>1 DEF Known, Entry
    <3>4. LastOf(p)'
      BY <1>0, <3>1, <3>2, <3>3, DelayAssumption DEF LastOf
    <3>5. ASSUME Known(p), ~rebooted[p],
                 NEW k \in Entry(p).array, last[p] - k \in InFlight(p)'
          PROVE  last[p] - k \in accepted'[p]
      <4>1. last[p] \in Nat /\ last[p] <= sent[p]
        BY <1>0, <3>2, <3>5 DEF LastOf, FreshOf
      <4>2. k \in 0 .. WINDOW - 1
        BY <3>5 DEF Known, Entry, TypeOK, DupEntry
      <4>3. /\ booted[p] <= last[p] - k /\ last[p] - k <= sent[p]
            /\ last[p] - k > sent[p] + 1 - IN_FLIGHT /\ last[p] - k \in Int
        BY <3>1, <3>2, <3>5, <4>1, <4>2 DEF InFlight
      <4>4. last[p] - k \in InFlight(p)
        BY <3>2, <4>3 DEF InFlight
      <4>5. last[p] - k \in accepted[p]
        BY <1>0, <3>5, <4>4 DEF FreshOf
      <4>6. last[p] - k \in sent[p] + 2 - IN_FLIGHT .. MAX_SENT
        BY <3>1, <3>2, <4>3
      <4> QED BY <3>1, <4>5, <4>6
    <3> QED BY <1>0, <3>1, <3>3, <3>4, <3>5 DEF FreshOf
  <2> QED BY <2>1, <2>2
<1>2. ASSUME NEW o \in Originators, Reboot(o) PROVE LastOf(p)' /\ FreshOf(p)'
  <2>1. CASE p # o
    BY <1>0, <1>2, <2>1, UntouchedFresh DEF Reboot, codeVars, TypeOK
  <2>2. CASE p = o
    <3>1. last'[p] = -1 /\ duplicate_set' = duplicate_set
      BY <1>2, <2>2 DEF Reboot, codeVars, TypeOK
    <3>2. rebooted'[p] = Known(p)
      BY <1>2, <2>2, Zenon DEF Reboot, TypeOK
    <3>3. Known(p)' <=> Known(p)
      BY <3>1 DEF Known, Entry
    <3> QED BY <3>1, <3>2, <3>3 DEF LastOf, FreshOf
  <2> QED BY <2>1, <2>2
<1>3. ASSUME NEW o \in Originators, NEW n \in InFlight(o), Deliver(o, n)
      PROVE  LastOf(p)' /\ FreshOf(p)'
  <2>1. CASE p # o
    BY <1>0, <1>3, <2>1, UntouchedFresh DEF Deliver, envVars, TypeOK
  <2>2. CASE p = o
    BY <1>0, <1>3, <2>2, DeliverKeepsFresh
  <2> QED BY <2>1, <2>2
<1>4. ASSUME NEW o \in Originators, olsr_cleanup_duplicates(o) PROVE LastOf(p)' /\ FreshOf(p)'
  <2>1. CASE p # o
    BY <1>0, <1>4, <2>1, UntouchedFresh DEF olsr_cleanup_duplicates, envVars, TypeOK
  <2>2. CASE p = o
    <3>1. /\ Entry(p) \in DupEntry /\ Known(p)
          /\ Entry(p)' = [Entry(p) EXCEPT !.too_low_counter = DUP_MAX_TOO_LOW - 2]
      BY <1>4, <2>2 DEF olsr_cleanup_duplicates, Known, Entry, TypeOK
    <3>2. Entry(p)'.seqnr = Entry(p).seqnr /\ Entry(p)'.array = Entry(p).array
      BY <3>1 DEF DupEntry
    <3>3. Known(p)'
      BY <3>1, <3>2 DEF Known, NoEntry, DupEntry, SeqNumbers
    <3> QED BY <1>0, <1>4, <3>1, <3>2, <3>3
            DEF olsr_cleanup_duplicates, envVars, LastOf, FreshOf, InFlight
  <2> QED BY <2>1, <2>2
<1>5. ASSUME olsr_cleanup_duplicate_entry PROVE LastOf(p)' /\ FreshOf(p)'
  <2>1. CASE Known(p) /\ TIMED_OUT(Entry(p).valid_until)
    <3>1. last'[p] = -1 /\ duplicate_set'[p] = NoEntry
      BY <1>5, <2>1 DEF olsr_cleanup_duplicate_entry
    <3> QED BY <3>1 DEF LastOf, FreshOf, Known, Entry
  <2>2. CASE ~(Known(p) /\ TIMED_OUT(Entry(p).valid_until))
    <3>1. /\ duplicate_set'[p] = duplicate_set[p] /\ sent' = sent /\ booted' = booted
          /\ accepted'[p] = accepted[p] /\ last'[p] = last[p]
      BY <1>5, <2>2 DEF olsr_cleanup_duplicate_entry, envVars, Entry
    <3>2. rebooted'[p] = rebooted[p]
      BY <1>5, <2>2, Zenon DEF olsr_cleanup_duplicate_entry, TypeOK
    <3> QED BY <1>0, <3>1, <3>2, UntouchedFresh
  <2> QED BY <2>1, <2>2
<1>6. ASSUME Tick PROVE LastOf(p)' /\ FreshOf(p)'
  BY <1>0, <1>6, UntouchedFresh DEF Tick, envVars, historyVars
<1>7. ASSUME UNCHANGED vars PROVE LastOf(p)' /\ FreshOf(p)'
  BY <1>0, <1>7, UntouchedFresh DEF vars
<1> QED BY <1>1, <1>2, <1>3, <1>4, <1>5, <1>6, <1>7 DEF Next

\* FreshInv holds in every reachable state.
LEMMA AlwaysFresh == Spec => []FreshInv
<1>1. Init => FreshInv
  BY DEF Init, FreshInv, LastOf, FreshOf, Known, Entry
<1> QED BY <1>1, FreshStep, TypeCorrect, PTL DEF Spec

\* NoNewMessageBlocked: olsr_message_is_duplicate blocks no message of a living
\* originator that was not accepted before, for any window that covers the
\* reordering of the network.
THEOREM NothingNewBlocked == Spec => []NoNewMessageBlocked
BY AlwaysFresh, FreshVerdicts, TypeCorrect, PTL

\* StartsOverOnlyAfterReboot: the counter of too low numbers makes
\* olsr_message_is_duplicate start over for rebooted originators only.
THEOREM RestartMeansReboot == Spec => []StartsOverOnlyAfterReboot
BY AlwaysFresh, FreshVerdicts, TypeCorrect, PTL

(* Originators that have rebooted. *)

\* While messages are blocked in order, the newest one is behind the top: it is
\* counted as too low, or comes closer to the top with each one.
BlockedOf(o) ==
    blocked[o] > 0 =>
        /\ last[o] # -1
        /\ Behind(o, last[o]) <= HALF
        /\ blocked[o] <= IF Behind(o, last[o]) < WINDOW
                         THEN DUP_MAX_TOO_LOW + WINDOW - Behind(o, last[o])
                         ELSE Entry(o).too_low_counter

BlockedInv == \A o \in Originators : BlockedOf(o)

\* A later message is closer to the top by as much as it is later.
LEMMA ComesCloser ==
    ASSUME NEW s \in Int, NEW l \in Int, NEW n \in Int, l < n, n - l < HALF,
           NEW dl, dl = (s - l) % SEQ_MOD, dl <= HALF,
           NEW dn, dn = (s - n) % SEQ_MOD, dn <= HALF
    PROVE  dn \in Nat /\ dn = dl - (n - l)
<1>0. SEQ_MOD \in Nat /\ SEQ_MOD > 0 /\ s - l \in Int /\ s - n \in Int
  OBVIOUS
<1>1. dl \in 0 .. SEQ_MOD - 1 /\ dn \in 0 .. SEQ_MOD - 1
  BY <1>0, ModRange
<1>2. PICK q \in Int : s - l = q * SEQ_MOD + dl
  BY <1>0, ModDecompose
<1>3. PICK p \in Int : s - n = p * SEQ_MOD + dn
  BY <1>0, ModDecompose
<1> DEFINE k == q - p
<1>4. k \in Int /\ k * SEQ_MOD = dn - dl + (n - l)
  BY <1>0, <1>1, <1>2, <1>3
<1> HIDE DEF k
<1>5. ~(k >= 1)
  <2>1. k >= 1 => k * SEQ_MOD >= SEQ_MOD
    BY <1>4
  <2> QED BY <1>1, <1>4, <2>1
<1>6. ~(k <= -1)
  <2>1. k <= -1 => k * SEQ_MOD <= -SEQ_MOD
    BY <1>4
  <2> QED BY <1>1, <1>4, <2>1
<1>7. k = 0
  BY <1>4, <1>5, <1>6
<1> QED BY <1>1, <1>4, <1>7

\* One more message is blocked only on the way up to the top of the window.
LEMMA DeliverKeepsBlocked ==
    ASSUME TypeOK, NEW o \in Originators, LastOf(o), BlockedOf(o),
           NEW n \in InFlight(o), Deliver(o, n)
    PROVE  BlockedOf(o)'
<1> DEFINE e == Entry(o)
           r == n % SEQ_MOD
           diff == olsr_seqno_diff(r, e.seqnr)
           dn == Behind(o, n)
<1> SUFFICES ASSUME Verdict(e, r), n > last[o] PROVE BlockedOf(o)'
  <2>1. blocked'[o] = IF Verdict(e, r) /\ n > last[o] THEN blocked[o] + 1 ELSE 0
    BY DEF Deliver, TypeOK
  <2> QED BY <2>1 DEF BlockedOf
<1>1. /\ n \in Nat /\ sent[o] \in Nat /\ n <= sent[o] /\ last[o] \in Nat \cup {-1}
      /\ blocked[o] \in Nat
  BY DEF InFlight, TypeOK
<1>2. e # NoEntry /\ Known(o) /\ ~StartsOver(e, r)
  BY DEF Verdict, Known, StartsOver
<1>3. e \in DupEntry /\ e.seqnr \in SeqNumbers /\ e.too_low_counter \in 0 .. DUP_MAX_TOO_LOW
  BY <1>2 DEF TypeOK, Entry, DupEntry
<1>4. /\ Entry(o)' = Updated(e, r) /\ last'[o] = n /\ blocked'[o] = blocked[o] + 1
  BY <1>2 DEF Deliver, TypeOK, Entry, AfterMessage
<1>5. diff \in Int
  BY <1>1, <1>3, ModRange DEF olsr_seqno_diff, SeqNumbers
<1>6. /\ dn \in 0 .. SEQ_MOD - 1
      /\ dn < HALF => diff = -dn
      /\ dn > HALF => diff = SEQ_MOD - dn
      /\ dn = HALF => diff \in {HALF, -HALF}
  BY <1>1, <1>3, DiffValue DEF Behind
<1>7. diff <= 0
  <2>1. TooLow(e, r) => diff <= 0
    BY <1>5 DEF TooLow
  <2> QED BY <2>1 DEF Verdict
<1>8. Entry(o)'.seqnr = e.seqnr /\ Behind(o, n)' = dn
  <2>1. Entry(o)'.seqnr = e.seqnr
    BY <1>2, <1>3, <1>4, <1>7 DEF Updated, DupEntry
  <2>2. n' = n
    OBVIOUS
  <2> QED BY <2>1 DEF Behind
<1>9. Behind(o, last[o])' = dn
  BY <1>4, <1>8 DEF Behind
<1>10. ASSUME blocked[o] > 0
       PROVE  /\ last[o] \in Nat
              /\ Behind(o, last[o]) \in Nat /\ Behind(o, last[o]) <= HALF
              /\ dn <= HALF => dn < Behind(o, last[o])
  <2> DEFINE dl == Behind(o, last[o])
  <2>1. last[o] \in Nat /\ n - last[o] < HALF /\ dl <= HALF
    BY <1>1, <1>10 DEF LastOf, BlockedOf
  <2>2. dl \in 0 .. SEQ_MOD - 1
    BY <1>3, <2>1, ModRange DEF Behind, SeqNumbers
  <2>3. dn <= HALF => dn = dl - (n - last[o])
    BY <1>1, <1>3, <2>1, ComesCloser DEF Behind, SeqNumbers
  <2> HIDE DEF dl, dn
  <2>4. dn <= HALF => dn < dl
    BY <1>1, <2>1, <2>2, <2>3
  <2> QED BY <2>1, <2>2, <2>4 DEF dl
<1> HIDE DEF dn, diff
<1>11. dn <= HALF
  BY <1>5, <1>6, <1>7
<1>12. DUP_MAX_TOO_LOW \in Nat
  BY TimeFacts
<1>13. CASE TooLow(e, r)
  <2>1. dn >= WINDOW
    BY <1>5, <1>6, <1>7, <1>11, <1>13 DEF TooLow, diff
  <2>2. Entry(o)'.too_low_counter = e.too_low_counter + 1
    BY <1>2, <1>3, <1>4, <1>13 DEF Updated, DupEntry
  <2>3. blocked[o] > 0 => blocked[o] <= e.too_low_counter
    BY <1>6, <1>10, <1>11, <2>1 DEF BlockedOf
  <2>4. blocked[o] + 1 <= e.too_low_counter + 1
    BY <1>1, <1>3, <2>3
  <2> QED BY <1>1, <1>4, <1>6, <1>9, <1>11, <2>1, <2>2, <2>4 DEF BlockedOf
<1>14. CASE ~TooLow(e, r)
  <2>1. dn < WINDOW
    BY <1>5, <1>6, <1>7, <1>11, <1>14 DEF TooLow, diff
  <2>2. blocked[o] + 1 <= DUP_MAX_TOO_LOW + WINDOW - dn
    <3>1. CASE blocked[o] = 0
      BY <1>6, <1>12, <2>1, <3>1
    <3>2. CASE blocked[o] > 0 /\ Behind(o, last[o]) < WINDOW
      BY <1>1, <1>6, <1>10, <1>11, <1>12, <3>2 DEF BlockedOf
    <3>3. CASE blocked[o] > 0 /\ Behind(o, last[o]) >= WINDOW
      <4>1. blocked[o] <= e.too_low_counter
        BY <1>10, <3>3 DEF BlockedOf
      <4> QED BY <1>1, <1>3, <1>6, <1>12, <2>1, <4>1
    <3> QED BY <1>1, <1>10, <3>1, <3>2, <3>3
  <2> QED BY <1>1, <1>4, <1>6, <1>9, <1>11, <2>1, <2>2 DEF BlockedOf
<1> QED BY <1>13, <1>14

\* Every step keeps the count of blocked messages in order.
LEMMA BlockedStep == TypeOK /\ FreshInv /\ BlockedInv /\ [Next]_vars => BlockedInv'
<1> SUFFICES ASSUME TypeOK, FreshInv, BlockedInv, [Next]_vars, NEW p \in Originators
             PROVE  BlockedOf(p)'
  BY DEF BlockedInv
<1>0. BlockedOf(p) /\ LastOf(p)
  BY DEF BlockedInv, FreshInv
<1> DEFINE Same == blocked'[p] = blocked[p] /\ last'[p] = last[p]
                     /\ duplicate_set'[p] = duplicate_set[p]
<1>1. ASSUME Same PROVE BlockedOf(p)'
  BY <1>0, <1>1 DEF BlockedOf, Behind, Entry
<1>2. ASSUME blocked'[p] = 0 PROVE BlockedOf(p)'
  BY <1>2 DEF BlockedOf
<1>3. ASSUME NEW o \in Originators, Send(o) PROVE BlockedOf(p)'
  BY <1>1, <1>3 DEF Send, codeVars
<1>4. ASSUME NEW o \in Originators, Reboot(o) PROVE BlockedOf(p)'
  BY <1>1, <1>2, <1>4 DEF Reboot, codeVars, TypeOK
<1>5. ASSUME NEW o \in Originators, NEW n \in InFlight(o), Deliver(o, n) PROVE BlockedOf(p)'
  <2>1. CASE p # o
    BY <1>1, <1>5, <2>1 DEF Deliver, TypeOK
  <2>2. CASE p = o
    BY <1>0, <1>5, <2>2, DeliverKeepsBlocked
  <2> QED BY <2>1, <2>2
<1>6. ASSUME NEW o \in Originators, olsr_cleanup_duplicates(o) PROVE BlockedOf(p)'
  BY <1>1, <1>2, <1>6 DEF olsr_cleanup_duplicates, TypeOK
<1>7. ASSUME olsr_cleanup_duplicate_entry PROVE BlockedOf(p)'
  BY <1>1, <1>2, <1>7 DEF olsr_cleanup_duplicate_entry, Entry
<1>8. ASSUME Tick \/ UNCHANGED vars PROVE BlockedOf(p)'
  BY <1>1, <1>8 DEF Tick, vars, historyVars
<1> QED BY <1>3, <1>4, <1>5, <1>6, <1>7, <1>8 DEF Next

\* RebootRecovers: olsr_message_is_duplicate blocks at most
\* DUP_MAX_TOO_LOW + WINDOW messages of an originator in order, wherever its
\* numbers went on after a reboot and whatever bits its former life left.
THEOREM RebootAlwaysRecovers == Spec => []RebootRecovers
<1>1. Init => BlockedInv
  BY DEF Init, BlockedInv, BlockedOf
<1>2. TypeOK /\ FreshInv /\ BlockedInv => RebootRecovers
  <2> SUFFICES ASSUME TypeOK, FreshInv, BlockedInv, NEW o \in Originators
               PROVE  blocked[o] <= DUP_MAX_TOO_LOW + WINDOW
    BY DEF RebootRecovers
  <2>1. blocked[o] \in Nat /\ DUP_MAX_TOO_LOW \in Nat
    BY TimeFacts DEF TypeOK
  <2>2. CASE blocked[o] > 0
    <3>1. last[o] \in Nat /\ Known(o)
      BY <2>2 DEF BlockedInv, BlockedOf, FreshInv, LastOf, TypeOK
    <3>2. Entry(o).seqnr \in Int /\ Entry(o).too_low_counter \in 0 .. DUP_MAX_TOO_LOW
      BY <3>1 DEF Known, Entry, TypeOK, DupEntry, SeqNumbers
    <3>3. Behind(o, last[o]) \in 0 .. SEQ_MOD - 1
      BY <3>1, <3>2, ModRange DEF Behind
    <3> QED BY <2>1, <2>2, <3>2, <3>3 DEF BlockedInv, BlockedOf
  <2> QED BY <2>1, <2>2
<1> QED BY <1>1, <1>2, BlockedStep, AlwaysFresh, TypeCorrect, PTL DEF Spec

(* The clean-up. *)

\* An entry times out DUPLICATE_VTIME after its originator was heard last.
ValidOf(o) ==
    /\ heard[o] <= clock
    /\ Known(o) => Entry(o).valid_until = heard[o] + DUPLICATE_VTIME

ValidInv == \A o \in Originators : ValidOf(o)

\* Before the clock wraps a timestamp is the plain sum.
LEMMA PlainTime ==
    ASSUME TypeOK
    PROVE  /\ clock \in Nat /\ now_times = clock
           /\ GET_TIMESTAMP(DUPLICATE_VTIME) = clock + DUPLICATE_VTIME
<1>1. clock \in Nat /\ clock <= MAX_CLOCK /\ MAX_CLOCK + DUPLICATE_VTIME < TIME_MOD
  BY TimeFacts, ClockAssumption DEF TypeOK
<1>2. TIME_MOD \in Nat /\ TIME_MOD > 0 /\ DUPLICATE_VTIME \in Nat /\ MAX_CLOCK \in Nat
  BY TimeFacts
<1>3. clock \in 0 .. TIME_MOD - 1 /\ clock + DUPLICATE_VTIME \in 0 .. TIME_MOD - 1
  BY <1>1, <1>2
<1>4. clock % TIME_MOD = clock
  BY <1>2, <1>3, ModSmall
<1>5. (clock + DUPLICATE_VTIME) % TIME_MOD = clock + DUPLICATE_VTIME
  BY <1>2, <1>3, ModSmall
<1> QED BY <1>1, <1>4, <1>5 DEF now_times, GET_TIMESTAMP

\* Every step keeps the timestamps of the entries.
LEMMA ValidStep == TypeOK /\ ValidInv /\ [Next]_vars => ValidInv'
<1> SUFFICES ASSUME TypeOK, ValidInv, [Next]_vars, NEW p \in Originators
             PROVE  ValidOf(p)'
  BY DEF ValidInv
<1>0. ValidOf(p) /\ clock \in Nat /\ heard[p] \in Nat /\ DUPLICATE_VTIME \in Nat
  BY TimeFacts DEF ValidInv, TypeOK
<1>1. ASSUME clock' \in {clock, clock + 1}, heard'[p] = heard[p],
             duplicate_set'[p] = duplicate_set[p]
      PROVE  ValidOf(p)'
  BY <1>0, <1>1 DEF ValidOf, Known, Entry
<1>2. ASSUME NEW o \in Originators, Send(o) \/ Reboot(o) PROVE ValidOf(p)'
  BY <1>1, <1>2 DEF Send, Reboot, codeVars
<1>3. ASSUME NEW o \in Originators, NEW n \in InFlight(o), Deliver(o, n) PROVE ValidOf(p)'
  <2>1. CASE p # o
    BY <1>1, <1>3, <2>1 DEF Deliver, TypeOK
  <2>2. CASE p = o
    <3>1. /\ clock' = clock /\ heard'[p] = clock
          /\ Entry(p)' = AfterMessage(Entry(p), n % SEQ_MOD)
      BY <1>3, <2>2 DEF Deliver, TypeOK, Entry
    <3>2. GET_TIMESTAMP(DUPLICATE_VTIME) = clock + DUPLICATE_VTIME
      BY PlainTime
    <3>3. CASE Entry(p) = NoEntry
      BY <1>0, <3>1, <3>2, <3>3 DEF AfterMessage, olsr_create_duplicate_entry, ValidOf
    <3>4. CASE Entry(p) # NoEntry
      <4>1. Entry(p) \in DupEntry /\ Entry(p).valid_until = heard[p] + DUPLICATE_VTIME
        BY <1>0, <3>4 DEF ValidOf, Known, TypeOK, Entry
      <4>2. LaterTimestamp(Entry(p)) = clock + DUPLICATE_VTIME
        BY <1>0, <3>2, <4>1 DEF LaterTimestamp, ValidOf
      <4>3. Entry(p)'.valid_until = LaterTimestamp(Entry(p))
        BY <3>1, <3>4, <4>1 DEF AfterMessage, Updated, DupEntry
      <4> QED BY <1>0, <3>1, <4>2, <4>3 DEF ValidOf
    <3> QED BY <3>3, <3>4
  <2> QED BY <2>1, <2>2
<1>4. ASSUME NEW o \in Originators, olsr_cleanup_duplicates(o) PROVE ValidOf(p)'
  <2>1. CASE p # o
    BY <1>1, <1>4, <2>1 DEF olsr_cleanup_duplicates, TypeOK
  <2>2. CASE p = o
    <3>1. /\ Entry(p) \in DupEntry /\ Known(p) /\ clock' = clock /\ heard' = heard
          /\ Entry(p)' = [Entry(p) EXCEPT !.too_low_counter = DUP_MAX_TOO_LOW - 2]
      BY <1>4, <2>2 DEF olsr_cleanup_duplicates, Known, Entry, TypeOK
    <3>2. Entry(p)'.valid_until = Entry(p).valid_until
      BY <3>1 DEF DupEntry
    <3> QED BY <1>0, <3>1, <3>2 DEF ValidOf
  <2> QED BY <2>1, <2>2
<1>5. ASSUME olsr_cleanup_duplicate_entry PROVE ValidOf(p)'
  BY <1>0, <1>1, <1>5 DEF olsr_cleanup_duplicate_entry, ValidOf, Known, Entry
<1>6. ASSUME Tick PROVE ValidOf(p)'
  BY <1>1, <1>6 DEF Tick, historyVars
<1>7. ASSUME UNCHANGED vars PROVE ValidOf(p)'
  BY <1>1, <1>7 DEF vars
<1> QED BY <1>2, <1>3, <1>4, <1>5, <1>6, <1>7 DEF Next

\* KeptWhileHeard: olsr_cleanup_duplicate_entry removes only entries whose
\* originator was silent for DUPLICATE_VTIME, as long as the clock does not wrap.
THEOREM AlwaysKeptWhileHeard == Spec => KeptWhileHeard
<1> DEFINE Kept == \A o \in Originators :
              Known(o) /\ duplicate_set'[o] = NoEntry => clock - heard[o] >= DUPLICATE_VTIME
<1>1. Init => ValidInv
  BY TimeFacts DEF Init, ValidInv, ValidOf, Known, Entry
<1>2. TypeOK /\ TypeOK' /\ ValidInv /\ [Next]_vars => [Kept]_vars
  <2> SUFFICES ASSUME TypeOK, ValidInv, Next, NEW p \in Originators,
                      Known(p), duplicate_set'[p] = NoEntry
               PROVE  clock - heard[p] >= DUPLICATE_VTIME
    OBVIOUS
  <2>1. \/ olsr_cleanup_duplicate_entry
        \/ \E o \in Originators : \E n \in InFlight(o) : Deliver(o, n)
        \/ \E o \in Originators : olsr_cleanup_duplicates(o)
    BY DEF Next, Send, Reboot, Tick, codeVars, Known, Entry
  <2>2. ASSUME NEW o \in Originators, NEW n \in InFlight(o), Deliver(o, n) PROVE FALSE
    <3>1. p = o
      BY <2>2 DEF Deliver, TypeOK, Known, Entry
    <3>2. n % SEQ_MOD \in SeqNumbers /\ clock \in Nat
      BY PlainTime, ModRange DEF InFlight, TypeOK, SeqNumbers
    <3>3. Entry(p) \in DupEntry
      BY DEF Known, Entry, TypeOK
    <3>4. duplicate_set'[p] = Updated(Entry(p), n % SEQ_MOD)
      BY <2>2, <3>1 DEF Deliver, TypeOK, Known, Entry, AfterMessage
    <3>5. Updated(Entry(p), n % SEQ_MOD) \in DupEntry
      BY <3>2, <3>3, EntryTypes
    <3> QED BY <3>4, <3>5 DEF DupEntry, NoEntry, SeqNumbers
  <2>3. ASSUME NEW o \in Originators, olsr_cleanup_duplicates(o) PROVE FALSE
    <3>1. p = o
      BY <2>3 DEF olsr_cleanup_duplicates, TypeOK, Known, Entry
    <3>2. Entry(p) \in DupEntry
            /\ duplicate_set'[p] = [Entry(p) EXCEPT !.too_low_counter = DUP_MAX_TOO_LOW - 2]
      BY <2>3, <3>1 DEF olsr_cleanup_duplicates, TypeOK, Known, Entry
    <3> QED BY <3>2 DEF DupEntry, NoEntry, SeqNumbers
  <2>4. ASSUME olsr_cleanup_duplicate_entry PROVE clock - heard[p] >= DUPLICATE_VTIME
    <3>1. TIMED_OUT(Entry(p).valid_until)
      BY <2>4 DEF olsr_cleanup_duplicate_entry, Known, Entry
    <3>2. Entry(p).valid_until = heard[p] + DUPLICATE_VTIME /\ heard[p] <= clock
      BY DEF ValidInv, ValidOf
    <3>3. clock \in Nat /\ now_times = clock /\ heard[p] \in Nat
      BY PlainTime, TimeFacts DEF TypeOK
    <3>4. DUPLICATE_VTIME \in Nat /\ TIME_MOD \div 2 \in Nat /\ DUPLICATE_VTIME < TIME_MOD \div 2
      BY DuplicateSetAssumption
    <3> QED BY <3>1, <3>2, <3>3, <3>4 DEF TIMED_OUT
  <2> QED BY <2>1, <2>2, <2>3, <2>4
<1>3. KeptWhileHeard <=> [][Kept]_vars
  BY DEF KeptWhileHeard
<1> QED BY <1>1, <1>2, <1>3, ValidStep, TypeCorrect, PTL DEF Spec
=============================================================================
