----------------------------- MODULE DuplicateSet -----------------------------
(***************************************************************************)
(* The duplicate set of duplicate_set.c: for every originator a sliding    *)
(* window over the wrapping message sequence numbers that decides whether  *)
(* a flooded message was seen before.  olsr_forward_message asks it before *)
(* a message is retransmitted.                                             *)
(*                                                                         *)
(* The environment is an originator that numbers its messages, may reboot  *)
(* with an arbitrary sequence number, and a radio network that may lose,   *)
(* repeat and reorder its last IN_FLIGHT messages.  Messages are known to  *)
(* the history variables by their true, never wrapping number; the code    *)
(* only sees that number modulo SEQ_MOD.                                   *)
(***************************************************************************)
EXTENDS SeqNo, FiniteSets

CONSTANTS
    Originators,        \* addresses that originate messages
    WINDOW,             \* 32: bits of dup_entry.array
    DUP_MAX_TOO_LOW,    \* 16
    TIME_MOD,           \* 2^32: the range of a millisecond timestamp
    DUPLICATE_VTIME,    \* 120000 ms
    DUPLICATE_CLEANUP_INTERVAL, \* 15000 ms
    DUPLICATE_CLEANUP_JITTER,   \* at most 25% of the interval, in ms
    IN_FLIGHT,          \* how many of the newest messages may still arrive
    MAX_LOST,           \* bound: messages lost in a row; olsrd sends a handful a
                        \* second and an entry lives for two minutes of silence
    MAX_SENT,           \* bound: true number of the last message
    MAX_CLOCK           \* bound: unwrapped time

ASSUME DuplicateSetAssumption ==
    /\ WINDOW \in Nat \ {0}
    /\ DUP_MAX_TOO_LOW \in Nat /\ DUP_MAX_TOO_LOW >= 2
    /\ TIME_MOD \in Nat /\ TIME_MOD % 2 = 0
    /\ DUPLICATE_VTIME \in Nat /\ DUPLICATE_VTIME < TIME_MOD \div 2
    /\ DUPLICATE_CLEANUP_INTERVAL \in Nat /\ DUPLICATE_CLEANUP_JITTER \in Nat
    /\ DUPLICATE_CLEANUP_JITTER < DUPLICATE_CLEANUP_INTERVAL
    /\ IN_FLIGHT \in Nat \ {0}
    /\ WINDOW + IN_FLIGHT <= HALF
    /\ MAX_LOST \in Nat
    /\ MAX_SENT \in Nat
    /\ MAX_CLOCK \in Nat

\* A message is overtaken by less than the window, and fewer messages than half
\* the range are lost in a row.
ASSUME DelayAssumption == IN_FLIGHT <= WINDOW /\ MAX_LOST < HALF

\* The millisecond clock does not wrap, which it does after 49 days.
ASSUME ClockAssumption == MAX_CLOCK + DUPLICATE_VTIME < TIME_MOD

VARIABLES
    duplicate_set,  \* avl tree of dup_entry, keyed by originator
    cleanup_timer,  \* when duplicate_cleanup_timer fires next, unwrapped
    clock,          \* time; now_times is clock % TIME_MOD
    sent,           \* true number of the originator's newest message
    booted,         \* true number of the first message after its last boot
    accepted,       \* history: in-flight messages accepted since the entry (re)started
    creator,        \* history: the message the entry was created for
    rebooted,       \* history: the originator rebooted since the entry (re)started
    heard,          \* history: time of the last message that reached the entry
    last,           \* history: newest message delivered since the entry (re)started
    blocked         \* history: messages in a row, in order, that were blocked

codeVars == <<duplicate_set, cleanup_timer, clock>>
envVars == <<sent, booted>>
historyVars == <<accepted, creator, rebooted, heard, last, blocked>>
vars == <<duplicate_set, cleanup_timer, clock, sent, booted, accepted, creator, rebooted, heard, last, blocked>>

NoEntry == [seqnr |-> -1, too_low_counter |-> 0, array |-> {}, valid_until |-> 0]

\* array is the bit field: k stands for the bit of seqnr - k.
DupEntry == [seqnr: SeqNumbers, too_low_counter: 0 .. DUP_MAX_TOO_LOW,
             array: SUBSET (0 .. WINDOW - 1), valid_until: 0 .. TIME_MOD - 1]

Entry(o) == duplicate_set[o]
Known(o) == Entry(o) # NoEntry

-----------------------------------------------------------------------------
(* Time: scheduler.h GET_TIMESTAMP and scheduler.c olsr_isTimedOut.        *)

now_times == clock % TIME_MOD

GET_TIMESTAMP(rel) == (now_times + rel) % TIME_MOD

TIMED_OUT(s) == IF s > now_times THEN s - now_times > TIME_MOD \div 2
                                 ELSE now_times - s <= TIME_MOD \div 2

-----------------------------------------------------------------------------
(* olsr_message_is_duplicate, split into its verdict and its effect.       *)

olsr_create_duplicate_entry(seqnr) ==
    [seqnr |-> seqnr, too_low_counter |-> 0, array |-> {},
     valid_until |-> GET_TIMESTAMP(DUPLICATE_VTIME)]

MutantTooLow(e, seqnr) == olsr_seqno_diff(seqnr, e.seqnr) < -(WINDOW - 2)

TooLow(e, seqnr) == olsr_seqno_diff(seqnr, e.seqnr) < -(WINDOW - 1)

MutantStartsOver(e, seqnr) ==
    TooLow(e, seqnr) /\ e.too_low_counter > DUP_MAX_TOO_LOW

\* "client did restart with a lower number ?"
StartsOver(e, seqnr) ==
    TooLow(e, seqnr) /\ e.too_low_counter + 1 > DUP_MAX_TOO_LOW

Verdict(e, seqnr) ==
    /\ e # NoEntry
    /\ LET diff == olsr_seqno_diff(seqnr, e.seqnr)
       IN  IF TooLow(e, seqnr) THEN ~StartsOver(e, seqnr)
           ELSE diff <= 0 /\ -diff \in e.array

MutantShiftLeft(array, diff) == array

MutantShiftLeftWide(array, diff) == {k + diff : k \in array}

\* array <<= diff in a WINDOW-bit word
ShiftLeft(array, diff) == {k + diff : k \in array} \cap (0 .. WINDOW - 1)

MutantLaterTimestamp(e) == e.valid_until

\* "update timestamp": a raw comparison of two wrapping timestamps
LaterTimestamp(e) ==
    LET valid_until == GET_TIMESTAMP(DUPLICATE_VTIME)
    IN  IF valid_until > e.valid_until THEN valid_until ELSE e.valid_until

Updated(e, seqnr) ==
    LET diff == olsr_seqno_diff(seqnr, e.seqnr)
        until == LaterTimestamp(e)
    IN  IF StartsOver(e, seqnr) THEN
            [seqnr |-> seqnr, too_low_counter |-> 0, array |-> {0}, valid_until |-> until]
        ELSE IF TooLow(e, seqnr) THEN
            [e EXCEPT !.too_low_counter = @ + 1, !.valid_until = until]
        ELSE IF diff <= 0 THEN
            [e EXCEPT !.too_low_counter = 0, !.array = @ \cup {-diff}, !.valid_until = until]
        ELSE
            [seqnr |-> seqnr, too_low_counter |-> 0,
             array |-> ShiftLeft(e.array, diff) \cup {0}, valid_until |-> until]

\* olsr_clock_jitter: a period is shortened by a random part of the jitter.
CleanupPeriods ==
    DUPLICATE_CLEANUP_INTERVAL - DUPLICATE_CLEANUP_JITTER .. DUPLICATE_CLEANUP_INTERVAL

AfterMessage(e, seqnr) ==
    IF e = NoEntry THEN olsr_create_duplicate_entry(seqnr) ELSE Updated(e, seqnr)

-----------------------------------------------------------------------------
Init ==
    /\ duplicate_set = [o \in Originators |-> NoEntry]
    /\ clock = 0
    /\ cleanup_timer \in CleanupPeriods
    /\ sent \in [Originators -> 0 .. SEQ_MOD - 1]
    /\ booted = [o \in Originators |-> sent[o] + 1]
    /\ accepted = [o \in Originators |-> {}]
    /\ creator = [o \in Originators |-> -1]
    /\ rebooted = [o \in Originators |-> FALSE]
    /\ heard = [o \in Originators |-> 0]
    /\ last = [o \in Originators |-> -1]
    /\ blocked = [o \in Originators |-> 0]

\* The messages the network may still deliver.
InFlight(o) == {n \in booted[o] .. sent[o] : n > sent[o] - IN_FLIGHT}

\* Environment: o floods its next message.
Send(o) ==
    /\ sent[o] < MAX_SENT
    /\ Known(o) => sent[o] - last[o] < MAX_LOST \/ sent[o] - booted[o] < MAX_LOST
    /\ sent' = [sent EXCEPT ![o] = @ + 1]
    /\ accepted' = [accepted EXCEPT ![o] = @ \cap (sent[o] + 2 - IN_FLIGHT .. MAX_SENT)]
    /\ UNCHANGED <<codeVars, booted, creator, rebooted, heard, last, blocked>>

\* Environment: o reboots and goes on at a random sequence number, after the
\* messages of its former life have left the network.
Reboot(o) ==
    /\ \E n \in sent[o] + 1 .. sent[o] + SEQ_MOD :
          /\ n <= MAX_SENT
          /\ booted' = [booted EXCEPT ![o] = n]
          /\ sent' = [sent EXCEPT ![o] = n - 1]
    /\ accepted' = [accepted EXCEPT ![o] = {}]
    /\ rebooted' = [rebooted EXCEPT ![o] = Known(o)]
    /\ last' = [last EXCEPT ![o] = -1]
    /\ blocked' = [blocked EXCEPT ![o] = 0]
    /\ UNCHANGED <<codeVars, creator, heard>>

\* A message reaches olsr_message_is_duplicate.
Deliver(o, n) ==
    LET seqnr == n % SEQ_MOD
        starting == ~Known(o) \/ StartsOver(Entry(o), seqnr)
        dup == Verdict(Entry(o), seqnr)
    IN  /\ n \in InFlight(o)
        /\ duplicate_set' = [duplicate_set EXCEPT ![o] = AfterMessage(@, seqnr)]
        /\ heard' = [heard EXCEPT ![o] = clock]
        /\ accepted' = [accepted EXCEPT ![o] =
                          IF starting THEN {n} ELSE IF dup THEN @ ELSE @ \cup {n}]
        /\ creator' = [creator EXCEPT ![o] =
                          IF ~Known(o) THEN n ELSE IF starting \/ (n = @ /\ ~dup) THEN -1 ELSE @]
        /\ rebooted' = [rebooted EXCEPT ![o] = @ /\ ~starting]
        /\ last' = [last EXCEPT ![o] = IF n > @ \/ starting THEN n ELSE @]
        /\ blocked' = [blocked EXCEPT ![o] = IF dup /\ n > last[o] THEN @ + 1 ELSE 0]
        /\ UNCHANGED <<clock, cleanup_timer, envVars>>

\* tc_set.c calls this when o announces its shutdown with an empty TC.
olsr_cleanup_duplicates(o) ==
    /\ Known(o)
    /\ duplicate_set' = [duplicate_set EXCEPT ![o].too_low_counter = DUP_MAX_TOO_LOW - 2]
    /\ blocked' = [blocked EXCEPT ![o] = 0]
    /\ UNCHANGED <<clock, cleanup_timer, envVars, accepted, creator, rebooted, heard, last>>

\* The periodic timer: every entry that timed out leaves the tree.
olsr_cleanup_duplicate_entry ==
    LET gone == {o \in Originators : Known(o) /\ TIMED_OUT(Entry(o).valid_until)}
    IN  /\ cleanup_timer <= clock
        /\ \E period \in CleanupPeriods : cleanup_timer' = clock + period
        /\ duplicate_set' = [o \in Originators |-> IF o \in gone THEN NoEntry ELSE Entry(o)]
        /\ accepted' = [o \in Originators |-> IF o \in gone THEN {} ELSE accepted[o]]
        /\ creator' = [o \in Originators |-> IF o \in gone THEN -1 ELSE creator[o]]
        /\ rebooted' = [o \in Originators |-> rebooted[o] /\ o \notin gone]
        /\ last' = [o \in Originators |-> IF o \in gone THEN -1 ELSE last[o]]
        /\ blocked' = [o \in Originators |-> IF o \in gone THEN 0 ELSE blocked[o]]
        /\ UNCHANGED <<clock, envVars, heard>>

\* Time does not pass a timer that is due.
Tick == /\ clock < MAX_CLOCK /\ clock < cleanup_timer
        /\ clock' = clock + 1
        /\ UNCHANGED <<duplicate_set, cleanup_timer, envVars, historyVars>>

Next ==
    \/ \E o \in Originators :
          \/ Send(o)
          \/ Reboot(o)
          \/ \E n \in InFlight(o) : Deliver(o, n)
          \/ olsr_cleanup_duplicates(o)
    \/ olsr_cleanup_duplicate_entry
    \/ Tick

Spec == Init /\ [][Next]_vars

-----------------------------------------------------------------------------
(* Properties.                                                             *)

\* Every entry and every history variable stays in range: in particular the
\* 16-bit counter of too low numbers never passes DUP_MAX_TOO_LOW and the
\* shifted bit field never keeps a bit outside its word.
TypeOK ==
    /\ duplicate_set \in [Originators -> DupEntry \cup {NoEntry}]
    /\ clock \in 0 .. MAX_CLOCK
    /\ cleanup_timer \in Nat
    /\ sent \in [Originators -> Nat]
    /\ booted \in [Originators -> Nat]
    /\ accepted \in [Originators -> SUBSET Nat]
    /\ creator \in [Originators -> Nat \cup {-1}]
    /\ rebooted \in [Originators -> BOOLEAN]
    /\ heard \in [Originators -> 0 .. MAX_CLOCK]
    /\ last \in [Originators -> Nat \cup {-1}]
    /\ blocked \in [Originators -> Nat]

\* A message that was accepted since its entry (re)started, and may still
\* arrive in another copy, is recognised as a duplicate: whatever was
\* reordered and however the sequence numbers wrapped in between, it is not
\* forwarded again.  The message an entry was created for is left out: its bit
\* is not set, so that its first copy is accepted once more.
AcceptedOnce ==
    \A o \in Originators : \A n \in accepted[o] \ {creator[o]} :
        \/ Verdict(Entry(o), n % SEQ_MOD)
        \/ StartsOver(Entry(o), n % SEQ_MOD)

\* While the originator has not rebooted, no message that was not accepted
\* before is blocked, however late it comes among the messages in flight.
NoNewMessageBlocked ==
    \A o \in Originators :
        Known(o) /\ ~rebooted[o] =>
            \A n \in InFlight(o) \ accepted[o] : ~Verdict(Entry(o), n % SEQ_MOD)

\* The window starts over at a lower number only for an originator that did
\* reboot; late copies of a living originator never trigger it.
StartsOverOnlyAfterReboot ==
    \A o \in Originators :
        Known(o) /\ ~rebooted[o] =>
            \A n \in InFlight(o) : ~StartsOver(Entry(o), n % SEQ_MOD)

\* A rebooted originator is heard again after a bounded number of messages:
\* at most DUP_MAX_TOO_LOW are blocked as too low and WINDOW by stale bits.
RebootRecovers ==
    \A o \in Originators : blocked[o] <= DUP_MAX_TOO_LOW + WINDOW

\* An entry leaves the set only when its originator was silent for
\* DUPLICATE_VTIME, so duplicates cannot pass because the entry was cleaned up.
KeptWhileHeard ==
    [][\A o \in Originators :
          Known(o) /\ duplicate_set'[o] = NoEntry => clock - heard[o] >= DUPLICATE_VTIME]_vars
=============================================================================
