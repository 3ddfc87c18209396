-------------------------------- MODULE Timers --------------------------------
(***************************************************************************)
(* The timers of scheduler.c: a wheel of lists of timer entries, walked     *)
(* slot by slot by the main loop, a 32 bit clock that wraps, and the free   *)
(* list of olsr_cookie.c from which the memory of stopped timers is taken   *)
(* again.  A callback is a sequence of steps of its own, between which it   *)
(* may start, change and stop timers, its own included, while the walk      *)
(* still holds a pointer to the entry it called.                            *)
(*                                                                          *)
(* Deadlines says what the users of the timers rely on; Implements is the   *)
(* refinement.                                                              *)
(***************************************************************************)
EXTENDS Integers, Sequences, FiniteSets, SequencesExt

CONSTANTS
    Blocks, NoTimer,    \* memory blocks of timer entries
    CLOCK_MOD,          \* 2^32 in the code
    TIMER_WHEEL_SLOTS,
    Rels,               \* relative times the users ask for
    Gaps,               \* milliseconds between two readings of the clock
    MAX_STALL,          \* bound: the longest time between two walks
    JITTER_PCT,
    FREE_LIST_THRESHOLD \* COOKIE_FREE_LIST_THRESHOLD

ASSUME TimersAssumption ==
    /\ CLOCK_MOD \in Nat /\ CLOCK_MOD % 2 = 0
    /\ TIMER_WHEEL_SLOTS \in Nat \ {0} /\ MAX_STALL \in Nat
    /\ TIMER_WHEEL_SLOTS + 2 * MAX_STALL <= CLOCK_MOD \div 2
    /\ Rels \subseteq 1..(CLOCK_MOD \div 2 - 1)
    /\ Gaps \subseteq 1..MAX_STALL
    /\ JITTER_PCT \in 0..99
    /\ FREE_LIST_THRESHOLD \in Nat \ {0}
    /\ NoTimer \notin Blocks

VARIABLES
    now_times,      \* the clock
    timer_last_run, \* the slot up to which the wheel was walked
    timer_wheel,    \* slot -> list of entries
    entry,          \* block -> clock, period, running; what else a freed block
                    \* holds is never read and left out
    free_list,      \* blocks kept for reuse, oldest first
    walk            \* where walk_timers is: at, list of walked entries,
                    \* entry called back, slots walked

vars == <<now_times, timer_last_run, timer_wheel, entry, free_list, walk>>

HALF == CLOCK_MOD \div 2
Slots == 0..(TIMER_WHEEL_SLOTS - 1)
Slot(clock) == clock % TIMER_WHEEL_SLOTS

Running == {t \in Blocks : entry[t].running}
Periods(r) == {0, r}
Jitters(r) == 0..((JITTER_PCT * r) \div 100)

NotRunning == [clock |-> 0, period |-> 0, running |-> FALSE]
NoWalk == [at |-> "idle", tmp |-> << >>, timer |-> NoTimer, slots |-> 0]

Init ==
    /\ now_times \in 0..(CLOCK_MOD - 1)
    /\ timer_last_run = now_times
    /\ timer_wheel = [s \in Slots |-> << >>]
    /\ entry = [t \in Blocks |-> NotRunning]
    /\ free_list = << >>
    /\ walk = NoWalk
-----------------------------------------------------------------------------
(* The clock.                                                              *)

olsr_getTimestamp(s) == (now_times + s) % CLOCK_MOD

MutantIsTimedOut(s) == s <= now_times

olsr_isTimedOut(s) ==
    IF s > now_times THEN s - now_times > HALF ELSE now_times - s <= HALF

\* The time until s as a signed number; what olsr_getTimeDue means to return.
Due(s) ==
    LET d == (s - now_times) % CLOCK_MOD
    IN  IF d >= HALF THEN d - CLOCK_MOD ELSE d

\* The main loop reads the clock between its phases, never inside a walk, and
\* at least once between two walks.
olsr_times ==
    /\ walk.at \in {"idle", "walked"}
    /\ \E d \in Gaps :
          /\ d + ((now_times - timer_last_run) % CLOCK_MOD) <= MAX_STALL
          /\ now_times' = (now_times + d) % CLOCK_MOD
    /\ walk' = NoWalk
    /\ UNCHANGED <<timer_last_run, timer_wheel, entry, free_list>>
-----------------------------------------------------------------------------
(* Starting, changing and stopping a timer.                                *)

MutantRemoved(w, t) == w

\* list_remove on the list the entry is on.
Unlinked(q, t) ==
    IF t \in Range(q) THEN RemoveAt(q, CHOOSE i \in DOMAIN q : q[i] = t) ELSE q

\* The entry is in one slot, or in the list of walked entries.
Removed(w, t) == [s \in Slots |-> Unlinked(w[s], t)]

\* olsr_cookie_malloc takes the oldest block of the free list, or memory that
\* is neither in use nor kept.
olsr_cookie_malloc ==
    IF free_list # << >> THEN {Head(free_list)} ELSE Blocks \ Running

\* olsr_cookie_free keeps the block unless enough are kept already, for their
\* own number or for that of the blocks in use.
Freed(t) ==
    IF \/ Len(free_list) < FREE_LIST_THRESHOLD
       \/ Len(free_list) < Cardinality(Running) \div FREE_LIST_THRESHOLD
    THEN Append(free_list, t) ELSE free_list

\* A callback that stopped its own timer starts no other one: the handlers
\* that do both (gateway selection, name service) start first.
MayStart == walk.at = "cb" => entry[walk.timer].running

olsr_start_timer(r, p) ==
    /\ walk.at # "slot"
    /\ MayStart
    /\ \E t \in olsr_cookie_malloc, j \in Jitters(r) :
          LET clock == olsr_getTimestamp(r - j)
          IN  /\ entry' = [entry EXCEPT
                    ![t] = [clock |-> clock, period |-> p, running |-> TRUE]]
              /\ timer_wheel' = [timer_wheel EXCEPT ![Slot(clock)] = Append(@, t)]
              /\ free_list' = IF free_list = << >> THEN << >> ELSE Tail(free_list)
    /\ UNCHANGED <<now_times, timer_last_run, walk>>

MutantRescheduled(t, r, p, j) ==
    /\ entry' = [entry EXCEPT ![t].period = p]
    /\ timer_wheel' =
          [Removed(timer_wheel, t) EXCEPT ![Slot(entry[t].clock)] = Append(@, t)]

\* The entry leaves the list it is on for the slot of its new time.
Rescheduled(t, r, p, j) ==
    LET clock == olsr_getTimestamp(r - j)
    IN  /\ entry' = [entry EXCEPT ![t].clock = clock, ![t].period = p]
        /\ timer_wheel' = [Removed(timer_wheel, t) EXCEPT ![Slot(clock)] = Append(@, t)]

olsr_change_timer(t, r, p) ==
    /\ walk.at # "slot"
    /\ t \in Running
    /\ \E j \in Jitters(r) : Rescheduled(t, r, p, j)
    /\ walk' = [walk EXCEPT !.tmp = Unlinked(@, t)]
    /\ UNCHANGED <<now_times, timer_last_run, free_list>>

\* The entry leaves its list, is marked as not running and freed.
Stopped(t) ==
    /\ entry' = [entry EXCEPT ![t] = NotRunning]
    /\ timer_wheel' = Removed(timer_wheel, t)
    /\ free_list' = Freed(t)

olsr_stop_timer(t) ==
    /\ walk.at # "slot"
    /\ t \in Running
    /\ Stopped(t)
    /\ walk' = [walk EXCEPT !.tmp = Unlinked(@, t)]
    /\ UNCHANGED <<now_times, timer_last_run>>
-----------------------------------------------------------------------------
(* walk_timers                                                             *)

MutantMoreSlots ==
    timer_last_run < now_times /\ walk.slots < TIMER_WHEEL_SLOTS

\* The condition of the loop over the slots.
MoreSlots ==
    timer_last_run <= now_times /\ walk.slots < TIMER_WHEEL_SLOTS

\* The slot the walk is in.
ThisSlot == Slot(timer_last_run)

WalkBegins ==
    /\ walk.at = "idle"
    /\ walk' = [NoWalk EXCEPT !.at = "slot"]
    /\ UNCHANGED <<now_times, timer_last_run, timer_wheel, entry, free_list>>

\* The first entry of the slot moves to the list of walked ones; a timer that
\* is due is called back.
WalkTimer ==
    /\ walk.at = "slot"
    /\ MoreSlots
    /\ timer_wheel[ThisSlot] # << >>
    /\ LET t == Head(timer_wheel[ThisSlot])
           due == olsr_isTimedOut(entry[t].clock)
       IN  /\ timer_wheel' = [timer_wheel EXCEPT ![ThisSlot] = Tail(@)]
           /\ walk' = [walk EXCEPT !.tmp = <<t>> \o @,
                                   !.at = IF due THEN "cb" ELSE "slot",
                                   !.timer = IF due THEN t ELSE NoTimer]
    /\ UNCHANGED <<now_times, timer_last_run, entry, free_list>>

\* The callback returned: a timer that still runs is armed again or stopped.
CallbackReturns ==
    /\ walk.at = "cb"
    /\ LET t == walk.timer
       IN  /\ \/ /\ t \in Running
                 /\ entry[t].period > 0
                 /\ \E j \in Jitters(entry[t].period) :
                       Rescheduled(t, entry[t].period, entry[t].period, j)
                 /\ UNCHANGED free_list
              \/ /\ t \in Running
                 /\ entry[t].period = 0
                 /\ Stopped(t)
              \/ /\ t \notin Running
                 /\ UNCHANGED <<timer_wheel, entry, free_list>>
           /\ walk' = [walk EXCEPT !.at = "slot", !.timer = NoTimer,
                          !.tmp = IF t \in Running THEN Unlinked(@, t) ELSE @]
    /\ UNCHANGED <<now_times, timer_last_run>>

\* The walked entries return to their slot and the walk goes on to the next.
SlotWalked ==
    /\ walk.at = "slot"
    /\ MoreSlots
    /\ timer_wheel[ThisSlot] = << >>
    /\ timer_wheel' = [timer_wheel EXCEPT ![ThisSlot] = walk.tmp]
    /\ timer_last_run' = (timer_last_run + 1) % CLOCK_MOD
    /\ walk' = [walk EXCEPT !.tmp = << >>, !.slots = @ + 1]
    /\ UNCHANGED <<now_times, entry, free_list>>

WalkEnds ==
    /\ walk.at = "slot"
    /\ ~MoreSlots
    /\ timer_last_run' = now_times
    /\ walk' = [NoWalk EXCEPT !.at = "walked"]
    /\ UNCHANGED <<now_times, timer_wheel, entry, free_list>>

walk_timers ==
    WalkBegins \/ WalkTimer \/ CallbackReturns \/ SlotWalked \/ WalkEnds

User ==
    \/ \E r \in Rels : \E p \in Periods(r) : olsr_start_timer(r, p)
    \/ \E t \in Blocks, r \in Rels : \E p \in Periods(r) : olsr_change_timer(t, r, p)
    \/ \E t \in Blocks : olsr_stop_timer(t)

Next == User \/ olsr_times \/ walk_timers

Spec == Init /\ [][Next]_vars

\* The main loop never ends and callbacks return; users need not do anything.
FairSpec ==
    /\ Spec
    /\ WF_vars(olsr_times)
    /\ WF_vars(walk_timers)
-----------------------------------------------------------------------------
(* Properties                                                              *)

TypeOK ==
    /\ now_times \in 0..(CLOCK_MOD - 1)
    /\ timer_last_run \in 0..(CLOCK_MOD - 1)
    /\ timer_wheel \in [Slots -> Seq(Blocks)]
    /\ entry \in [Blocks -> [clock : 0..(CLOCK_MOD - 1), period : {0} \cup Rels,
                             running : BOOLEAN]]
    /\ free_list \in Seq(Blocks)
    /\ walk \in [at : {"idle", "slot", "cb", "walked"}, tmp : Seq(Blocks),
                 timer : Blocks \cup {NoTimer}, slots : 0..TIMER_WHEEL_SLOTS]

\* Types, and: a running timer is on exactly one list, the slot of its time or
\* the list of walked entries, and a block that was freed is on none, whatever
\* the callbacks of the slot being walked stop, change or start.
WheelExact ==
    /\ TypeOK
    /\ \A q \in Range(timer_wheel) \cup {walk.tmp, free_list} : IsInjective(q)
    /\ \A t \in Blocks, s \in Slots :
          t \in Range(timer_wheel[s]) <=>
            t \in Running /\ s = Slot(entry[t].clock) /\ t \notin Range(walk.tmp)
    /\ Range(walk.tmp) \subseteq Running
    /\ Range(free_list) \cap Running = {}

\* After a walk no timer is due, except in the first round of the wheel after
\* the clock has wrapped: there the slots between the old and the new clock
\* are skipped, and the timers in them are late by less than a round.
LateOnlyAfterWrap ==
    walk.at = "walked" =>
        \A t \in Running : olsr_isTimedOut(entry[t].clock) =>
            /\ now_times < TIMER_WHEEL_SLOTS + MAX_STALL
            /\ Due(entry[t].clock) > -(TIMER_WHEEL_SLOTS + MAX_STALL)

\* The wheel implements the deadlines its users rely on: only due timers are
\* called back, each one-shot timer once, no timer gets lost in the walk and
\* none is stopped or armed by it that the callback had freed.
D == INSTANCE Deadlines WITH
        Timers <- Blocks,
        left   <- [t \in Running |-> Due(entry[t].clock)],
        period <- [t \in Running |-> entry[t].period],
        firing <- walk.timer
Implements == D!Spec

\* The walk ends, whatever its callbacks start or move into the slot that is
\* being walked: no timer can keep the main loop inside.
WalkTerminates == (walk.at = "slot") ~> (walk.at = "walked")
=============================================================================
