------------------------------ MODULE Deadlines ------------------------------
(***************************************************************************)
(* What the timers of scheduler.c promise to their users: a set of pending *)
(* timers, each with the time that is left until it is due.  A timer is     *)
(* called back only when it is due, one timer at a time.  After its         *)
(* callback a one-shot timer is gone and a periodic one is armed again,     *)
(* unless the callback itself stopped it.  Nothing else ends a timer than   *)
(* its callback or a request of its user.                                   *)
(***************************************************************************)
EXTENDS Integers

CONSTANTS
    Timers, NoTimer,
    Rels,           \* the times users ask for
    Gaps,           \* how far the clock moves at a time
    JITTER_PCT      \* the largest part of a time that is cut off at random

VARIABLES
    left,       \* pending timer -> time until it is due; negative: overdue
    period,     \* pending timer -> its period, 0 for a one-shot timer
    firing      \* the timer whose callback runs, or NoTimer

vars == <<left, period, firing>>

Pending == DOMAIN left

Arm(f, t, v) == [x \in DOMAIN f \cup {t} |-> IF x = t THEN v ELSE f[x]]
Disarm(f, t) == [x \in DOMAIN f \ {t} |-> f[x]]

Periods(r) == {0, r}
Jitters(r) == 0..((JITTER_PCT * r) \div 100)

Init ==
    /\ left = << >>
    /\ period = << >>
    /\ firing = NoTimer

\* A user starts a timer, or moves one it has; not the one called back that
\* it stopped a moment ago.
Set(t, r, p) ==
    /\ t \in Pending \/ t # firing
    /\ \E j \in Jitters(r) : left' = Arm(left, t, r - j)
    /\ period' = Arm(period, t, p)
    /\ UNCHANGED firing

Stop(t) ==
    /\ t \in Pending
    /\ left' = Disarm(left, t)
    /\ period' = Disarm(period, t)
    /\ UNCHANGED firing

Fire(t) ==
    /\ firing = NoTimer
    /\ t \in Pending
    /\ left[t] <= 0
    /\ firing' = t
    /\ UNCHANGED <<left, period>>

Return ==
    /\ firing # NoTimer
    /\ firing' = NoTimer
    /\ \/ firing \notin Pending /\ UNCHANGED <<left, period>>
       \/ /\ firing \in Pending
          /\ period[firing] = 0
          /\ left' = Disarm(left, firing)
          /\ period' = Disarm(period, firing)
       \/ /\ firing \in Pending
          /\ period[firing] > 0
          /\ \E j \in Jitters(period[firing]) :
                left' = [left EXCEPT ![firing] = period[firing] - j]
          /\ UNCHANGED period

\* Time passes, but not while a callback runs: the clock is read between them.
Tick ==
    /\ firing = NoTimer
    /\ \E d \in Gaps : left' = [t \in Pending |-> left[t] - d]
    /\ UNCHANGED <<period, firing>>

Next ==
    \/ \E t \in Timers, r \in Rels : \E p \in Periods(r) : Set(t, r, p)
    \/ \E t \in Timers : Stop(t) \/ Fire(t)
    \/ Return
    \/ Tick

Spec == Init /\ [][Next]_vars
=============================================================================
