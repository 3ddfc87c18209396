---------------------------- MODULE TimersProofs ----------------------------
(***************************************************************************)
(* Proofs about Timers, for every set of blocks, every number of slots and *)
(* every range of the clock: the wheel is exact, timers are late only      *)
(* after the clock has wrapped, and Timers implements Deadlines.           *)
(*                                                                         *)
(* The last two rest on one invariant, PendingInv: a timer that is due and *)
(* was not called yet is in a slot that the walk is still to visit.        *)
(***************************************************************************)
EXTENDS Timers, NumberFacts, SequenceTheorems, TLAPS

(* The invariants. *)

\* Lists w of the slots and tmp of the walk hold each block of R once, the
\* walked ones in tmp and the others in the slot that sl gives for them.
Filed(w, R, sl, tmp) ==
    /\ w \in [Slots -> Seq(Blocks)] /\ tmp \in Seq(Blocks)
    /\ \A s \in Slots : IsInjective(w[s])
    /\ IsInjective(tmp)
    /\ \A t \in Blocks, s \in Slots :
          t \in Range(w[s]) <=> t \in R /\ s = sl[t] /\ t \notin Range(tmp)
    /\ Range(tmp) \subseteq R

SlotOf(e) == [t \in Blocks |-> Slot(e[t].clock)]

\* WheelExact with what relates the lists to the position of the walk.
WheelInv ==
    /\ TypeOK
    /\ Filed(timer_wheel, Running, SlotOf(entry), walk.tmp)
    /\ IsInjective(free_list) /\ Range(free_list) \cap Running = {}
    /\ walk.at \in {"idle", "walked"} => Range(walk.tmp) = {} /\ walk.slots = 0
    /\ walk.timer = NoTimer <=> walk.at # "cb"
    /\ \A t \in Range(walk.tmp) : MoreSlots /\ SlotOf(entry)[t] = ThisSlot

Times == 0..(CLOCK_MOD - 1)

\* Timer t runs and is set to time c.
Armed(t, c) == t \in Running /\ entry[t].clock = c

\* The time since the last walk.
Lag == (now_times - timer_last_run) % CLOCK_MOD

Horizon == TIMER_WHEEL_SLOTS + MAX_STALL

\* i is a time at which the walk comes to the slot of clock c.
Visits(c, i) ==
    /\ Slot(i) = Slot(c)
    /\ timer_last_run <= i
    /\ i - timer_last_run < TIMER_WHEEL_SLOTS - walk.slots

\* A timer of clock c that was skipped when the clock wrapped waits for time i.
Skipped(c, i) ==
    /\ i < Horizon
    /\ i - now_times < TIMER_WHEEL_SLOTS
    /\ Due(c) + now_times - i > -Horizon

\* Between two walks: c was not due at the last one, or was skipped.
WaitsIdle(c) ==
    \/ Due(c) + Lag > 0
    \/ \E i \in Nat : Visits(c, i) /\ Skipped(c, i)

\* During a walk: c is not due, or the walk is about to be skipped, or it will
\* come to the slot of c.
WaitsWalk(c) ==
    \/ Due(c) > 0
    \/ walk.slots = 0 /\ timer_last_run > now_times /\ now_times < MAX_STALL /\ Due(c) > -MAX_STALL
    \/ \E i \in Nat : Visits(c, i) /\ (i <= now_times \/ Skipped(c, i))

PendingInv ==
    /\ \A t \in Blocks, c \in Times : Armed(t, c) => Due(c) > -(Horizon + MAX_STALL)
    /\ walk.at \in {"idle", "walked"} =>
          Lag <= MAX_STALL /\ \A t \in Blocks, c \in Times : Armed(t, c) => WaitsIdle(c)
    /\ walk.at = "walked" => timer_last_run = now_times
    /\ walk.at \in {"slot", "cb"} =>
          \A t \in Blocks \ {walk.timer}, c \in Times : Armed(t, c) =>
              /\ t \in Range(walk.tmp) => Due(c) > 0
              /\ WaitsWalk(c)

(* Lists of entries. *)

\* Removing the entry at position i.
LEMMA RemoveAtIndex ==
    ASSUME NEW B, NEW q \in Seq(B), NEW i \in 1 .. Len(q)
    PROVE  /\ RemoveAt(q, i) \in Seq(B)
           /\ Len(RemoveAt(q, i)) = Len(q) - 1
           /\ \A k \in 1 .. Len(q) - 1 :
                 RemoveAt(q, i)[k] = IF k < i THEN q[k] ELSE q[k + 1]
<1> DEFINE a == SubSeq(q, 1, i - 1)
           b == SubSeq(q, i + 1, Len(q))
<1>1. a \in Seq(B) /\ Len(a) = i - 1 /\ \A k \in 1 .. i - 1 : a[k] = q[k]
  OBVIOUS
<1>2. b \in Seq(B) /\ Len(b) = Len(q) - i /\ \A k \in 1 .. Len(q) - i : b[k] = q[k + i]
  OBVIOUS
<1> HIDE DEF a, b
<1>3. /\ a \o b \in Seq(B) /\ Len(a \o b) = Len(q) - 1
      /\ \A k \in 1 .. Len(q) - 1 : (a \o b)[k] = IF k < i THEN a[k] ELSE b[k - (i - 1)]
  <2>1. /\ a \o b \in Seq(B) /\ Len(a \o b) = Len(a) + Len(b)
        /\ \A k \in 1 .. Len(a) + Len(b) :
              (a \o b)[k] = IF k <= Len(a) THEN a[k] ELSE b[k - Len(a)]
    BY <1>1, <1>2, ConcatProperties
  <2> QED BY <1>1, <1>2, <2>1
<1>4. ASSUME NEW k \in 1 .. Len(q) - 1
      PROVE  (a \o b)[k] = IF k < i THEN q[k] ELSE q[k + 1]
  <2>1. CASE k < i
    BY <1>1, <1>3, <2>1
  <2>2. CASE k >= i
    <3>1. k - (i - 1) \in 1 .. Len(q) - i /\ (k - (i - 1)) + i = k + 1
      BY <2>2
    <3> QED BY <1>2, <1>3, <2>2, <3>1
  <2>3. k < i \/ k >= i
    OBVIOUS
  <2> QED BY <2>1, <2>2, <2>3
<1> QED BY <1>3, <1>4 DEF RemoveAt, a, b

\* list_remove takes an entry off its list and leaves the others alone.
LEMMA UnlinkedList ==
    ASSUME NEW B, NEW q \in Seq(B), NEW t, IsInjective(q)
    PROVE  /\ Unlinked(q, t) \in Seq(B)
           /\ IsInjective(Unlinked(q, t))
           /\ Range(Unlinked(q, t)) = Range(q) \ {t}
<1>1. CASE t \notin Range(q)
  BY <1>1 DEF Unlinked
<1>2. CASE t \in Range(q)
  <2> DEFINE i == CHOOSE k \in DOMAIN q : q[k] = t
             u == RemoveAt(q, i)
  <2>1. i \in 1 .. Len(q) /\ q[i] = t
    BY <1>2 DEF Range
  <2> HIDE DEF i
  <2>2. /\ u \in Seq(B) /\ Len(u) = Len(q) - 1
        /\ \A k \in 1 .. Len(q) - 1 : u[k] = IF k < i THEN q[k] ELSE q[k + 1]
    BY <2>1, RemoveAtIndex
  <2> HIDE DEF u
  <2>3. \A k \in 1 .. Len(q) : k # i => q[k] # t
    BY <2>1 DEF IsInjective
  <2>4. DOMAIN u = 1 .. Len(q) - 1 /\ DOMAIN q = 1 .. Len(q) /\ Len(q) \in Nat
    BY <2>2
  <2>5. IsInjective(u)
    <3> SUFFICES ASSUME NEW a \in 1 .. Len(q) - 1, NEW b \in 1 .. Len(q) - 1, u[a] = u[b]
                 PROVE  a = b
      BY <2>4 DEF IsInjective
    <3> DEFINE f(k) == IF k < i THEN k ELSE k + 1
    <3>1. /\ f(a) \in 1 .. Len(q) /\ f(b) \in 1 .. Len(q)
          /\ u[a] = q[f(a)] /\ u[b] = q[f(b)]
      BY <2>1, <2>2, <2>4
    <3>2. f(a) = f(b)
      BY <2>4, <3>1 DEF IsInjective
    <3> QED BY <2>1, <2>4, <3>2
  <2>6. \A x \in Range(u) : x \in Range(q) /\ x # t
    <3> SUFFICES ASSUME NEW k \in 1 .. Len(q) - 1
                 PROVE  u[k] \in Range(q) /\ u[k] # t
      BY <2>4 DEF Range
    <3> DEFINE j == IF k < i THEN k ELSE k + 1
    <3>1. j \in 1 .. Len(q) /\ j # i /\ u[k] = q[j]
      BY <2>1, <2>2, <2>4
    <3> QED BY <2>3, <2>4, <3>1 DEF Range
  <2>7. \A x \in Range(q) : x # t => x \in Range(u)
    <3> SUFFICES ASSUME NEW k \in 1 .. Len(q), q[k] # t
                 PROVE  q[k] \in Range(u)
      BY <2>4 DEF Range
    <3>1. k # i
      BY <2>1
    <3> DEFINE j == IF k < i THEN k ELSE k - 1
    <3>2. j \in 1 .. Len(q) - 1 /\ u[j] = q[k]
      BY <2>1, <2>2, <2>4, <3>1
    <3> QED BY <2>4, <3>2 DEF Range
  <2> QED BY <1>2, <2>2, <2>5, <2>6, <2>7 DEF Unlinked, i, u
<1> QED BY <1>1, <1>2

\* list_add_before: a new entry at the end.
LEMMA AppendedList ==
    ASSUME NEW B, NEW q \in Seq(B), NEW t \in B, IsInjective(q), t \notin Range(q)
    PROVE  /\ Append(q, t) \in Seq(B)
           /\ IsInjective(Append(q, t))
           /\ Range(Append(q, t)) = Range(q) \cup {t}
<1> DEFINE u == Append(q, t)
<1>1. /\ u \in Seq(B) /\ Len(u) = Len(q) + 1 /\ DOMAIN u = 1 .. Len(q) + 1
      /\ \A k \in 1 .. Len(q) : u[k] = q[k]
      /\ u[Len(q) + 1] = t
  BY AppendProperties, LenProperties
<1>2. DOMAIN q = 1 .. Len(q) /\ Len(q) \in Nat
  OBVIOUS
<1> HIDE DEF u
<1>3. IsInjective(u)
  BY <1>1, <1>2 DEF IsInjective, Range
<1>4. Range(u) = Range(q) \cup {t}
  <2>1. \A k \in 1 .. Len(q) + 1 : k \in 1 .. Len(q) \/ k = Len(q) + 1
    BY <1>2
  <2>2. 1 .. Len(q) \subseteq 1 .. Len(q) + 1 /\ Len(q) + 1 \in 1 .. Len(q) + 1
    BY <1>2
  <2> QED BY <1>1, <1>2, <2>1, <2>2 DEF Range
<1> QED BY <1>1, <1>3, <1>4 DEF u

\* list_add_after: a new entry at the front.
LEMMA PrependedList ==
    ASSUME NEW B, NEW q \in Seq(B), NEW t \in B, IsInjective(q), t \notin Range(q)
    PROVE  /\ <<t>> \o q \in Seq(B)
           /\ IsInjective(<<t>> \o q)
           /\ Range(<<t>> \o q) = Range(q) \cup {t}
<1> DEFINE u == <<t>> \o q
<1>1. /\ u \in Seq(B) /\ Len(u) = Len(q) + 1 /\ DOMAIN u = 1 .. Len(q) + 1
      /\ u[1] = t
      /\ \A k \in 2 .. Len(q) + 1 : u[k] = q[k - 1]
  <2> DEFINE a == <<t>>
  <2>1. a \in Seq(B) /\ Len(a) = 1 /\ a[1] = t
    OBVIOUS
  <2> HIDE DEF a
  <2>2. /\ a \o q \in Seq(B) /\ Len(a \o q) = Len(a) + Len(q)
        /\ \A k \in 1 .. Len(a) + Len(q) :
              (a \o q)[k] = IF k <= Len(a) THEN a[k] ELSE q[k - Len(a)]
    BY <2>1, ConcatProperties
  <2>3. DOMAIN (a \o q) = 1 .. Len(a \o q)
    BY <2>2
  <2>4. Len(q) \in Nat
    OBVIOUS
  <2>5. /\ a \o q \in Seq(B) /\ Len(a \o q) = Len(q) + 1 /\ DOMAIN (a \o q) = 1 .. Len(q) + 1
        /\ (a \o q)[1] = t
        /\ \A k \in 2 .. Len(q) + 1 : (a \o q)[k] = q[k - 1]
    BY <2>1, <2>2, <2>3, <2>4
  <2> QED BY <2>5 DEF a
<1>2. DOMAIN q = 1 .. Len(q) /\ Len(q) \in Nat
  OBVIOUS
<1> HIDE DEF u
<1>3. \A k \in 1 .. Len(q) + 1 : k = 1 \/ (k \in 2 .. Len(q) + 1 /\ k - 1 \in 1 .. Len(q))
  BY <1>2
<1>4. IsInjective(u)
  <2> SUFFICES ASSUME NEW a \in 1 .. Len(q) + 1, NEW b \in 1 .. Len(q) + 1, u[a] = u[b]
               PROVE  a = b
    BY <1>1 DEF IsInjective
  <2>1. \A k \in 2 .. Len(q) + 1 : u[k] # t
    BY <1>1, <1>2, <1>3 DEF Range
  <2>2. CASE a # 1 /\ b # 1
    <3>1. a - 1 = b - 1
      BY <1>1, <1>2, <1>3, <2>2 DEF IsInjective
    <3> QED BY <3>1
  <2>3. CASE a = 1 \/ b = 1
    BY <1>1, <1>3, <2>1, <2>3
  <2> QED BY <2>2, <2>3
<1>5. Range(u) = Range(q) \cup {t}
  <2>1. \A k \in 1 .. Len(q) : k + 1 \in 2 .. Len(q) + 1 /\ (k + 1) - 1 = k
    BY <1>2
  <2>2. \A k \in 1 .. Len(q) : k + 1 \in DOMAIN u /\ u[k + 1] = q[k]
    BY <1>1, <1>2, <2>1
  <2>3. 1 \in DOMAIN u
    BY <1>1, <1>2
  <2>4. ASSUME NEW k \in DOMAIN u PROVE u[k] \in Range(q) \cup {t}
    <3>1. CASE k = 1
      BY <1>1, <3>1
    <3>2. CASE k # 1
      <4>1. k \in 2 .. Len(q) + 1 /\ k - 1 \in DOMAIN q
        BY <1>1, <1>2, <1>3, <3>2
      <4>2. u[k] = q[k - 1]
        BY <1>1, <4>1
      <4> QED BY <4>1, <4>2 DEF Range
    <3> QED BY <3>1, <3>2
  <2>5. ASSUME NEW k \in DOMAIN q PROVE q[k] \in Range(u)
    BY <1>2, <2>2 DEF Range
  <2>6. t \in Range(u)
    BY <1>1, <2>3 DEF Range
  <2>7. \A x \in Range(u) : x \in Range(q) \cup {t}
    BY <2>4 DEF Range
  <2>8. \A x \in Range(q) : x \in Range(u)
    BY <2>5 DEF Range
  <2> QED BY <2>6, <2>7, <2>8
<1> QED BY <1>1, <1>4, <1>5 DEF u

\* The first entry leaves its list.
LEMMA TailList ==
    ASSUME NEW B, NEW q \in Seq(B), IsInjective(q), q # << >>
    PROVE  /\ Head(q) \in B /\ Head(q) \in Range(q)
           /\ Tail(q) \in Seq(B)
           /\ IsInjective(Tail(q))
           /\ Range(Tail(q)) = Range(q) \ {Head(q)}
<1> DEFINE u == Tail(q)
<1>1. DOMAIN q = 1 .. Len(q) /\ Len(q) \in Nat /\ Len(q) >= 1 /\ Head(q) = q[1] /\ q[1] \in B
  BY EmptySeq
<1>2. /\ u \in Seq(B) /\ Len(u) = Len(q) - 1 /\ DOMAIN u = 1 .. Len(q) - 1
      /\ \A k \in 1 .. Len(q) - 1 : u[k] = q[k + 1]
  BY HeadTailProperties, LenProperties
<1> HIDE DEF u
<1>3. Head(q) \in Range(q)
  BY <1>1 DEF Range
<1>4. \A k \in 1 .. Len(q) - 1 : k + 1 \in 1 .. Len(q) /\ k + 1 # 1
  BY <1>1
<1>5. IsInjective(u)
  <2> SUFFICES ASSUME NEW a \in 1 .. Len(q) - 1, NEW b \in 1 .. Len(q) - 1, u[a] = u[b]
               PROVE  a = b
    BY <1>2 DEF IsInjective
  <2>1. a + 1 = b + 1
    BY <1>1, <1>2, <1>4 DEF IsInjective
  <2> QED BY <2>1
<1>6. ASSUME NEW k \in 1 .. Len(q) - 1 PROVE u[k] \in Range(q) /\ u[k] # Head(q)
  <2>1. u[k] = q[k + 1] /\ k + 1 \in DOMAIN q /\ 1 \in DOMAIN q /\ k + 1 # 1
    BY <1>1, <1>2, <1>4
  <2> QED BY <1>1, <2>1 DEF IsInjective, Range
<1>7. ASSUME NEW k \in 1 .. Len(q), q[k] # Head(q) PROVE q[k] \in Range(u)
  <2>1. k - 1 \in 1 .. Len(q) - 1 /\ (k - 1) + 1 = k
    BY <1>1, <1>7
  <2>2. u[k - 1] = q[k]
    BY <1>2, <2>1
  <2> QED BY <1>2, <2>1, <2>2 DEF Range
<1>8. Range(u) = Range(q) \ {Head(q)}
  <2>1. \A x \in Range(u) : x \in Range(q) /\ x # Head(q)
    BY <1>2, <1>6 DEF Range
  <2>2. \A x \in Range(q) : x # Head(q) => x \in Range(u)
    BY <1>1, <1>7 DEF Range
  <2> QED BY <2>1, <2>2
<1> QED BY <1>1, <1>2, <1>3, <1>5, <1>8 DEF u

\* The empty list.
LEMMA EmptyList == ASSUME NEW B PROVE << >> \in Seq(B) /\ IsInjective(<< >>) /\ Range(<< >>) = {}
BY DEF IsInjective, Range

(* The lists together. *)

LEMMA SlotInSlots == ASSUME NEW c \in Int PROVE Slot(c) \in Slots
<1>1. TIMER_WHEEL_SLOTS \in Nat /\ TIMER_WHEEL_SLOTS > 0
  BY TimersAssumption
<1> QED BY <1>1, ModRange DEF Slot, Slots

\* list_remove, whichever list the entry is on.
LEMMA UnlinkFiled ==
    ASSUME NEW w, NEW R, NEW sl, NEW tmp, Filed(w, R, sl, tmp), NEW t \in Blocks
    PROVE  Filed(Removed(w, t), R \ {t}, sl, Unlinked(tmp, t))
<1> DEFINE v == Removed(w, t)
<1>1. \A s \in Slots : /\ v[s] = Unlinked(w[s], t)
                       /\ v[s] \in Seq(Blocks) /\ IsInjective(v[s])
                       /\ Range(v[s]) = Range(w[s]) \ {t}
  BY UnlinkedList DEF Filed, Removed
<1>2. v \in [Slots -> Seq(Blocks)]
  BY <1>1 DEF Removed
<1>3. /\ Unlinked(tmp, t) \in Seq(Blocks) /\ IsInjective(Unlinked(tmp, t))
      /\ Range(Unlinked(tmp, t)) = Range(tmp) \ {t}
  BY UnlinkedList DEF Filed
<1> HIDE DEF v
<1> QED BY <1>1, <1>2, <1>3 DEF Filed, v

\* list_add_before into slot s.
LEMMA AppendFiled ==
    ASSUME NEW w, NEW R, NEW sl \in [Blocks -> Slots], NEW tmp, Filed(w, R, sl, tmp),
           NEW t \in Blocks, t \notin R, NEW s \in Slots
    PROVE  Filed([w EXCEPT ![s] = Append(@, t)], R \cup {t}, [sl EXCEPT ![t] = s], tmp)
<1> DEFINE v == [w EXCEPT ![s] = Append(@, t)]
           m == [sl EXCEPT ![t] = s]
<1>1. /\ Append(w[s], t) \in Seq(Blocks) /\ IsInjective(Append(w[s], t))
      /\ Range(Append(w[s], t)) = Range(w[s]) \cup {t}
  BY AppendedList DEF Filed
<1>2. v \in [Slots -> Seq(Blocks)] /\ v[s] = Append(w[s], t) /\ \A x \in Slots \ {s} : v[x] = w[x]
  BY <1>1 DEF Filed
<1>3. m[t] = s /\ \A x \in Blocks \ {t} : m[x] = sl[x]
  OBVIOUS
<1> HIDE DEF v, m
<1>4. \A x \in Slots : IsInjective(v[x])
  BY <1>1, <1>2 DEF Filed
<1>5. ASSUME NEW x \in Blocks, NEW y \in Slots
      PROVE  x \in Range(v[y]) <=> x \in R \cup {t} /\ y = m[x] /\ x \notin Range(tmp)
  <2>1. /\ x \in Range(w[y]) <=> x \in R /\ y = sl[x] /\ x \notin Range(tmp)
        /\ t \notin Range(tmp) /\ t \notin Range(w[y])
    BY DEF Filed
  <2>2. CASE y = s
    BY <1>1, <1>2, <1>3, <2>1, <2>2
  <2>3. CASE y # s
    <3>1. v[y] = w[y]
      BY <1>2, <2>3
    <3> QED BY <1>3, <2>1, <2>3, <3>1
  <2> QED BY <2>2, <2>3
<1> QED BY <1>2, <1>4, <1>5 DEF Filed, v, m

\* The first entry of slot s moves to the walked ones.
LEMMA WalkFiled ==
    ASSUME NEW w, NEW R, NEW sl, NEW tmp, Filed(w, R, sl, tmp),
           NEW s \in Slots, w[s] # << >>, NEW t, t = Head(w[s])
    PROVE  /\ t \in R /\ t \in Blocks /\ t \notin Range(tmp) /\ sl[t] = s
           /\ Filed([w EXCEPT ![s] = Tail(@)], R, sl, <<t>> \o tmp)
           /\ Range(<<t>> \o tmp) = Range(tmp) \cup {t}
<1> DEFINE v == [w EXCEPT ![s] = Tail(@)]
           u == <<t>> \o tmp
<1>1. /\ t \in Blocks /\ t \in Range(w[s])
      /\ Tail(w[s]) \in Seq(Blocks) /\ IsInjective(Tail(w[s]))
      /\ Range(Tail(w[s])) = Range(w[s]) \ {t}
  BY TailList DEF Filed
<1>2. v \in [Slots -> Seq(Blocks)] /\ v[s] = Tail(w[s]) /\ \A x \in Slots \ {s} : v[x] = w[x]
  BY <1>1 DEF Filed
<1> HIDE DEF v
<1>3. t \in R /\ t \notin Range(tmp) /\ sl[t] = s
  BY <1>1 DEF Filed
<1>4. u \in Seq(Blocks) /\ IsInjective(u) /\ Range(u) = Range(tmp) \cup {t}
  BY <1>1, <1>3, PrependedList DEF Filed
<1> HIDE DEF u
<1>5. \A x \in Slots : IsInjective(v[x])
  BY <1>1, <1>2 DEF Filed
<1>6. ASSUME NEW x \in Blocks, NEW y \in Slots
      PROVE  x \in Range(v[y]) <=> x \in R /\ y = sl[x] /\ x \notin Range(u)
  <2>1. x \in Range(w[y]) <=> x \in R /\ y = sl[x] /\ x \notin Range(tmp)
    BY DEF Filed
  <2>2. CASE y = s
    BY <1>1, <1>2, <1>4, <2>1, <2>2
  <2>3. CASE y # s
    <3>1. v[y] = w[y]
      BY <1>2, <2>3
    <3> QED BY <1>3, <1>4, <2>1, <2>3, <3>1
  <2> QED BY <2>2, <2>3
<1>7. Filed(v, R, sl, u)
  BY <1>2, <1>3, <1>4, <1>5, <1>6 DEF Filed
<1> QED BY <1>1, <1>3, <1>4, <1>7 DEF v, u

\* The walked entries return to their slot.
LEMMA ReturnFiled ==
    ASSUME NEW w, NEW R, NEW sl, NEW tmp, Filed(w, R, sl, tmp),
           NEW s \in Slots, w[s] = << >>, \A t \in Range(tmp) : sl[t] = s
    PROVE  Filed([w EXCEPT ![s] = tmp], R, sl, << >>)
<1> DEFINE v == [w EXCEPT ![s] = tmp]
<1>1. v \in [Slots -> Seq(Blocks)] /\ v[s] = tmp /\ \A x \in Slots \ {s} : v[x] = w[x]
  BY DEF Filed
<1>2. << >> \in Seq(Blocks) /\ IsInjective(<< >>) /\ Range(<< >>) = {}
  BY EmptyList
<1> HIDE DEF v
<1>3. \A x \in Slots : IsInjective(v[x])
  BY <1>1 DEF Filed
<1>4. ASSUME NEW x \in Blocks, NEW y \in Slots
      PROVE  x \in Range(v[y]) <=> x \in R /\ y = sl[x] /\ x \notin Range(<< >>)
  BY <1>1, <1>2 DEF Filed
<1> QED BY <1>1, <1>2, <1>3, <1>4 DEF Filed, v

\* A list of walked entries that is empty is as good as << >>.
LEMMA IdleFiled ==
    ASSUME NEW w, NEW R, NEW sl, NEW tmp, Filed(w, R, sl, tmp), Range(tmp) = {}
    PROVE  Filed(w, R, sl, << >>)
BY EmptyList DEF Filed

\* WheelInv is WheelExact and more.
LEMMA WheelInvExact == WheelInv => WheelExact
<1> SUFFICES ASSUME WheelInv PROVE WheelExact
  OBVIOUS
<1>1. \A q \in Range(timer_wheel) : IsInjective(q)
  BY DEF WheelInv, Filed, Range
<1>2. \A q \in {walk.tmp, free_list} : IsInjective(q)
  BY DEF WheelInv, Filed
<1>3. \A t \in Blocks, s \in Slots :
         t \in Range(timer_wheel[s]) <=>
            t \in Running /\ s = Slot(entry[t].clock) /\ t \notin Range(walk.tmp)
  BY DEF WheelInv, Filed, SlotOf
<1> QED BY <1>1, <1>2, <1>3 DEF WheelInv, Filed, WheelExact

(* The wheel is exact. *)

Entries == [clock : 0..(CLOCK_MOD - 1), period : {0} \cup Rels, running : BOOLEAN]

LEMMA ConstantFacts ==
    /\ CLOCK_MOD \in Nat /\ HALF \in Nat /\ CLOCK_MOD = 2 * HALF
    /\ TIMER_WHEEL_SLOTS \in Nat /\ TIMER_WHEEL_SLOTS > 0 /\ MAX_STALL \in Nat
    /\ TIMER_WHEEL_SLOTS + 2 * MAX_STALL <= HALF
    /\ Rels \subseteq 1..(HALF - 1)
    /\ Gaps \subseteq 1..MAX_STALL
    /\ JITTER_PCT \in 0..99
    /\ NoTimer \notin Blocks
BY TimersAssumption DEF HALF

LEMMA TimestampType ==
    ASSUME TypeOK, NEW r \in Rels, NEW j \in Jitters(r)
    PROVE  olsr_getTimestamp(r - j) \in 0..(CLOCK_MOD - 1)
<1>1. r \in Int /\ j \in Int /\ now_times \in Int
  BY ConstantFacts DEF Jitters, TypeOK
<1>2. now_times + (r - j) \in Int /\ CLOCK_MOD > 0
  BY <1>1, ConstantFacts
<1> QED BY <1>2, ConstantFacts, ModRange DEF olsr_getTimestamp

\* An entry that is written.
LEMMA WriteEntry ==
    ASSUME TypeOK, NEW t \in Blocks, NEW v \in Entries,
           entry' = [entry EXCEPT ![t] = v]
    PROVE  /\ entry' \in [Blocks -> Entries]
           /\ entry'[t] = v /\ \A x \in Blocks \ {t} : entry'[x] = entry[x]
           /\ SlotOf(entry)' = [SlotOf(entry) EXCEPT ![t] = Slot(v.clock)]
           /\ Running' = IF v.running THEN Running \cup {t} ELSE Running \ {t}
           /\ SlotOf(entry) \in [Blocks -> Slots]
<1>1. entry \in [Blocks -> Entries]
  BY DEF TypeOK, Entries
<1>2. entry' \in [Blocks -> Entries] /\ entry'[t] = v /\ \A x \in Blocks \ {t} : entry'[x] = entry[x]
  BY <1>1
<1>3. SlotOf(entry)' = [SlotOf(entry) EXCEPT ![t] = Slot(v.clock)]
  BY <1>2 DEF SlotOf
<1>4. Running' = IF v.running THEN Running \cup {t} ELSE Running \ {t}
  <2>1. \A x \in Blocks \ {t} : x \in Running' <=> x \in Running
    BY <1>2 DEF Running
  <2>2. t \in Running' <=> v.running
    BY <1>2 DEF Running
  <2>3. Running \subseteq Blocks /\ Running' \subseteq Blocks
    BY DEF Running
  <2> QED BY <2>1, <2>2, <2>3
<1>5. SlotOf(entry) \in [Blocks -> Slots]
  <2>1. \A x \in Blocks : entry[x].clock \in Int
    BY <1>1, ConstantFacts DEF Entries
  <2> QED BY <2>1, SlotInSlots DEF SlotOf
<1> QED BY <1>2, <1>3, <1>4, <1>5

\* A timer moves to its new time.
LEMMA RescheduledWheel ==
    ASSUME TypeOK, Filed(timer_wheel, Running, SlotOf(entry), walk.tmp),
           NEW t \in Running, NEW r \in Rels, NEW p \in Periods(r), NEW j \in Jitters(r),
           Rescheduled(t, r, p, j)
    PROVE  /\ entry' \in [Blocks -> Entries] /\ Running' = Running
           /\ entry'[t].clock = olsr_getTimestamp(r - j) /\ entry'[t].period = p
           /\ \A x \in Blocks \ {t} : entry'[x] = entry[x]
           /\ Filed(timer_wheel', Running', SlotOf(entry)', Unlinked(walk.tmp, t))
<1> DEFINE c == olsr_getTimestamp(r - j)
           v == [clock |-> c, period |-> p, running |-> TRUE]
           w == Removed(timer_wheel, t)
<1>1. c \in 0..(CLOCK_MOD - 1) /\ Slot(c) \in Slots
  <2>1. c \in 0..(CLOCK_MOD - 1)
    BY TimestampType
  <2>2. c \in Int
    BY <2>1, ConstantFacts
  <2> QED BY <2>1, <2>2, SlotInSlots
<1>2. t \in Blocks /\ entry[t].running /\ entry \in [Blocks -> Entries]
  BY DEF Running, TypeOK, Entries
<1>3. /\ entry' = [entry EXCEPT ![t].clock = c, ![t].period = p]
      /\ timer_wheel' = [w EXCEPT ![Slot(c)] = Append(@, t)]
  BY DEF Rescheduled
<1> HIDE DEF c, w
<1>4. v \in Entries
  BY <1>1 DEF Entries, Periods
<1>5. entry' = [entry EXCEPT ![t] = v]
  <2>1. entry[t].running = TRUE
    BY <1>2 DEF Entries
  <2> DEFINE e == entry[t]
             n == [[e EXCEPT !.clock = c] EXCEPT !.period = p]
  <2>2. n = v
    <3>1. e \in Entries
      BY <1>2
    <3>2. n \in Entries
      BY <1>1, <3>1 DEF Entries, Periods
    <3>3. n.clock = v.clock /\ n.period = v.period /\ n.running = v.running
      BY <2>1, <3>1 DEF Entries
    <3> QED BY <1>4, <3>2, <3>3 DEF Entries
  <2>3. entry' = [entry EXCEPT ![t] = n]
    BY <1>2, <1>3
  <2> QED BY <2>2, <2>3
<1>6. /\ entry' \in [Blocks -> Entries]
      /\ entry'[t] = v /\ \A x \in Blocks \ {t} : entry'[x] = entry[x]
      /\ SlotOf(entry)' = [SlotOf(entry) EXCEPT ![t] = Slot(v.clock)]
      /\ Running' = IF v.running THEN Running \cup {t} ELSE Running \ {t}
      /\ SlotOf(entry) \in [Blocks -> Slots]
  <2> HIDE DEF v
  <2> QED BY <1>2, <1>4, <1>5, WriteEntry
<1>7. v.running /\ v.clock = c /\ v.period = p
  OBVIOUS
<1> HIDE DEF v
<1>8. Running' = Running
  BY <1>6, <1>7
<1>9. Filed(w, Running \ {t}, SlotOf(entry), Unlinked(walk.tmp, t))
  BY <1>2, UnlinkFiled DEF w
<1>10. Filed([w EXCEPT ![Slot(c)] = Append(@, t)], (Running \ {t}) \cup {t},
             [SlotOf(entry) EXCEPT ![t] = Slot(c)], Unlinked(walk.tmp, t))
  BY <1>1, <1>2, <1>6, <1>9, AppendFiled
<1>11. (Running \ {t}) \cup {t} = Running'
  BY <1>8
<1>12. Filed(timer_wheel', Running', SlotOf(entry)', Unlinked(walk.tmp, t))
  BY <1>3, <1>6, <1>7, <1>10, <1>11
<1> QED BY <1>6, <1>7, <1>8, <1>12 DEF c

\* A timer is stopped and its block kept or given back.
LEMMA StoppedWheel ==
    ASSUME TypeOK, Filed(timer_wheel, Running, SlotOf(entry), walk.tmp),
           IsInjective(free_list), Range(free_list) \cap Running = {},
           NEW t \in Running, Stopped(t)
    PROVE  /\ entry' \in [Blocks -> Entries] /\ Running' = Running \ {t}
           /\ \A x \in Blocks \ {t} : entry'[x] = entry[x]
           /\ Filed(timer_wheel', Running', SlotOf(entry)', Unlinked(walk.tmp, t))
           /\ free_list' \in Seq(Blocks) /\ IsInjective(free_list')
           /\ Range(free_list') \cap Running' = {}
<1>1. t \in Blocks /\ free_list \in Seq(Blocks)
  BY DEF Running, TypeOK
<1>2. NotRunning \in Entries /\ ~NotRunning.running
  <2>1. 0 \in 0..(CLOCK_MOD - 1)
    BY ConstantFacts
  <2> QED BY <2>1 DEF NotRunning, Entries
<1>3. /\ entry' = [entry EXCEPT ![t] = NotRunning]
      /\ timer_wheel' = Removed(timer_wheel, t)
      /\ free_list' = Freed(t)
  BY DEF Stopped
<1>4. /\ entry' \in [Blocks -> Entries]
      /\ \A x \in Blocks \ {t} : entry'[x] = entry[x]
      /\ SlotOf(entry)' = [SlotOf(entry) EXCEPT ![t] = Slot(NotRunning.clock)]
      /\ Running' = Running \ {t}
  BY <1>1, <1>2, <1>3, WriteEntry
<1>5. Filed(timer_wheel', Running \ {t}, SlotOf(entry), Unlinked(walk.tmp, t))
  BY <1>1, <1>3, UnlinkFiled
<1>6. \A x \in Running \ {t} : SlotOf(entry)'[x] = SlotOf(entry)[x]
  BY <1>4 DEF Running, SlotOf
<1>7. Filed(timer_wheel', Running', SlotOf(entry)', Unlinked(walk.tmp, t))
  BY <1>4, <1>5, <1>6 DEF Filed
<1>8. /\ free_list' \in Seq(Blocks) /\ IsInjective(free_list')
      /\ Range(free_list') \cap Running' = {}
  <2>1. CASE free_list' = free_list
    BY <1>1, <1>4, <2>1
  <2>2. CASE free_list' = Append(free_list, t)
    <3>1. t \notin Range(free_list)
      OBVIOUS
    <3> QED BY <1>1, <1>4, <2>2, <3>1, AppendedList
  <2> QED BY <1>3, <2>1, <2>2 DEF Freed
<1> QED BY <1>4, <1>7, <1>8

Walks == [at : {"idle", "slot", "cb", "walked"}, tmp : Seq(Blocks),
          timer : Blocks \cup {NoTimer}, slots : 0..TIMER_WHEEL_SLOTS]

LEMMA WheelInit == Init => WheelInv
<1> SUFFICES ASSUME Init PROVE WheelInv
  OBVIOUS
<1> USE DEF Init
<1>1. << >> \in Seq(Blocks) /\ IsInjective(<< >>) /\ Range(<< >>) = {}
  BY EmptyList
<1>2. NotRunning \in Entries /\ ~NotRunning.running
  <2>1. 0 \in 0..(CLOCK_MOD - 1)
    BY ConstantFacts
  <2> QED BY <2>1 DEF NotRunning, Entries
<1>3. NoWalk \in Walks
  <2>1. 0 \in 0..TIMER_WHEEL_SLOTS
    BY ConstantFacts
  <2> QED BY <1>1, <2>1 DEF NoWalk, Walks
<1>4. /\ walk.tmp = << >> /\ walk.at = "idle" /\ walk.timer = NoTimer /\ walk.slots = 0
  BY DEF NoWalk
<1>5. Running = {}
  BY <1>2 DEF Running
<1>6. TypeOK
  BY <1>1, <1>2, <1>3 DEF TypeOK, Walks, Entries
<1>7. Filed(timer_wheel, Running, SlotOf(entry), walk.tmp)
  BY <1>1, <1>4, <1>5 DEF Filed
<1> QED BY <1>1, <1>4, <1>5, <1>6, <1>7 DEF WheelInv

\* Each step preserves WheelInv.
LEMMA WheelStep == ASSUME WheelInv, [Next]_vars PROVE WheelInv'
<1>1. /\ TypeOK /\ Filed(timer_wheel, Running, SlotOf(entry), walk.tmp)
      /\ IsInjective(free_list) /\ Range(free_list) \cap Running = {}
      /\ walk.at \in {"idle", "walked"} => Range(walk.tmp) = {} /\ walk.slots = 0
      /\ walk.timer = NoTimer <=> walk.at # "cb"
      /\ \A t \in Range(walk.tmp) : MoreSlots /\ SlotOf(entry)[t] = ThisSlot
  BY DEF WheelInv
<1>2. /\ now_times \in 0..(CLOCK_MOD - 1) /\ timer_last_run \in 0..(CLOCK_MOD - 1)
      /\ timer_wheel \in [Slots -> Seq(Blocks)] /\ entry \in [Blocks -> Entries]
      /\ free_list \in Seq(Blocks) /\ walk \in Walks /\ Running \subseteq Blocks
      /\ ThisSlot \in Slots /\ walk.tmp \in Seq(Blocks)
  <2>1. now_times \in 0..(CLOCK_MOD - 1) /\ timer_last_run \in 0..(CLOCK_MOD - 1)
    BY <1>1 DEF TypeOK
  <2>2. timer_last_run \in Int
    BY <2>1, ConstantFacts
  <2> QED BY <1>1, <2>1, <2>2, SlotInSlots DEF TypeOK, Entries, Walks, Running, ThisSlot
<1>3. \A x : x % CLOCK_MOD \in 0..(CLOCK_MOD - 1) \/ x \notin Int
  BY ConstantFacts, ModRange, <1>2
<1>4. NoWalk \in Walks /\ NoWalk.tmp = << >> /\ NoWalk.slots = 0 /\ NoWalk.timer = NoTimer /\ NoWalk.at = "idle"
  <2>1. 0 \in 0..TIMER_WHEEL_SLOTS
    BY ConstantFacts
  <2> QED BY <2>1, EmptyList DEF NoWalk, Walks
<1>5. ASSUME NEW r \in Rels, NEW p \in Periods(r), olsr_start_timer(r, p)
      PROVE  WheelInv'
  <2>1. PICK t \in olsr_cookie_malloc, j \in Jitters(r) :
           LET clock == olsr_getTimestamp(r - j)
           IN  /\ entry' = [entry EXCEPT
                     ![t] = [clock |-> clock, period |-> p, running |-> TRUE]]
               /\ timer_wheel' = [timer_wheel EXCEPT ![Slot(clock)] = Append(@, t)]
               /\ free_list' = IF free_list = << >> THEN << >> ELSE Tail(free_list)
    BY <1>5 DEF olsr_start_timer
  <2> DEFINE c == olsr_getTimestamp(r - j)
             v == [clock |-> c, period |-> p, running |-> TRUE]
  <2>2. c \in 0..(CLOCK_MOD - 1) /\ Slot(c) \in Slots
    <3>1. c \in 0..(CLOCK_MOD - 1)
      BY <1>1, TimestampType
    <3>2. c \in Int
      BY <3>1, ConstantFacts
    <3> QED BY <3>1, <3>2, SlotInSlots
  <2>3. /\ entry' = [entry EXCEPT ![t] = v]
        /\ timer_wheel' = [timer_wheel EXCEPT ![Slot(c)] = Append(@, t)]
    BY <2>1
  <2> HIDE DEF c
  <2>4. v \in Entries /\ v.running /\ v.clock = c
    BY <2>2 DEF Entries, Periods
  <2> HIDE DEF v
  <2>5. /\ t \in Blocks /\ t \notin Running /\ free_list' \in Seq(Blocks) /\ IsInjective(free_list')
        /\ Range(free_list') \subseteq Range(free_list) /\ t \notin Range(free_list')
    <3>1. CASE free_list = << >>
      BY <1>1, <1>2, <2>1, <3>1, EmptyList DEF olsr_cookie_malloc
    <3>2. CASE free_list # << >>
      <4>1. t = Head(free_list) /\ free_list' = Tail(free_list)
        BY <2>1, <3>2 DEF olsr_cookie_malloc
      <4> QED BY <1>1, <1>2, <3>2, <4>1, TailList
    <3> QED BY <3>1, <3>2
  <2>6. /\ entry' \in [Blocks -> Entries] /\ \A x \in Blocks \ {t} : entry'[x] = entry[x]
        /\ SlotOf(entry)' = [SlotOf(entry) EXCEPT ![t] = Slot(c)]
        /\ Running' = Running \cup {t} /\ SlotOf(entry) \in [Blocks -> Slots]
    BY <1>1, <2>3, <2>4, <2>5, WriteEntry
  <2>7. Filed(timer_wheel', Running', SlotOf(entry)', walk.tmp)
    <3>1. Filed([timer_wheel EXCEPT ![Slot(c)] = Append(@, t)], Running \cup {t},
                [SlotOf(entry) EXCEPT ![t] = Slot(c)], walk.tmp)
      BY <1>1, <2>2, <2>5, <2>6, AppendFiled
    <3> QED BY <2>3, <2>6, <3>1
  <2>8. UNCHANGED <<now_times, timer_last_run, walk>>
    BY <1>5 DEF olsr_start_timer
  <2>9. \A x \in Range(walk.tmp) : MoreSlots' /\ SlotOf(entry)'[x] = ThisSlot'
    <3>1. \A x \in Range(walk.tmp) : x \in Running /\ x \in Blocks /\ x # t
      BY <1>1, <1>2, <2>5 DEF Filed
    <3> QED BY <1>1, <2>6, <2>8, <3>1 DEF MoreSlots, ThisSlot
  <2>10. TypeOK'
    BY <1>1, <2>5, <2>6, <2>7, <2>8 DEF TypeOK, Entries, Filed
  <2> QED BY <1>1, <2>5, <2>6, <2>7, <2>8, <2>9, <2>10 DEF WheelInv
<1>6. ASSUME NEW t \in Blocks, NEW r \in Rels, NEW p \in Periods(r), olsr_change_timer(t, r, p)
      PROVE  WheelInv'
  <2>1. /\ t \in Running /\ UNCHANGED <<now_times, timer_last_run, free_list>>
        /\ walk' = [walk EXCEPT !.tmp = Unlinked(@, t)]
    BY <1>6 DEF olsr_change_timer
  <2>2. PICK j \in Jitters(r) : Rescheduled(t, r, p, j)
    BY <1>6 DEF olsr_change_timer
  <2>3. /\ entry' \in [Blocks -> Entries] /\ Running' = Running
        /\ \A x \in Blocks \ {t} : entry'[x] = entry[x]
        /\ Filed(timer_wheel', Running', SlotOf(entry)', Unlinked(walk.tmp, t))
    BY <1>1, <2>1, <2>2, RescheduledWheel
  <2>4. Unlinked(walk.tmp, t) \in Seq(Blocks) /\ Range(Unlinked(walk.tmp, t)) = Range(walk.tmp) \ {t}
    BY <1>1, UnlinkedList DEF Filed
  <2>5. /\ walk' \in Walks /\ walk'.tmp = Unlinked(walk.tmp, t)
        /\ walk'.at = walk.at /\ walk'.timer = walk.timer /\ walk'.slots = walk.slots
    BY <1>2, <2>1, <2>4 DEF Walks
  <2>6. \A x \in Range(walk'.tmp) : MoreSlots' /\ SlotOf(entry)'[x] = ThisSlot'
    <3>1. \A x \in Range(walk'.tmp) : x \in Range(walk.tmp) /\ x \in Blocks \ {t}
      BY <1>1, <1>2, <2>4, <2>5 DEF Filed
    <3> QED BY <1>1, <2>1, <2>3, <2>5, <3>1 DEF MoreSlots, ThisSlot, SlotOf
  <2>7. TypeOK'
    BY <1>1, <2>1, <2>3, <2>5 DEF TypeOK, Entries, Filed, Walks
  <2>8. Filed(timer_wheel', Running', SlotOf(entry)', walk'.tmp)
    BY <2>3, <2>5
  <2> QED BY <1>1, <2>1, <2>3, <2>4, <2>5, <2>6, <2>7, <2>8 DEF WheelInv
<1>7. ASSUME NEW t \in Blocks, olsr_stop_timer(t)
      PROVE  WheelInv'
  <2>1. /\ t \in Running /\ UNCHANGED <<now_times, timer_last_run>> /\ Stopped(t)
        /\ walk' = [walk EXCEPT !.tmp = Unlinked(@, t)]
    BY <1>7 DEF olsr_stop_timer
  <2>3. /\ entry' \in [Blocks -> Entries] /\ Running' = Running \ {t}
        /\ \A x \in Blocks \ {t} : entry'[x] = entry[x]
        /\ Filed(timer_wheel', Running', SlotOf(entry)', Unlinked(walk.tmp, t))
        /\ free_list' \in Seq(Blocks) /\ IsInjective(free_list')
        /\ Range(free_list') \cap Running' = {}
    BY <1>1, <2>1, StoppedWheel
  <2>4. Unlinked(walk.tmp, t) \in Seq(Blocks) /\ Range(Unlinked(walk.tmp, t)) = Range(walk.tmp) \ {t}
    BY <1>1, UnlinkedList DEF Filed
  <2>5. /\ walk' \in Walks /\ walk'.tmp = Unlinked(walk.tmp, t)
        /\ walk'.at = walk.at /\ walk'.timer = walk.timer /\ walk'.slots = walk.slots
    BY <1>2, <2>1, <2>4 DEF Walks
  <2>6. \A x \in Range(walk'.tmp) : MoreSlots' /\ SlotOf(entry)'[x] = ThisSlot'
    <3>1. \A x \in Range(walk'.tmp) : x \in Range(walk.tmp) /\ x \in Blocks \ {t}
      BY <1>1, <1>2, <2>4, <2>5 DEF Filed
    <3> QED BY <1>1, <2>1, <2>3, <2>5, <3>1 DEF MoreSlots, ThisSlot, SlotOf
  <2>7. TypeOK'
    BY <1>1, <2>1, <2>3, <2>5 DEF TypeOK, Entries, Filed, Walks
  <2>8. Filed(timer_wheel', Running', SlotOf(entry)', walk'.tmp)
    BY <2>3, <2>5
  <2> QED BY <1>1, <2>1, <2>3, <2>4, <2>5, <2>6, <2>7, <2>8 DEF WheelInv
<1>8. CASE olsr_times
  <2>1. PICK d \in Gaps : now_times' = (now_times + d) % CLOCK_MOD
    BY <1>8 DEF olsr_times
  <2>2. now_times' \in 0..(CLOCK_MOD - 1)
    <3>1. now_times + d \in Int
      BY <1>2, ConstantFacts
    <3> QED BY <1>3, <2>1, <3>1
  <2>3. /\ walk.at \in {"idle", "walked"} /\ walk' = NoWalk
        /\ UNCHANGED <<timer_last_run, timer_wheel, entry, free_list>>
    BY <1>8 DEF olsr_times
  <2>4. Filed(timer_wheel, Running, SlotOf(entry), << >>)
    BY <1>1, <2>3, IdleFiled
  <2>5. TypeOK'
    BY <1>1, <1>4, <2>2, <2>3 DEF TypeOK, Walks
  <2>6. Running' = Running /\ SlotOf(entry)' = SlotOf(entry)
    BY <2>3 DEF Running, SlotOf
  <2> QED BY <1>1, <1>4, <2>3, <2>4, <2>5, <2>6, EmptyList DEF WheelInv
<1>9. CASE WalkBegins
  <2>1. /\ walk.at = "idle" /\ walk' = [NoWalk EXCEPT !.at = "slot"]
        /\ UNCHANGED <<now_times, timer_last_run, timer_wheel, entry, free_list>>
    BY <1>9 DEF WalkBegins
  <2>2. walk' \in Walks /\ walk'.tmp = << >> /\ walk'.slots = 0 /\ walk'.timer = NoTimer /\ walk'.at = "slot"
    BY <1>4, <2>1 DEF Walks, NoWalk
  <2>3. Running' = Running /\ SlotOf(entry)' = SlotOf(entry)
    BY <2>1 DEF Running, SlotOf
  <2>4. TypeOK'
    BY <1>1, <2>1, <2>2 DEF TypeOK, Walks
  <2>5. Filed(timer_wheel, Running, SlotOf(entry), << >>)
    BY <1>1, <2>1, IdleFiled
  <2> QED BY <1>1, <2>1, <2>2, <2>3, <2>4, <2>5, EmptyList DEF WheelInv
<1>10. CASE WalkTimer
  <2> DEFINE t == Head(timer_wheel[ThisSlot])
  <2>1. /\ walk.at = "slot" /\ MoreSlots /\ timer_wheel[ThisSlot] # << >>
        /\ timer_wheel' = [timer_wheel EXCEPT ![ThisSlot] = Tail(@)]
        /\ UNCHANGED <<now_times, timer_last_run, entry, free_list>>
    BY <1>10 DEF WalkTimer
  <2>2. /\ t \in Running \cap Blocks /\ t \notin Range(walk.tmp) /\ SlotOf(entry)[t] = ThisSlot
        /\ Filed(timer_wheel', Running, SlotOf(entry), <<t>> \o walk.tmp)
        /\ Range(<<t>> \o walk.tmp) = Range(walk.tmp) \cup {t}
    <3>0. t = Head(timer_wheel[ThisSlot])
      OBVIOUS
    <3> HIDE DEF t
    <3>1. /\ t \in Running /\ t \in Blocks /\ t \notin Range(walk.tmp) /\ SlotOf(entry)[t] = ThisSlot
          /\ Filed([timer_wheel EXCEPT ![ThisSlot] = Tail(@)], Running, SlotOf(entry),
                   <<t>> \o walk.tmp)
          /\ Range(<<t>> \o walk.tmp) = Range(walk.tmp) \cup {t}
      <4>1. /\ Filed(timer_wheel, Running, SlotOf(entry), walk.tmp)
            /\ ThisSlot \in Slots /\ timer_wheel[ThisSlot] # << >>
        BY <1>1, <1>2, <2>1
      <4> QED BY <3>0, <4>1, WalkFiled
    <3> QED BY <2>1, <3>1
  <2>3. \/ walk' = [walk EXCEPT !.tmp = <<t>> \o @, !.at = "cb", !.timer = t]
        \/ walk' = [walk EXCEPT !.tmp = <<t>> \o @, !.at = "slot", !.timer = NoTimer]
    BY <1>10 DEF WalkTimer
  <2> HIDE DEF t
  <2>4. /\ walk' \in Walks /\ walk'.tmp = <<t>> \o walk.tmp /\ walk'.slots = walk.slots
        /\ walk'.at \in {"slot", "cb"} /\ (walk'.timer = NoTimer <=> walk'.at # "cb")
    <3>1. <<t>> \o walk.tmp \in Seq(Blocks) /\ t # NoTimer
      BY <2>2, ConstantFacts DEF Filed
    <3> QED BY <1>2, <2>2, <2>3, <3>1 DEF Walks
  <2>5. TypeOK'
    BY <1>1, <2>1, <2>2, <2>4 DEF TypeOK, Walks, Filed
  <2>6. Running' = Running /\ SlotOf(entry)' = SlotOf(entry) /\ ThisSlot' = ThisSlot /\ MoreSlots'
    BY <2>1, <2>4 DEF Running, SlotOf, ThisSlot, MoreSlots
  <2> QED BY <1>1, <2>1, <2>2, <2>4, <2>5, <2>6 DEF WheelInv
<1>11. CASE CallbackReturns
  <2> DEFINE t == walk.timer
             u == IF t \in Running THEN Unlinked(walk.tmp, t) ELSE walk.tmp
  <2>1. /\ walk.at = "cb" /\ UNCHANGED <<now_times, timer_last_run>>
        /\ walk' = [walk EXCEPT !.at = "slot", !.timer = NoTimer, !.tmp = u]
    BY <1>11 DEF CallbackReturns
  <2>2. t \in Blocks
    BY <1>1, <1>2, <2>1 DEF Walks
  <2>3. Unlinked(walk.tmp, t) \in Seq(Blocks) /\ Range(Unlinked(walk.tmp, t)) = Range(walk.tmp) \ {t}
    BY <1>1, UnlinkedList DEF Filed
  <2>4. /\ walk' \in Walks /\ walk'.at = "slot" /\ walk'.timer = NoTimer /\ walk'.tmp = u
        /\ walk'.slots = walk.slots
    BY <1>2, <2>1, <2>3 DEF Walks
  <2>5. /\ entry' \in [Blocks -> Entries] /\ \A x \in Blocks \ {t} : entry'[x] = entry[x]
        /\ t \notin Running => entry' = entry
        /\ Filed(timer_wheel', Running', SlotOf(entry)', u)
        /\ free_list' \in Seq(Blocks) /\ IsInjective(free_list')
        /\ Range(free_list') \cap Running' = {}
    <3>1. CASE /\ t \in Running
               /\ entry[t].period > 0
               /\ \E j \in Jitters(entry[t].period) :
                     Rescheduled(t, entry[t].period, entry[t].period, j)
               /\ UNCHANGED free_list
      <4>1. entry[t].period \in Rels /\ entry[t].period \in Periods(entry[t].period)
        BY <1>2, <2>2, <3>1 DEF Entries, Periods
      <4>2. /\ entry' \in [Blocks -> Entries] /\ \A x \in Blocks \ {t} : entry'[x] = entry[x]
            /\ Running' = Running
            /\ Filed(timer_wheel', Running', SlotOf(entry)', Unlinked(walk.tmp, t))
        BY <1>1, <3>1, <4>1, RescheduledWheel
      <4> QED BY <1>1, <1>2, <3>1, <4>2
    <3>2. CASE t \in Running /\ entry[t].period = 0 /\ Stopped(t)
      BY <1>1, <3>2, StoppedWheel
    <3>3. CASE t \notin Running /\ UNCHANGED <<timer_wheel, entry, free_list>>
      <4>1. Running' = Running /\ SlotOf(entry)' = SlotOf(entry)
        BY <3>3 DEF Running, SlotOf
      <4> QED BY <1>1, <1>2, <3>3, <4>1
    <3> QED BY <1>11, <3>1, <3>2, <3>3 DEF CallbackReturns
  <2>6. \A x \in Range(walk'.tmp) : MoreSlots' /\ SlotOf(entry)'[x] = ThisSlot'
    <3>1. \A x \in Range(walk'.tmp) : x \in Range(walk.tmp) /\ x \in Blocks /\ entry'[x] = entry[x]
      BY <1>1, <1>2, <2>3, <2>4, <2>5 DEF Filed
    <3> QED BY <1>1, <2>1, <2>4, <3>1 DEF MoreSlots, ThisSlot, SlotOf
  <2> HIDE DEF t, u
  <2>7. TypeOK'
    BY <1>1, <2>1, <2>4, <2>5 DEF TypeOK, Entries, Filed, Walks
  <2> QED BY <2>4, <2>5, <2>6, <2>7 DEF WheelInv
<1>12. CASE SlotWalked
  <2>1. /\ walk.at = "slot" /\ MoreSlots /\ timer_wheel[ThisSlot] = << >>
        /\ timer_wheel' = [timer_wheel EXCEPT ![ThisSlot] = walk.tmp]
        /\ timer_last_run' = (timer_last_run + 1) % CLOCK_MOD
        /\ walk' = [walk EXCEPT !.tmp = << >>, !.slots = @ + 1]
        /\ UNCHANGED <<now_times, entry, free_list>>
    BY <1>12 DEF SlotWalked
  <2>2. timer_last_run' \in 0..(CLOCK_MOD - 1)
    <3>1. timer_last_run + 1 \in Int
      BY <1>2, ConstantFacts
    <3> QED BY <1>3, <2>1, <3>1
  <2>3. Filed(timer_wheel', Running, SlotOf(entry), << >>)
    BY <1>1, <1>2, <2>1, ReturnFiled
  <2>4. walk' \in Walks /\ walk'.tmp = << >> /\ walk'.at = "slot" /\ walk'.timer = walk.timer
    <3>0. /\ TIMER_WHEEL_SLOTS \in Nat /\ walk.slots \in 0..TIMER_WHEEL_SLOTS
          /\ walk.slots < TIMER_WHEEL_SLOTS
      BY <1>2, <2>1, ConstantFacts DEF MoreSlots, Walks
    <3>1. walk.slots + 1 \in 0..TIMER_WHEEL_SLOTS
      BY <3>0
    <3> QED BY <1>2, <2>1, <3>1, EmptyList DEF Walks
  <2>5. Running' = Running /\ SlotOf(entry)' = SlotOf(entry)
    BY <2>1 DEF Running, SlotOf
  <2>6. TypeOK'
    BY <1>1, <2>1, <2>2, <2>3, <2>4 DEF TypeOK, Walks, Filed
  <2> QED BY <1>1, <2>1, <2>3, <2>4, <2>5, <2>6, EmptyList DEF WheelInv
<1>13. CASE WalkEnds
  <2>1. /\ walk.at = "slot" /\ ~MoreSlots /\ timer_last_run' = now_times
        /\ walk' = [NoWalk EXCEPT !.at = "walked"]
        /\ UNCHANGED <<now_times, timer_wheel, entry, free_list>>
    BY <1>13 DEF WalkEnds
  <2>2. walk' \in Walks /\ walk'.tmp = << >> /\ walk'.slots = 0 /\ walk'.timer = NoTimer /\ walk'.at = "walked"
    BY <1>4, <2>1 DEF Walks, NoWalk
  <2>3. Filed(timer_wheel, Running, SlotOf(entry), << >>)
    <3>1. Range(walk.tmp) = {}
      BY <1>1, <2>1
    <3> QED BY <1>1, <3>1, IdleFiled
  <2>4. Running' = Running /\ SlotOf(entry)' = SlotOf(entry)
    BY <2>1 DEF Running, SlotOf
  <2>5. TypeOK'
    BY <1>1, <1>2, <2>1, <2>2 DEF TypeOK, Walks
  <2> QED BY <1>1, <2>1, <2>2, <2>3, <2>4, <2>5, EmptyList DEF WheelInv
<1>14. CASE UNCHANGED vars
  <2>1. Running' = Running /\ SlotOf(entry)' = SlotOf(entry) /\ ThisSlot' = ThisSlot /\ (MoreSlots' <=> MoreSlots)
    BY <1>14 DEF vars, Running, SlotOf, ThisSlot, MoreSlots
  <2>2. TypeOK'
    BY <1>1, <1>14 DEF TypeOK, vars
  <2> QED BY <1>1, <1>14, <2>1, <2>2 DEF WheelInv, vars
<1> QED
  BY <1>5, <1>6, <1>7, <1>8, <1>9, <1>10, <1>11, <1>12, <1>13, <1>14 DEF Next, User, walk_timers

\* WheelExact holds for every set of blocks, every wheel and every clock: a
\* running timer is on exactly one list and a freed block is on none, whatever
\* callbacks start, change and stop in the slot being walked.
THEOREM TimersWheelExact == Spec => []WheelExact
<1>1. WheelInv /\ [Next]_vars => WheelInv'
  BY WheelStep
<1> QED BY <1>1, WheelInit, WheelInvExact, PTL DEF Spec

(* The clock: with both times in range, the remainders have plain values. *)

\* Due, and Lag, as functions of the clock.
DueAt(n, s) ==
    LET d == (s - n) % CLOCK_MOD
    IN  IF d >= HALF THEN d - CLOCK_MOD ELSE d

LEMMA WrapOnce ==
    ASSUME NEW a \in 0..(CLOCK_MOD - 1), NEW b \in 0..(CLOCK_MOD - 1)
    PROVE  /\ (a + b) % CLOCK_MOD = IF a + b < CLOCK_MOD THEN a + b ELSE a + b - CLOCK_MOD
           /\ (a - b) % CLOCK_MOD = IF a >= b THEN a - b ELSE a - b + CLOCK_MOD
<1>0. CLOCK_MOD \in Nat /\ a \in Nat /\ b \in Nat /\ CLOCK_MOD > 0 /\ a < CLOCK_MOD /\ b < CLOCK_MOD
  BY ConstantFacts
<1> DEFINE M == CLOCK_MOD
<1>1. CASE a + b < M
  <2>1. a + b \in 0 .. M - 1
    BY <1>0, <1>1
  <2> QED BY <1>0, <1>1, <2>1, ModSmall
<1>2. CASE a + b >= M
  <2>1. a + b - M \in 0 .. M - 1 /\ 1 * M + (a + b - M) = a + b
    BY <1>0, <1>2
  <2>2. (1 * M + (a + b - M)) % M = a + b - M
    BY <1>0, <2>1, ModUnique
  <2> QED BY <1>0, <1>2, <2>1, <2>2
<1>3. CASE a >= b
  <2>1. a - b \in 0 .. M - 1
    BY <1>0, <1>3
  <2> QED BY <1>0, <1>3, <2>1, ModSmall
<1>4. CASE a < b
  <2>1. a - b + M \in 0 .. M - 1 /\ (-1) * M + (a - b + M) = a - b
    BY <1>0, <1>4
  <2>2. ((-1) * M + (a - b + M)) % M = a - b + M
    BY <1>0, <2>1, ModUnique
  <2> QED BY <1>0, <1>4, <2>1, <2>2
<1>5. (a + b) % M = IF a + b < M THEN a + b ELSE a + b - M
  BY <1>0, <1>1, <1>2
<1>6. (a - b) % M = IF a >= b THEN a - b ELSE a - b + M
  BY <1>0, <1>3, <1>4
<1> QED BY <1>5, <1>6

LEMMA DuePlain ==
    ASSUME NEW n \in 0..(CLOCK_MOD - 1), NEW s \in 0..(CLOCK_MOD - 1)
    PROVE  DueAt(n, s) = IF s - n >= HALF THEN s - n - CLOCK_MOD
                         ELSE IF s - n < -HALF THEN s - n + CLOCK_MOD ELSE s - n
<1>1. (s - n) % CLOCK_MOD = IF s >= n THEN s - n ELSE s - n + CLOCK_MOD
  BY WrapOnce
<1> QED BY <1>1, ConstantFacts DEF DueAt

\* A timer that is set is not due.
LEMMA JitterLess == ASSUME NEW r \in Rels, NEW j \in Jitters(r) PROVE r - j \in 1..r
<1>1. r \in Nat /\ r >= 1 /\ JITTER_PCT \in Nat /\ JITTER_PCT <= 99
  BY ConstantFacts
<1>2. JITTER_PCT * r \in Nat /\ JITTER_PCT * r <= 99 * r
  BY <1>1
<1> DEFINE x == JITTER_PCT * r
<1>3. x \in Nat /\ x <= 99 * r
  BY <1>2
<1> HIDE DEF x
<1>4. x \div 100 \in Nat /\ x \div 100 < r
  BY <1>1, <1>3
<1>5. j \in 0..(x \div 100)
  BY DEF Jitters, x
<1> QED BY <1>1, <1>4, <1>5

LEMMA SetNotDue ==
    ASSUME NEW n \in 0..(CLOCK_MOD - 1), NEW r \in Rels, NEW j \in Jitters(r)
    PROVE  /\ DueAt(n, (n + (r - j)) % CLOCK_MOD) = r - j
           /\ r - j > 0 /\ r - j \in Int
<1>1. r - j \in 1..r /\ r \in 1..(HALF - 1)
  BY JitterLess, ConstantFacts
<1> DEFINE x == r - j
<1>2. x \in Int /\ 0 < x /\ x < HALF /\ x \in 0..(CLOCK_MOD - 1)
  BY <1>1, ConstantFacts
<1> HIDE DEF x
<1>3. (n + x) % CLOCK_MOD = IF n + x < CLOCK_MOD THEN n + x ELSE n + x - CLOCK_MOD
  BY <1>2, WrapOnce
<1> DEFINE c == (n + x) % CLOCK_MOD
<1>4. c \in 0..(CLOCK_MOD - 1)
  BY <1>2, <1>3, ConstantFacts
<1>5. DueAt(n, c) = IF c - n >= HALF THEN c - n - CLOCK_MOD
                         ELSE IF c - n < -HALF THEN c - n + CLOCK_MOD ELSE c - n
  <2> HIDE DEF c
  <2> QED BY <1>4, DuePlain
<1>6. DueAt(n, c) = x
  <2> HIDE DEF c
  <2>1. c = IF n + x < CLOCK_MOD THEN n + x ELSE n + x - CLOCK_MOD
    BY <1>3 DEF c
  <2> QED BY <1>2, <1>4, <1>5, <2>1, ConstantFacts
<1> QED BY <1>2, <1>6 DEF x

\* The clock moves by d.
LEMMA DueMoves ==
    ASSUME NEW n \in 0..(CLOCK_MOD - 1), NEW s \in 0..(CLOCK_MOD - 1),
           NEW d \in Gaps, DueAt(n, s) - d >= -HALF
    PROVE  DueAt((n + d) % CLOCK_MOD, s) = DueAt(n, s) - d
<1>1. d \in 0..(CLOCK_MOD - 1) /\ d <= HALF
  BY ConstantFacts
<1>2. (n + d) % CLOCK_MOD = IF n + d < CLOCK_MOD THEN n + d ELSE n + d - CLOCK_MOD
  BY <1>1, WrapOnce
<1> DEFINE m == (n + d) % CLOCK_MOD
<1>3. m \in 0..(CLOCK_MOD - 1)
  BY <1>1, <1>2, ConstantFacts
<1>4. m = IF n + d < CLOCK_MOD THEN n + d ELSE n + d - CLOCK_MOD
  BY <1>2
<1> HIDE DEF m
<1>5. DueAt(m, s) = IF s - m >= HALF THEN s - m - CLOCK_MOD
                         ELSE IF s - m < -HALF THEN s - m + CLOCK_MOD ELSE s - m
  BY <1>3, DuePlain
<1>6. DueAt(n, s) = IF s - n >= HALF THEN s - n - CLOCK_MOD
                         ELSE IF s - n < -HALF THEN s - n + CLOCK_MOD ELSE s - n
  BY DuePlain
<1>7. DueAt(m, s) = DueAt(n, s) - d
  BY <1>1, <1>3, <1>4, <1>5, <1>6, ConstantFacts
<1> QED BY <1>7 DEF m

\* olsr_isTimedOut tells the sign of the time left, up to half the clock.
LEMMA TimedOutDue ==
    ASSUME TypeOK, NEW s \in 0..(CLOCK_MOD - 1)
    PROVE  /\ Due(s) \in Int /\ Due(s) = DueAt(now_times, s)
           /\ olsr_isTimedOut(s) => Due(s) <= 0
           /\ ~olsr_isTimedOut(s) /\ Due(s) > -HALF => Due(s) > 0
<1>1. Due(s) = DueAt(now_times, s) /\ now_times \in 0..(CLOCK_MOD - 1)
  BY DEF Due, DueAt, TypeOK
<1>2. DueAt(now_times, s) =
         IF s - now_times >= HALF THEN s - now_times - CLOCK_MOD
         ELSE IF s - now_times < -HALF THEN s - now_times + CLOCK_MOD ELSE s - now_times
  BY <1>1, DuePlain
<1>3. Due(s) \in Int
  BY <1>1, <1>2, ConstantFacts
<1>4. CASE s > now_times
  BY <1>1, <1>2, <1>3, <1>4, ConstantFacts DEF olsr_isTimedOut
<1>5. CASE s <= now_times
  BY <1>1, <1>2, <1>3, <1>5, ConstantFacts DEF olsr_isTimedOut
<1> QED BY <1>1, <1>4, <1>5, ConstantFacts

\* Within a round after time b the walk comes to the slot of c.
LEMMA RoundVisits ==
    ASSUME NEW b \in Nat, NEW c \in Nat
    PROVE  \E i \in Nat : /\ Slot(i) = Slot(c) /\ b <= i /\ i - b < TIMER_WHEEL_SLOTS
                          /\ b <= c => i <= c
<1> DEFINE m == TIMER_WHEEL_SLOTS
           k == (c - b) % m
           i == b + k
<1>1. m \in Nat /\ m > 0 /\ k \in 0 .. m - 1
  BY ConstantFacts, ModRange
<1>2. i \in Nat /\ b <= i /\ i - b < m
  BY <1>1
<1>3. b <= c => i <= c
  <2>1. PICK q \in Int : c - b = q * m + k
    BY <1>1, ModDecompose
  <2>2. ASSUME b <= c PROVE q >= 0
    <3>1. CASE q <= -1
      <4>1. q * m <= -m
        BY <1>1, <3>1
      <4> HIDE DEF k
      <4> QED BY <1>1, <2>1, <2>2, <4>1
    <3> QED BY <3>1
  <2>3. ASSUME b <= c PROVE q * m >= 0
    <3>1. q \in Nat
      BY <2>2, <2>3
    <3> QED BY <1>1, <3>1
  <2> HIDE DEF k
  <2> QED BY <1>1, <2>1, <2>3
<1>4. Slot(i) = Slot(c)
  <2>1. PICK q \in Int : c - b = q * m + k
    BY <1>1, ModDecompose
  <2>2. (q * m + i) % m = i % m
    <3>1. i \in Int /\ m \in Nat /\ m > 0 /\ q \in Int
      BY <1>1, <1>2, <2>1
    <3> HIDE DEF i, m, k
    <3> QED BY <3>1, ModShift
  <2>3. c = q * m + i
    <3> HIDE DEF k
    <3> QED BY <1>1, <2>1
  <2> QED BY <2>2, <2>3 DEF Slot
<1> QED BY <1>2, <1>3, <1>4

(* A timer waits for the walk. *)

LEMMA LagPlain ==
    ASSUME TypeOK
    PROVE  /\ now_times \in Times /\ timer_last_run \in Times
           /\ Lag = IF now_times >= timer_last_run THEN now_times - timer_last_run
                    ELSE now_times - timer_last_run + CLOCK_MOD
BY WrapOnce DEF TypeOK, Lag, Times

LEMMA DueType ==
    ASSUME TypeOK, NEW c \in Times
    PROVE  /\ Due(c) \in Int /\ Due(c) = DueAt(now_times, c)
           /\ Due(c) = IF c - now_times >= HALF THEN c - now_times - CLOCK_MOD
                       ELSE IF c - now_times < -HALF THEN c - now_times + CLOCK_MOD
                       ELSE c - now_times
BY TimedOutDue, DuePlain DEF TypeOK, Times

\* Between two walks the clock moves by d.
LEMMA TickWaits ==
    ASSUME TypeOK, NEW c \in Times, NEW d \in Gaps, d + Lag <= MAX_STALL,
           now_times' = (now_times + d) % CLOCK_MOD, timer_last_run' = timer_last_run,
           walk.slots = 0, walk'.slots = 0, WaitsIdle(c)
    PROVE  /\ WaitsIdle(c)' /\ Due(c)' = Due(c) - d
           /\ Due(c)' > -(Horizon + MAX_STALL)
           /\ Lag' = Lag + d
<1>1. /\ now_times \in Times /\ timer_last_run \in Times
      /\ Lag = IF now_times >= timer_last_run THEN now_times - timer_last_run
               ELSE now_times - timer_last_run + CLOCK_MOD
  BY LagPlain
<1>2. d \in Int /\ d > 0 /\ d \in Times /\ d <= MAX_STALL
  BY ConstantFacts DEF Times
<1>3. now_times' = IF now_times + d < CLOCK_MOD THEN now_times + d ELSE now_times + d - CLOCK_MOD
  BY <1>1, <1>2, WrapOnce DEF Times
<1>4. Due(c) \in Int /\ Due(c) = DueAt(now_times, c)
  BY DueType
<1>5. ASSUME Due(c) - d >= -HALF PROVE Due(c)' = Due(c) - d
  <2>1. DueAt((now_times + d) % CLOCK_MOD, c) = DueAt(now_times, c) - d
    BY <1>1, <1>4, <1>5, DueMoves DEF Times
  <2>2. Due(c)' = DueAt(now_times', c)
    BY DEF Due, DueAt
  <2> QED BY <1>4, <2>1, <2>2
<1>6. now_times' \in Times /\ timer_last_run' \in Times
  BY <1>1, <1>2, <1>3, ConstantFacts DEF Times
<1>7. Lag' = IF now_times' >= timer_last_run' THEN now_times' - timer_last_run'
             ELSE now_times' - timer_last_run' + CLOCK_MOD
  BY <1>6, WrapOnce DEF Lag, Times
<1>8. Lag \in Nat
  BY <1>1, ConstantFacts DEF Times
<1>9. Lag' = Lag + d
  <2> HIDE DEF Lag
  <2>1. CASE now_times >= timer_last_run
    BY <1>1, <1>2, <1>3, <1>7, <2>1, ConstantFacts DEF Times
  <2>2. CASE now_times < timer_last_run
    BY <1>1, <1>2, <1>3, <1>7, <2>2, ConstantFacts DEF Times
  <2> QED BY <1>1, <2>1, <2>2, ConstantFacts DEF Times
<1> DEFINE u == Due(c)
           l == Lag
<1>10. CASE Due(c) + Lag > 0
  <2>1. u - d >= -HALF /\ u - d > -(Horizon + MAX_STALL)
    <3>1. u \in Int /\ l \in Nat /\ u + l > 0 /\ d + l <= MAX_STALL
      BY <1>4, <1>8, <1>10
    <3> HIDE DEF u, l
    <3> QED BY <1>2, <3>1, ConstantFacts DEF Horizon
  <2>2. Due(c)' + Lag' > 0
    <3>1. Due(c)' = u - d /\ Lag' = l + d /\ u + l > 0 /\ u \in Int /\ l \in Nat
      BY <1>4, <1>5, <1>8, <1>9, <1>10, <2>1
    <3> HIDE DEF u, l
    <3> QED BY <1>2, <3>1
  <2> QED BY <1>5, <1>9, <2>1, <2>2 DEF WaitsIdle
<1>11. CASE \E i \in Nat : Visits(c, i) /\ Skipped(c, i)
  <2>1. PICK i \in Nat : Visits(c, i) /\ Skipped(c, i)
    BY <1>11
  <2>2. /\ Slot(i) = Slot(c) /\ timer_last_run <= i
        /\ i - timer_last_run < TIMER_WHEEL_SLOTS /\ i < Horizon
        /\ i - now_times < TIMER_WHEEL_SLOTS /\ u + now_times - i > -Horizon
    BY <2>1, ConstantFacts DEF Visits, Skipped
  <2>3. u \in Int /\ l \in Nat /\ d + l <= MAX_STALL
        /\ l = IF now_times >= timer_last_run THEN now_times - timer_last_run
               ELSE now_times - timer_last_run + CLOCK_MOD
    BY <1>1, <1>4, <1>8
  <2> HIDE DEF u, l
  <2>4. timer_last_run <= now_times /\ now_times' = now_times + d
    BY <1>1, <1>2, <1>3, <2>2, <2>3, ConstantFacts DEF Times, Horizon
  <2>5. u - d >= -HALF /\ u - d > -(Horizon + MAX_STALL)
    BY <1>1, <1>2, <2>2, <2>3, <2>4, ConstantFacts DEF Times, Horizon
  <2>6. Due(c)' = u - d
    BY <1>5, <2>5 DEF u
  <2>7. Visits(c, i)'
    BY <2>2, ConstantFacts DEF Visits
  <2>8. Skipped(c, i)'
    <3>1. i - now_times' < TIMER_WHEEL_SLOTS /\ (u - d) + now_times' - i > -Horizon
      BY <1>1, <1>2, <2>2, <2>3, <2>4, ConstantFacts DEF Times, Horizon
    <3> QED BY <2>2, <2>6, <3>1 DEF Skipped, Horizon
  <2> QED BY <1>9, <2>5, <2>6, <2>7, <2>8 DEF WaitsIdle, u
<1> QED BY <1>10, <1>11 DEF WaitsIdle

\* A walk begins.
LEMMA BeginWaits ==
    ASSUME TypeOK, NEW c \in Times, UNCHANGED <<now_times, timer_last_run>>,
           walk.slots = 0, walk'.slots = 0, Lag <= MAX_STALL, WaitsIdle(c)
    PROVE  WaitsWalk(c)'
<1>1. /\ now_times \in Times /\ timer_last_run \in Times
      /\ Lag = IF now_times >= timer_last_run THEN now_times - timer_last_run
               ELSE now_times - timer_last_run + CLOCK_MOD
  BY LagPlain
<1>2. /\ Due(c) \in Int
      /\ Due(c) = IF c - now_times >= HALF THEN c - now_times - CLOCK_MOD
                  ELSE IF c - now_times < -HALF THEN c - now_times + CLOCK_MOD
                  ELSE c - now_times
  BY DueType
<1>3. Due(c)' = Due(c)
  BY DEF Due
<1> DEFINE u == Due(c)
           l == Lag
<1>4. CASE Due(c) > 0
  BY <1>3, <1>4 DEF WaitsWalk
<1>5. CASE Due(c) + Lag > 0 /\ Due(c) <= 0 /\ timer_last_run <= now_times
  <2>1. u \in Int /\ u <= 0 /\ u + (now_times - timer_last_run) > 0
    BY <1>1, <1>2, <1>5
  <2>2. c = now_times + u /\ timer_last_run <= c /\ c <= now_times /\ c \in Nat /\ timer_last_run \in Nat
    <3> HIDE DEF u
    <3>1. u = IF c - now_times >= HALF THEN c - now_times - CLOCK_MOD
              ELSE IF c - now_times < -HALF THEN c - now_times + CLOCK_MOD
              ELSE c - now_times
      BY <1>2 DEF u
    <3> QED BY <1>1, <2>1, <3>1, ConstantFacts DEF Times
  <2>3. PICK i \in Nat : /\ Slot(i) = Slot(c) /\ timer_last_run <= i
                         /\ i - timer_last_run < TIMER_WHEEL_SLOTS
                         /\ timer_last_run <= c => i <= c
    BY <2>2, RoundVisits
  <2>4. i <= now_times
    BY <1>1, <2>2, <2>3 DEF Times
  <2>5. Visits(c, i)'
    BY <2>3, ConstantFacts DEF Visits
  <2> QED BY <2>4, <2>5 DEF WaitsWalk
<1>6. CASE Due(c) + Lag > 0 /\ Due(c) <= 0 /\ timer_last_run > now_times
  <2>1. u \in Int /\ l \in Int /\ u + l > 0 /\ l = now_times - timer_last_run + CLOCK_MOD /\ l <= MAX_STALL
    BY <1>1, <1>2, <1>6, ConstantFacts DEF Times
  <2> HIDE DEF u, l
  <2>2. now_times < MAX_STALL /\ u > -MAX_STALL
    BY <1>1, <2>1, ConstantFacts DEF Times
  <2> QED BY <1>3, <1>6, <2>2 DEF WaitsWalk, u
<1>7. CASE \E i \in Nat : Visits(c, i) /\ Skipped(c, i)
  BY <1>3, <1>7 DEF WaitsWalk, Visits, Skipped
<1>8. timer_last_run <= now_times \/ timer_last_run > now_times
  BY <1>1, ConstantFacts DEF Times
<1>9. Due(c) > 0 \/ Due(c) <= 0
  BY <1>2
<1> QED BY <1>4, <1>5, <1>6, <1>7, <1>8, <1>9 DEF WaitsIdle

\* The walk goes on to the next slot, from one in which c is not due.
LEMMA SlotWaits ==
    ASSUME TypeOK, NEW c \in Times, now_times' = now_times,
           timer_last_run' = (timer_last_run + 1) % CLOCK_MOD,
           walk'.slots = walk.slots + 1, walk.slots \in Nat, MoreSlots,
           Slot(c) = ThisSlot => Due(c) > 0,
           WaitsWalk(c)
    PROVE  WaitsWalk(c)'
<1>1. now_times \in Times /\ timer_last_run \in Times /\ timer_last_run <= now_times
  BY DEF TypeOK, Times, MoreSlots
<1>2. timer_last_run' = IF timer_last_run + 1 < CLOCK_MOD THEN timer_last_run + 1 ELSE 0
  <2>1. 1 \in Times
    BY ConstantFacts DEF Times
  <2>2. (timer_last_run + 1) % CLOCK_MOD =
           IF timer_last_run + 1 < CLOCK_MOD THEN timer_last_run + 1
           ELSE timer_last_run + 1 - CLOCK_MOD
    BY <1>1, <2>1, WrapOnce DEF Times
  <2> QED BY <1>1, <2>2, ConstantFacts DEF Times
<1>3. Due(c)' = Due(c) /\ Due(c) \in Int
  BY DueType DEF Due
<1>4. CASE Due(c) > 0
  BY <1>3, <1>4 DEF WaitsWalk
<1>5. CASE ~(Due(c) > 0) /\ \E i \in Nat : Visits(c, i) /\ (i <= now_times \/ Skipped(c, i))
  <2>1. PICK i \in Nat : Visits(c, i) /\ (i <= now_times \/ Skipped(c, i))
    BY <1>5
  <2>2. i # timer_last_run
    BY <1>5, <2>1 DEF Visits, ThisSlot
  <2>3. i <= now_times \/ i < Horizon
    BY <2>1 DEF Skipped
  <2>4. timer_last_run <= i /\ i - timer_last_run < TIMER_WHEEL_SLOTS - walk.slots
    BY <2>1 DEF Visits
  <2>5. timer_last_run + 1 < CLOCK_MOD
    BY <1>1, <2>2, <2>3, <2>4, ConstantFacts DEF Times, Horizon
  <2>6. Visits(c, i)'
    BY <1>1, <1>2, <2>1, <2>2, <2>4, <2>5, ConstantFacts DEF Times, Visits
  <2>7. (i <= now_times \/ Skipped(c, i))'
    BY <1>3, <2>1 DEF Skipped
  <2> QED BY <2>6, <2>7 DEF WaitsWalk
<1>6. ~(timer_last_run > now_times)
  BY <1>1, ConstantFacts DEF Times
<1> QED BY <1>4, <1>5, <1>6 DEF WaitsWalk

\* A walk ends.
LEMMA EndWaits ==
    ASSUME TypeOK, NEW c \in Times, now_times' = now_times, timer_last_run' = now_times,
           walk'.slots = 0, walk.slots \in Nat, ~MoreSlots, WaitsWalk(c)
    PROVE  WaitsIdle(c)' /\ Lag' = 0
<1>1. now_times \in Times /\ timer_last_run \in Times /\ now_times \in Nat /\ c \in Nat
  BY ConstantFacts DEF TypeOK, Times
<1>2. Lag' = 0
  <2>1. (now_times - now_times) % CLOCK_MOD = now_times - now_times
    BY <1>1, WrapOnce DEF Times
  <2> QED BY <1>1, <2>1 DEF Lag
<1>3. Due(c)' = Due(c) /\ Due(c) \in Int
  BY DueType DEF Due
<1> DEFINE u == Due(c)
<1>4. CASE Due(c) > 0
  <2>1. Due(c)' + Lag' > 0
    BY <1>2, <1>3, <1>4
  <2> QED BY <1>2, <2>1 DEF WaitsIdle
<1>5. CASE now_times < MAX_STALL /\ Due(c) > -MAX_STALL
  <2>1. PICK i \in Nat : /\ Slot(i) = Slot(c) /\ now_times <= i
                         /\ i - now_times < TIMER_WHEEL_SLOTS
    BY <1>1, RoundVisits
  <2>2. Visits(c, i)'
    BY <2>1, ConstantFacts DEF Visits
  <2>3. u > -MAX_STALL /\ u \in Int
    BY <1>3, <1>5
  <2> HIDE DEF u
  <2>4. i < Horizon /\ u + now_times - i > -Horizon
    BY <1>1, <1>5, <2>1, <2>3, ConstantFacts DEF Horizon
  <2>5. Skipped(c, i)'
    BY <1>3, <2>1, <2>4 DEF Skipped, Horizon, u
  <2> QED BY <1>2, <2>2, <2>5 DEF WaitsIdle
<1>6. CASE \E i \in Nat : Visits(c, i) /\ (i <= now_times \/ Skipped(c, i))
  <2>1. PICK i \in Nat : Visits(c, i) /\ (i <= now_times \/ Skipped(c, i))
    BY <1>6
  <2>2. timer_last_run <= i /\ i - timer_last_run < TIMER_WHEEL_SLOTS - walk.slots /\ Slot(i) = Slot(c)
    BY <2>1 DEF Visits
  <2>3. i > now_times
    BY <1>1, <2>2, ConstantFacts DEF MoreSlots, Times
  <2>4. Skipped(c, i)
    BY <1>1, <2>1, <2>3
  <2>5. Visits(c, i)'
    BY <1>1, <2>2, <2>3, <2>4, ConstantFacts DEF Visits, Skipped
  <2>6. Skipped(c, i)'
    BY <1>3, <2>4 DEF Skipped
  <2> QED BY <1>2, <2>5, <2>6 DEF WaitsIdle
<1> QED BY <1>2, <1>4, <1>5, <1>6 DEF WaitsWalk

\* What is not due waits.
LEMMA NewWaits ==
    ASSUME TypeOK, NEW c \in Times, Due(c) > 0
    PROVE  WaitsIdle(c) /\ WaitsWalk(c) /\ Due(c) > -(Horizon + MAX_STALL)
<1>1. Due(c) \in Int
  BY DueType
<1>2. Lag \in Nat
  BY LagPlain, ConstantFacts DEF Times
<1> DEFINE u == Due(c)
           l == Lag
<1>3. u + l > 0 /\ u > -(Horizon + MAX_STALL)
  <2>1. u \in Int /\ l \in Nat /\ u > 0
    BY <1>1, <1>2
  <2> HIDE DEF u, l
  <2> QED BY <2>1, ConstantFacts DEF Horizon
<1> QED BY <1>3 DEF WaitsIdle, WaitsWalk

\* Waiting depends on the clock and the walk only.
LEMMA StillWaits ==
    ASSUME NEW c, UNCHANGED <<now_times, timer_last_run>>, walk'.slots = walk.slots
    PROVE  /\ Due(c)' = Due(c) /\ Lag' = Lag
           /\ WaitsIdle(c)' <=> WaitsIdle(c)
           /\ WaitsWalk(c)' <=> WaitsWalk(c)
<1>1. Due(c)' = Due(c) /\ Lag' = Lag
  BY DEF Due, Lag
<1>2. \A i \in Nat : (Visits(c, i)' <=> Visits(c, i)) /\ (Skipped(c, i)' <=> Skipped(c, i))
  BY <1>1 DEF Visits, Skipped
<1>3. WaitsIdle(c)' <=> WaitsIdle(c)
  BY <1>1, <1>2 DEF WaitsIdle
<1>4. WaitsWalk(c)' <=> WaitsWalk(c)
  BY <1>1, <1>2 DEF WaitsWalk
<1> QED BY <1>1, <1>3, <1>4

\* A step that moves neither the clock nor the walk, except that a callback may
\* return: the timers are as before or newly set.
LEMMA UserPending ==
    ASSUME TypeOK, PendingInv, UNCHANGED <<now_times, timer_last_run>>,
           walk'.slots = walk.slots, Range(walk'.tmp) \subseteq Range(walk.tmp),
           \/ walk'.at = walk.at /\ walk'.timer = walk.timer
           \/ walk.at = "cb" /\ walk'.at = "slot" /\ walk'.timer = NoTimer,
           \A t \in Blocks, c \in Times : Armed(t, c)' =>
              \/ Armed(t, c) /\ (t = walk.timer => t = walk'.timer)
              \/ Due(c) > 0 /\ t \notin Range(walk'.tmp)
    PROVE  PendingInv'
<1>1. \A c \in Times : /\ Due(c)' = Due(c) /\ Lag' = Lag
                       /\ WaitsIdle(c)' <=> WaitsIdle(c)
                       /\ WaitsWalk(c)' <=> WaitsWalk(c)
  BY StillWaits
<1>2. ASSUME NEW t \in Blocks, NEW c \in Times, Armed(t, c)'
      PROVE  (Due(c) > -(Horizon + MAX_STALL))'
  <2>1. Due(c) > -(Horizon + MAX_STALL)
    BY <1>2, NewWaits DEF PendingInv
  <2> QED BY <1>1, <2>1 DEF Horizon
<1>3. ASSUME walk'.at \in {"idle", "walked"}
      PROVE  Lag' <= MAX_STALL
  BY <1>3 DEF PendingInv, Lag
<1>4. ASSUME walk'.at \in {"idle", "walked"}, NEW t \in Blocks, NEW c \in Times, Armed(t, c)'
      PROVE  WaitsIdle(c)'
  BY <1>1, <1>4, NewWaits DEF PendingInv
<1>5. walk'.at = "walked" => timer_last_run' = now_times'
  BY DEF PendingInv
<1>6. ASSUME walk'.at \in {"slot", "cb"}, NEW t \in Blocks \ {walk'.timer}, NEW c \in Times,
             Armed(t, c)'
      PROVE  /\ t \in Range(walk'.tmp) => Due(c)' > 0
             /\ WaitsWalk(c)'
  <2>1. walk.at \in {"slot", "cb"}
    BY <1>6
  <2>2. CASE Armed(t, c) /\ (t = walk.timer => t = walk'.timer)
    <3>1. t \in Blocks \ {walk.timer}
      BY <1>6, <2>2
    <3>2. /\ t \in Range(walk.tmp) => Due(c) > 0
          /\ WaitsWalk(c)
      BY <2>1, <2>2, <3>1 DEF PendingInv
    <3> QED BY <1>1, <3>2
  <2>3. CASE Due(c) > 0 /\ t \notin Range(walk'.tmp)
    BY <1>1, <2>3, NewWaits
  <2> QED BY <1>6, <2>2, <2>3
<1> QED BY <1>2, <1>3, <1>4, <1>5, <1>6 DEF PendingInv

LEMMA SetDue ==
    ASSUME TypeOK, NEW r \in Rels, NEW j \in Jitters(r), NEW c, c = olsr_getTimestamp(r - j)
    PROVE  c \in Times /\ Due(c) = r - j /\ Due(c) > 0
<1>1. c \in Times
  BY TimestampType DEF Times
<1>2. Due(c) = DueAt(now_times, c) /\ c = (now_times + (r - j)) % CLOCK_MOD /\ now_times \in 0..(CLOCK_MOD - 1)
  BY DEF Due, DueAt, olsr_getTimestamp, TypeOK
<1>3. DueAt(now_times, (now_times + (r - j)) % CLOCK_MOD) = r - j /\ r - j > 0
  BY <1>2, SetNotDue
<1> QED BY <1>1, <1>2, <1>3

LEMMA PendingInit == Init => PendingInv
<1> SUFFICES ASSUME Init PROVE PendingInv
  OBVIOUS
<1> USE DEF Init
<1>1. \A t \in Blocks, c \in Times : ~Armed(t, c)
  BY DEF Armed, Running, NotRunning
<1>2. walk.at = "idle"
  BY DEF NoWalk
<1>3. Lag = 0
  <2>1. now_times \in 0..(CLOCK_MOD - 1)
    OBVIOUS
  <2>2. (now_times - now_times) % CLOCK_MOD = now_times - now_times /\ now_times \in Int
    BY <2>1, WrapOnce, ConstantFacts
  <2> QED BY <2>2 DEF Lag
<1> QED BY <1>1, <1>2, <1>3, ConstantFacts DEF PendingInv

\* Each step preserves PendingInv.
LEMMA PendingStep == ASSUME WheelInv, PendingInv, [Next]_vars PROVE PendingInv'
<1>1. /\ TypeOK /\ Filed(timer_wheel, Running, SlotOf(entry), walk.tmp)
      /\ IsInjective(free_list) /\ Range(free_list) \cap Running = {}
      /\ walk.at \in {"idle", "walked"} => walk.slots = 0
      /\ walk.timer = NoTimer <=> walk.at # "cb"
  BY DEF WheelInv
<1>2. /\ entry \in [Blocks -> Entries] /\ walk \in Walks /\ Running \subseteq Blocks
      /\ walk.slots \in Nat
  <2>1. walk.slots \in 0..TIMER_WHEEL_SLOTS
    BY <1>1 DEF TypeOK
  <2>2. walk.slots \in Nat
    BY <2>1, ConstantFacts
  <2> QED BY <1>1, <2>2 DEF TypeOK, Entries, Walks, Running
<1>3. ASSUME NEW r \in Rels, NEW p \in Periods(r), olsr_start_timer(r, p)
      PROVE  PendingInv'
  <2>1. PICK t \in olsr_cookie_malloc, j \in Jitters(r) :
           entry' = [entry EXCEPT ![t] = [clock |-> olsr_getTimestamp(r - j),
                                          period |-> p, running |-> TRUE]]
    BY <1>3 DEF olsr_start_timer
  <2>2. t \in Blocks /\ t \notin Running
    <3>1. CASE free_list = << >>
      BY <3>1 DEF olsr_cookie_malloc
    <3>2. CASE free_list # << >>
      <4>1. t = Head(free_list)
        BY <3>2 DEF olsr_cookie_malloc
      <4> QED BY <1>1, <3>2, <4>1, TailList DEF TypeOK
    <3> QED BY <3>1, <3>2
  <2>3. UNCHANGED <<now_times, timer_last_run, walk>>
    BY <1>3 DEF olsr_start_timer
  <2>4. ASSUME NEW x \in Blocks, NEW c \in Times, Armed(x, c)'
        PROVE  Armed(x, c) \/ (Due(c) > 0 /\ x \notin Range(walk'.tmp))
    <3>1. CASE x = t
      <4>1. c = olsr_getTimestamp(r - j)
        BY <1>2, <2>1, <2>2, <2>4, <3>1 DEF Armed
      <4>2. t \notin Range(walk'.tmp)
        BY <1>1, <2>2, <2>3 DEF Filed
      <4> QED BY <1>1, <3>1, <4>1, <4>2, SetDue
    <3>2. CASE x # t
      BY <1>2, <2>1, <2>4, <3>2 DEF Armed, Running
    <3> QED BY <3>1, <3>2
  <2> QED BY <1>1, <2>3, <2>4, UserPending
<1>4. ASSUME NEW t \in Blocks, NEW r \in Rels, NEW p \in Periods(r), olsr_change_timer(t, r, p)
      PROVE  PendingInv'
  <2>1. /\ t \in Running /\ UNCHANGED <<now_times, timer_last_run, free_list>>
        /\ walk' = [walk EXCEPT !.tmp = Unlinked(@, t)]
    BY <1>4 DEF olsr_change_timer
  <2>2. PICK j \in Jitters(r) : Rescheduled(t, r, p, j)
    BY <1>4 DEF olsr_change_timer
  <2>3. /\ entry' \in [Blocks -> Entries] /\ Running' = Running
        /\ entry'[t].clock = olsr_getTimestamp(r - j)
        /\ \A x \in Blocks \ {t} : entry'[x] = entry[x]
    BY <1>1, <2>1, <2>2, RescheduledWheel
  <2>4. Range(Unlinked(walk.tmp, t)) = Range(walk.tmp) \ {t}
    BY <1>1, UnlinkedList DEF Filed
  <2>5. /\ walk'.tmp = Unlinked(walk.tmp, t)
        /\ walk'.at = walk.at /\ walk'.timer = walk.timer /\ walk'.slots = walk.slots
    BY <1>2, <2>1 DEF Walks
  <2>6. ASSUME NEW x \in Blocks, NEW c \in Times, Armed(x, c)'
        PROVE  Armed(x, c) \/ (Due(c) > 0 /\ x \notin Range(walk'.tmp))
    <3>1. CASE x = t
      <4>1. c = olsr_getTimestamp(r - j)
        BY <2>3, <2>6, <3>1 DEF Armed
      <4> QED BY <1>1, <2>4, <2>5, <3>1, <4>1, SetDue
    <3>2. CASE x # t
      BY <2>3, <2>6, <3>2 DEF Armed
    <3> QED BY <3>1, <3>2
  <2> QED BY <1>1, <2>1, <2>4, <2>5, <2>6, UserPending
<1>5. ASSUME NEW t \in Blocks, olsr_stop_timer(t)
      PROVE  PendingInv'
  <2>1. /\ t \in Running /\ UNCHANGED <<now_times, timer_last_run>> /\ Stopped(t)
        /\ walk' = [walk EXCEPT !.tmp = Unlinked(@, t)]
    BY <1>5 DEF olsr_stop_timer
  <2>2. Running' = Running \ {t} /\ \A x \in Blocks \ {t} : entry'[x] = entry[x]
    BY <1>1, <2>1, StoppedWheel
  <2>3. Range(Unlinked(walk.tmp, t)) = Range(walk.tmp) \ {t}
    BY <1>1, UnlinkedList DEF Filed
  <2>4. /\ walk'.tmp = Unlinked(walk.tmp, t)
        /\ walk'.at = walk.at /\ walk'.timer = walk.timer /\ walk'.slots = walk.slots
    BY <1>2, <2>1 DEF Walks
  <2>5. \A x \in Blocks, c \in Times : Armed(x, c)' => Armed(x, c)
    BY <2>2 DEF Armed
  <2> QED BY <1>1, <2>1, <2>3, <2>4, <2>5, UserPending
<1>6. CASE olsr_times
  <2>1. PICK d \in Gaps : d + Lag <= MAX_STALL /\ now_times' = (now_times + d) % CLOCK_MOD
    BY <1>6 DEF olsr_times, Lag
  <2>2. /\ walk.at \in {"idle", "walked"} /\ walk' = NoWalk
        /\ UNCHANGED <<timer_last_run, timer_wheel, entry, free_list>>
    BY <1>6 DEF olsr_times
  <2>3. walk.slots = 0 /\ walk'.slots = 0 /\ walk'.at = "idle"
    BY <1>1, <2>2 DEF NoWalk
  <2>4. ASSUME NEW t \in Blocks, NEW c \in Times, Armed(t, c)'
        PROVE  WaitsIdle(c)' /\ Due(c)' > -(Horizon + MAX_STALL)
    <3>1. Armed(t, c)
      BY <2>2, <2>4 DEF Armed, Running
    <3>2. WaitsIdle(c)
      BY <2>2, <3>1 DEF PendingInv
    <3> QED BY <1>1, <2>1, <2>2, <2>3, <3>2, TickWaits
  <2>5. Lag' <= MAX_STALL
    <3>1. d \in Times /\ d \in Int /\ d >= 0
      BY ConstantFacts DEF Times
    <3>2. /\ now_times \in Times /\ timer_last_run \in Times
          /\ Lag = IF now_times >= timer_last_run THEN now_times - timer_last_run
                   ELSE now_times - timer_last_run + CLOCK_MOD
      BY <1>1, LagPlain
    <3>3. now_times' = IF now_times + d < CLOCK_MOD THEN now_times + d ELSE now_times + d - CLOCK_MOD
      BY <2>1, <3>1, <3>2, WrapOnce DEF Times
    <3>4. now_times' \in Times /\ timer_last_run' \in Times
      BY <2>2, <3>1, <3>2, <3>3, ConstantFacts DEF Times
    <3>5. Lag' = IF now_times' >= timer_last_run' THEN now_times' - timer_last_run'
                 ELSE now_times' - timer_last_run' + CLOCK_MOD
      BY <3>4, WrapOnce DEF Lag, Times
    <3> QED BY <2>1, <2>2, <3>1, <3>2, <3>3, <3>5, ConstantFacts DEF Times
  <2> QED BY <2>3, <2>4, <2>5 DEF PendingInv, Horizon
<1>7. CASE WalkBegins
  <2>1. /\ walk.at = "idle" /\ walk' = [NoWalk EXCEPT !.at = "slot"]
        /\ UNCHANGED <<now_times, timer_last_run, timer_wheel, entry, free_list>>
    BY <1>7 DEF WalkBegins
  <2>2. walk.slots = 0 /\ walk'.tmp = << >> /\ walk'.slots = 0 /\ walk'.at = "slot"
    BY <1>1, <2>1 DEF NoWalk
  <2>3. ASSUME NEW t \in Blocks, NEW c \in Times, Armed(t, c)'
        PROVE  WaitsWalk(c)' /\ Due(c)' > -(Horizon + MAX_STALL)
    <3>1. Armed(t, c)
      BY <2>1, <2>3 DEF Armed, Running
    <3>2. WaitsIdle(c) /\ Lag <= MAX_STALL /\ Due(c) > -(Horizon + MAX_STALL)
      BY <2>1, <3>1 DEF PendingInv
    <3>3. Due(c)' = Due(c)
      BY <2>1 DEF Due
    <3> QED BY <1>1, <2>1, <2>2, <3>2, <3>3, BeginWaits
  <2> QED BY <2>2, <2>3, EmptyList DEF PendingInv, Horizon
<1>8. CASE WalkTimer
  <2> DEFINE t == Head(timer_wheel[ThisSlot])
             due == olsr_isTimedOut(entry[t].clock)
  <2>1. /\ walk.at = "slot" /\ timer_wheel[ThisSlot] # << >>
        /\ UNCHANGED <<now_times, timer_last_run, entry, free_list>>
    BY <1>8 DEF WalkTimer
  <2>2. ThisSlot \in Slots
    <3>1. timer_last_run \in Int
      BY <1>1, ConstantFacts DEF TypeOK
    <3> QED BY <3>1, SlotInSlots DEF ThisSlot
  <2>3. t = Head(timer_wheel[ThisSlot])
    OBVIOUS
  <2>4. \/ /\ due
           /\ walk' = [walk EXCEPT !.tmp = <<t>> \o @, !.at = "cb", !.timer = t]
        \/ /\ ~due
           /\ walk' = [walk EXCEPT !.tmp = <<t>> \o @, !.at = "slot", !.timer = NoTimer]
    BY <1>8 DEF WalkTimer
  <2> HIDE DEF t
  <2>5. t \in Running /\ t \in Blocks /\ Range(<<t>> \o walk.tmp) = Range(walk.tmp) \cup {t}
    <3>1. Filed(timer_wheel, Running, SlotOf(entry), walk.tmp) /\ timer_wheel[ThisSlot] # << >>
      BY <1>1, <2>1
    <3>2. /\ t \in Running /\ t \in Blocks /\ t \notin Range(walk.tmp) /\ SlotOf(entry)[t] = ThisSlot
          /\ Filed([timer_wheel EXCEPT ![ThisSlot] = Tail(@)], Running, SlotOf(entry),
                   <<t>> \o walk.tmp)
          /\ Range(<<t>> \o walk.tmp) = Range(walk.tmp) \cup {t}
      BY <2>2, <2>3, <3>1, WalkFiled
    <3> QED BY <3>2
  <2>6. /\ walk'.tmp = <<t>> \o walk.tmp /\ walk'.slots = walk.slots /\ walk'.at \in {"slot", "cb"}
        /\ due => walk'.timer = t
    BY <1>2, <2>4 DEF Walks
  <2>7. \A x \in Blocks, c \in Times : Armed(x, c)' <=> Armed(x, c)
    BY <2>1 DEF Armed, Running
  <2>8. \A c \in Times : Due(c)' = Due(c) /\ (WaitsWalk(c)' <=> WaitsWalk(c))
    BY <2>1, <2>6, StillWaits
  <2>9. ASSUME NEW x \in Blocks \ {walk'.timer}, NEW c \in Times, Armed(x, c)
        PROVE  WaitsWalk(c) /\ (x \in Range(walk'.tmp) => Due(c) > 0)
    <3>1. x # walk.timer
      BY <1>1, <2>1, ConstantFacts
    <3>2. WaitsWalk(c) /\ (x \in Range(walk.tmp) => Due(c) > 0)
      BY <2>1, <2>9, <3>1 DEF PendingInv
    <3>3. ASSUME x = t PROVE Due(c) > 0
      <4>1. ~olsr_isTimedOut(c)
        BY <2>6, <2>9, <3>3 DEF Armed
      <4>2. Due(c) > -(Horizon + MAX_STALL)
        BY <2>9 DEF PendingInv
      <4>3. Due(c) \in Int
        BY <1>1, DueType
      <4> DEFINE u == Due(c)
      <4>4. u > -HALF
        <5>1. u > -(Horizon + MAX_STALL) /\ u \in Int
          BY <4>2, <4>3
        <5> HIDE DEF u
        <5> QED BY <5>1, ConstantFacts DEF Horizon
      <4> QED BY <1>1, <4>1, <4>4, TimedOutDue DEF Times
    <3> QED BY <2>5, <2>6, <3>2, <3>3
  <2>10. \A x \in Blocks, c \in Times : Armed(x, c) => Due(c) > -(Horizon + MAX_STALL)
    BY DEF PendingInv
  <2> HIDE DEF due
  <2> QED BY <2>6, <2>7, <2>8, <2>9, <2>10 DEF PendingInv, Horizon
<1>9. CASE CallbackReturns
  <2> DEFINE t == walk.timer
             u == IF t \in Running THEN Unlinked(walk.tmp, t) ELSE walk.tmp
  <2>1. /\ walk.at = "cb" /\ UNCHANGED <<now_times, timer_last_run>>
        /\ walk' = [walk EXCEPT !.at = "slot", !.timer = NoTimer, !.tmp = u]
    BY <1>9 DEF CallbackReturns
  <2>2. t \in Blocks
    BY <1>1, <1>2, <2>1 DEF Walks
  <2>3. Range(Unlinked(walk.tmp, t)) = Range(walk.tmp) \ {t}
    BY <1>1, UnlinkedList DEF Filed
  <2>4. walk'.at = "slot" /\ walk'.timer = NoTimer /\ walk'.tmp = u /\ walk'.slots = walk.slots
    BY <1>2, <2>1 DEF Walks
  <2>5. ASSUME NEW x \in Blocks, NEW c \in Times, Armed(x, c)'
        PROVE  \/ Armed(x, c) /\ x # t
               \/ Due(c) > 0 /\ x \notin Range(u)
    <3>1. CASE /\ t \in Running
               /\ entry[t].period > 0
               /\ \E j \in Jitters(entry[t].period) :
                     Rescheduled(t, entry[t].period, entry[t].period, j)
      <4>1. entry[t].period \in Rels /\ entry[t].period \in Periods(entry[t].period)
        BY <1>2, <2>2, <3>1 DEF Entries, Periods
      <4>2. PICK j \in Jitters(entry[t].period) :
               Rescheduled(t, entry[t].period, entry[t].period, j)
        BY <3>1
      <4>3. /\ Running' = Running /\ entry'[t].clock = olsr_getTimestamp(entry[t].period - j)
            /\ \A y \in Blocks \ {t} : entry'[y] = entry[y]
        BY <1>1, <3>1, <4>1, <4>2, RescheduledWheel
      <4>4. CASE x = t
        <5>1. c = olsr_getTimestamp(entry[t].period - j)
          BY <2>5, <4>3, <4>4 DEF Armed
        <5>2. Due(c) > 0
          BY <1>1, <4>1, <5>1, SetDue
        <5> QED BY <2>3, <3>1, <4>4, <5>2
      <4>5. CASE x # t
        BY <2>5, <4>3, <4>5 DEF Armed
      <4> QED BY <4>4, <4>5
    <3>2. CASE t \in Running /\ Stopped(t)
      <4>1. Running' = Running \ {t} /\ \A y \in Blocks \ {t} : entry'[y] = entry[y]
        BY <1>1, <3>2, StoppedWheel
      <4> QED BY <2>5, <4>1 DEF Armed
    <3>3. CASE t \notin Running /\ UNCHANGED <<timer_wheel, entry, free_list>>
      <4>1. Running' = Running
        BY <3>3 DEF Running
      <4> QED BY <2>5, <3>3, <4>1 DEF Armed
    <3> QED BY <1>9, <3>1, <3>2, <3>3 DEF CallbackReturns
  <2>6. Range(u) \subseteq Range(walk.tmp)
    BY <2>3
  <2> HIDE DEF u
  <2> QED BY <1>1, <2>1, <2>4, <2>5, <2>6, UserPending
<1>10. CASE SlotWalked
  <2>1. /\ walk.at = "slot" /\ MoreSlots /\ timer_wheel[ThisSlot] = << >>
        /\ timer_last_run' = (timer_last_run + 1) % CLOCK_MOD
        /\ walk' = [walk EXCEPT !.tmp = << >>, !.slots = @ + 1]
        /\ UNCHANGED <<now_times, entry, free_list>>
    BY <1>10 DEF SlotWalked
  <2>2. walk'.at = "slot" /\ walk'.tmp = << >> /\ walk'.slots = walk.slots + 1 /\ walk'.timer = walk.timer
    BY <1>2, <2>1 DEF Walks
  <2>3. ASSUME NEW x \in Blocks \ {walk.timer}, NEW c \in Times, Armed(x, c)'
        PROVE  WaitsWalk(c)'
    <3>1. Armed(x, c)
      BY <2>1, <2>3 DEF Armed, Running
    <3>2. WaitsWalk(c) /\ (x \in Range(walk.tmp) => Due(c) > 0)
      BY <2>1, <2>3, <3>1 DEF PendingInv
    <3>3. ASSUME Slot(c) = ThisSlot PROVE x \in Range(walk.tmp)
      <4>1. x \in Running /\ SlotOf(entry)[x] = ThisSlot
        BY <3>1, <3>3 DEF Armed, SlotOf
      <4>2. x \notin Range(timer_wheel[ThisSlot])
        BY <2>1, EmptyList
      <4>3. ThisSlot \in Slots
        <5>1. timer_last_run \in Int
          BY <1>1, ConstantFacts DEF TypeOK
        <5> QED BY <5>1, SlotInSlots DEF ThisSlot
      <4> QED BY <1>1, <4>1, <4>2, <4>3 DEF Filed
    <3> QED BY <1>1, <1>2, <2>1, <2>2, <3>2, <3>3, SlotWaits
  <2>4. ASSUME NEW x \in Blocks, NEW c \in Times, Armed(x, c)'
        PROVE  Due(c)' > -(Horizon + MAX_STALL)
    <3>1. Armed(x, c) /\ Due(c)' = Due(c)
      BY <2>1, <2>4 DEF Armed, Running, Due
    <3> QED BY <3>1 DEF PendingInv
  <2> QED BY <2>2, <2>3, <2>4, EmptyList DEF PendingInv, Horizon
<1>11. CASE WalkEnds
  <2>1. /\ walk.at = "slot" /\ ~MoreSlots /\ timer_last_run' = now_times
        /\ walk' = [NoWalk EXCEPT !.at = "walked"]
        /\ UNCHANGED <<now_times, timer_wheel, entry, free_list>>
    BY <1>11 DEF WalkEnds
  <2>2. walk'.at = "walked" /\ walk'.slots = 0
    BY <2>1 DEF NoWalk
  <2>3. ASSUME NEW x \in Blocks, NEW c \in Times, Armed(x, c)'
        PROVE  WaitsIdle(c)' /\ Due(c)' > -(Horizon + MAX_STALL)
    <3>1. Armed(x, c) /\ Due(c)' = Due(c)
      BY <2>1, <2>3 DEF Armed, Running, Due
    <3>2. x # walk.timer
      BY <1>1, <2>1, ConstantFacts
    <3>3. WaitsWalk(c) /\ Due(c) > -(Horizon + MAX_STALL)
      BY <2>1, <3>1, <3>2 DEF PendingInv
    <3> QED BY <1>1, <1>2, <2>1, <2>2, <3>1, <3>3, EndWaits
  <2>4. Lag' <= MAX_STALL
    <3>1. now_times \in 0..(CLOCK_MOD - 1)
      BY <1>1 DEF TypeOK
    <3>2. (now_times - now_times) % CLOCK_MOD = 0
      BY <3>1, WrapOnce, ConstantFacts
    <3> QED BY <2>1, <3>2, ConstantFacts DEF Lag
  <2> QED BY <2>1, <2>2, <2>3, <2>4 DEF PendingInv, Horizon
<1>12. CASE UNCHANGED vars
  <2>1. /\ UNCHANGED <<now_times, timer_last_run, walk>>
        /\ \A x \in Blocks, c \in Times : Armed(x, c)' => Armed(x, c)
    BY <1>12 DEF vars, Armed, Running
  <2> QED BY <1>1, <2>1, UserPending
<1> QED
  BY <1>3, <1>4, <1>5, <1>6, <1>7, <1>8, <1>9, <1>10, <1>11, <1>12 DEF Next, User, walk_timers

\* LateOnlyAfterWrap holds for every wheel and every clock: after a walk no
\* timer is due, except for those in the slots skipped when the clock wrapped,
\* and these are late by less than a round and the longest stall.
THEOREM TimersLate == Spec => []LateOnlyAfterWrap
<1>1. WheelInv /\ [Next]_vars => WheelInv'
  BY WheelStep
<1>2. WheelInv /\ PendingInv /\ [Next]_vars => PendingInv'
  BY PendingStep
<1>3. WheelInv /\ PendingInv => LateOnlyAfterWrap
  <2> SUFFICES ASSUME WheelInv, PendingInv, walk.at = "walked",
                      NEW t \in Running, olsr_isTimedOut(entry[t].clock)
               PROVE  /\ now_times < TIMER_WHEEL_SLOTS + MAX_STALL
                      /\ Due(entry[t].clock) > -(TIMER_WHEEL_SLOTS + MAX_STALL)
    BY DEF LateOnlyAfterWrap
  <2> DEFINE c == entry[t].clock
             u == Due(c)
  <2>1. TypeOK /\ t \in Blocks /\ c \in Times /\ Armed(t, c) /\ walk.slots = 0
    BY DEF WheelInv, TypeOK, Running, Armed, Times
  <2> HIDE DEF c
  <2>2. u <= 0 /\ u \in Int
    BY <2>1, TimedOutDue DEF Times, c
  <2>3. WaitsIdle(c) /\ timer_last_run = now_times
    BY <2>1 DEF PendingInv
  <2>4. now_times \in Times /\ Lag = 0
    <3>1. now_times \in 0..(CLOCK_MOD - 1)
      BY <2>1 DEF TypeOK
    <3>2. (now_times - now_times) % CLOCK_MOD = 0
      BY <3>1, WrapOnce, ConstantFacts
    <3> QED BY <2>3, <3>1, <3>2 DEF Lag, Times
  <2>5. ~(Due(c) + Lag > 0)
    BY <2>2, <2>4
  <2>6. PICK i \in Nat : Visits(c, i) /\ Skipped(c, i)
    BY <2>3, <2>5 DEF WaitsIdle
  <2>7. now_times <= i /\ i < Horizon /\ u + now_times - i > -Horizon
    BY <2>3, <2>6 DEF Visits, Skipped
  <2> HIDE DEF u
  <2>8. now_times < Horizon /\ u > -Horizon
    BY <2>2, <2>4, <2>7, ConstantFacts DEF Horizon, Times
  <2> QED BY <2>8 DEF Horizon, u, c
<1> QED BY <1>1, <1>2, <1>3, WheelInit, PendingInit, PTL DEF Spec

(* Timers implements Deadlines. *)

\* The refinement mapping.
Left == [t \in Running |-> Due(entry[t].clock)]
Period == [t \in Running |-> entry[t].period]

LEMMA MappingAt ==
    /\ Left = [t \in Running |-> DueAt(now_times, entry[t].clock)]
    /\ Left' = [t \in Running' |-> DueAt(now_times', entry'[t].clock)]
    /\ Period' = [t \in Running' |-> entry'[t].period]
BY DEF Left, Period, Due, DueAt

LEMMA EmptyMap == ASSUME NEW f, f = [x \in {} |-> f[x]] PROVE f = << >>
<1>1. 1 .. 0 = {}
  OBVIOUS
<1>2. f \in [1 .. 0 -> {}]
  BY <1>1
<1>3. f \in Seq({}) /\ Len(f) = 0
  BY <1>2
<1> QED BY <1>3, EmptySeq

LEMMA DeadlinesInit == Init => D!Init
<1> SUFFICES ASSUME Init PROVE D!Init
  OBVIOUS
<1>1. Running = {}
  BY DEF Init, Running, NotRunning
<1>2. Left = << >> /\ Period = << >>
  BY <1>1, EmptyMap DEF Left, Period
<1>3. walk.timer = NoTimer
  BY DEF Init, NoWalk
<1> QED BY <1>2, <1>3 DEF D!Init, Left, Period

\* A timer that is set, by a user or anew.
LEMMA SetMaps ==
    ASSUME NEW t \in Blocks, NEW v, NEW p, now_times' = now_times,
           Running' = Running \cup {t}, Running \subseteq Blocks,
           \A x \in Blocks \ {t} : entry'[x] = entry[x],
           DueAt(now_times, entry'[t].clock) = v, entry'[t].period = p
    PROVE  Left' = D!Arm(Left, t, v) /\ Period' = D!Arm(Period, t, p)
BY MappingAt DEF D!Arm, Period

\* A timer that is stopped.
LEMMA StopMaps ==
    ASSUME NEW t \in Blocks, now_times' = now_times,
           Running' = Running \ {t}, Running \subseteq Blocks,
           \A x \in Blocks \ {t} : entry'[x] = entry[x]
    PROVE  Left' = D!Disarm(Left, t) /\ Period' = D!Disarm(Period, t)
BY MappingAt DEF D!Disarm, Period

\* A step that changes no timer.
LEMMA SameMaps ==
    ASSUME UNCHANGED <<now_times, entry>>
    PROVE  Left' = Left /\ Period' = Period
BY DEF Left, Period, Running, Due

\* Each step of Timers is a step of Deadlines or leaves its state alone.
LEMMA DeadlinesStep ==
    ASSUME WheelInv, PendingInv, [Next]_vars
    PROVE  [D!Next]_(D!vars)
<1>1. /\ TypeOK /\ Filed(timer_wheel, Running, SlotOf(entry), walk.tmp)
      /\ IsInjective(free_list) /\ Range(free_list) \cap Running = {}
      /\ walk.at \in {"idle", "walked"} => walk.slots = 0
      /\ walk.timer = NoTimer <=> walk.at # "cb"
  BY DEF WheelInv
<1>2. /\ entry \in [Blocks -> Entries] /\ walk \in Walks /\ Running \subseteq Blocks
      /\ now_times \in Times
  BY <1>1 DEF TypeOK, Entries, Walks, Running, Times
<1>3. /\ \A t, r, p : D!Set(t, r, p) <=>
            /\ t \in Running \/ t # walk.timer
            /\ \E j \in Jitters(r) : Left' = D!Arm(Left, t, r - j)
            /\ Period' = D!Arm(Period, t, p)
            /\ walk'.timer = walk.timer
      /\ \A t : D!Stop(t) <=>
            /\ t \in Running /\ Left' = D!Disarm(Left, t) /\ Period' = D!Disarm(Period, t)
            /\ walk'.timer = walk.timer
      /\ \A t : D!Fire(t) <=>
            /\ walk.timer = NoTimer /\ t \in Running /\ Left[t] <= 0
            /\ walk'.timer = t /\ Left' = Left /\ Period' = Period
  BY DEF D!Set, D!Stop, D!Fire, D!Pending, D!Jitters, Jitters, Left, Period
<1>4. D!Return <=>
         LET t == walk.timer
         IN  /\ t # NoTimer /\ walk'.timer = NoTimer
             /\ \/ t \notin Running /\ Left' = Left /\ Period' = Period
                \/ /\ t \in Running /\ Period[t] = 0
                   /\ Left' = D!Disarm(Left, t) /\ Period' = D!Disarm(Period, t)
                \/ /\ t \in Running /\ Period[t] > 0
                   /\ \E j \in Jitters(Period[t]) : Left' = [Left EXCEPT ![t] = Period[t] - j]
                   /\ Period' = Period
  BY DEF D!Return, D!Pending, D!Jitters, Jitters, Left, Period
<1>5. D!Tick <=>
         /\ walk.timer = NoTimer
         /\ \E d \in Gaps : Left' = [t \in Running |-> Left[t] - d]
         /\ Period' = Period /\ walk'.timer = walk.timer
  BY DEF D!Tick, D!Pending, Left, Period
<1>6. Left' = Left /\ Period' = Period /\ walk'.timer = walk.timer => UNCHANGED D!vars
  BY DEF D!vars, Left, Period
<1>7. ASSUME NEW r \in Rels, NEW p \in Periods(r), olsr_start_timer(r, p)
      PROVE  D!Next
  <2>1. PICK t \in olsr_cookie_malloc, j \in Jitters(r) :
           entry' = [entry EXCEPT ![t] = [clock |-> olsr_getTimestamp(r - j),
                                          period |-> p, running |-> TRUE]]
    BY <1>7 DEF olsr_start_timer
  <2>2. t \in Blocks /\ t \notin Running
    <3>1. CASE free_list = << >>
      BY <3>1 DEF olsr_cookie_malloc
    <3>2. CASE free_list # << >>
      <4>1. t = Head(free_list)
        BY <3>2 DEF olsr_cookie_malloc
      <4> QED BY <1>1, <3>2, <4>1, TailList DEF TypeOK
    <3> QED BY <3>1, <3>2
  <2>3. UNCHANGED <<now_times, timer_last_run, walk>> /\ (walk.at = "cb" => walk.timer \in Running)
    <3>1. walk.at = "cb" => walk.timer \in Blocks
      BY <1>1, <1>2 DEF Walks
    <3> QED BY <1>7, <3>1 DEF olsr_start_timer, MayStart, Running
  <2>4. t # walk.timer
    BY <1>1, <2>2, <2>3, ConstantFacts
  <2>5. /\ \A x \in Blocks \ {t} : entry'[x] = entry[x]
        /\ entry'[t].clock = olsr_getTimestamp(r - j) /\ entry'[t].period = p
        /\ Running' = Running \cup {t}
    BY <1>2, <2>1, <2>2 DEF Running
  <2>6. DueAt(now_times, entry'[t].clock) = r - j
    BY <1>2, <2>5, SetNotDue DEF olsr_getTimestamp, Times
  <2>7. Left' = D!Arm(Left, t, r - j) /\ Period' = D!Arm(Period, t, p)
    BY <1>2, <2>2, <2>3, <2>5, <2>6, SetMaps
  <2>8. D!Set(t, r, p)
    BY <1>3, <2>3, <2>4, <2>7
  <2> QED BY <2>2, <2>8 DEF D!Next, D!Periods, Periods
<1>8. ASSUME NEW t \in Blocks, NEW r \in Rels, NEW p \in Periods(r), olsr_change_timer(t, r, p)
      PROVE  D!Next
  <2>1. /\ t \in Running /\ UNCHANGED <<now_times, timer_last_run, free_list>>
        /\ walk' = [walk EXCEPT !.tmp = Unlinked(@, t)]
    BY <1>8 DEF olsr_change_timer
  <2>2. PICK j \in Jitters(r) : Rescheduled(t, r, p, j)
    BY <1>8 DEF olsr_change_timer
  <2>3. /\ Running' = Running /\ entry'[t].clock = olsr_getTimestamp(r - j) /\ entry'[t].period = p
        /\ \A x \in Blocks \ {t} : entry'[x] = entry[x]
    BY <1>1, <2>1, <2>2, RescheduledWheel
  <2>4. walk'.timer = walk.timer
    BY <1>2, <2>1 DEF Walks
  <2>5. DueAt(now_times, entry'[t].clock) = r - j
    BY <1>2, <2>3, SetNotDue DEF olsr_getTimestamp, Times
  <2>6. Running' = Running \cup {t}
    BY <2>1, <2>3
  <2>7. Left' = D!Arm(Left, t, r - j) /\ Period' = D!Arm(Period, t, p)
    BY <1>2, <2>1, <2>3, <2>5, <2>6, SetMaps
  <2>8. D!Set(t, r, p)
    BY <1>3, <2>1, <2>4, <2>7
  <2> QED BY <2>8 DEF D!Next, D!Periods, Periods
<1>9. ASSUME NEW t \in Blocks, olsr_stop_timer(t)
      PROVE  D!Next
  <2>1. /\ t \in Running /\ UNCHANGED <<now_times, timer_last_run>> /\ Stopped(t)
        /\ walk' = [walk EXCEPT !.tmp = Unlinked(@, t)]
    BY <1>9 DEF olsr_stop_timer
  <2>2. Running' = Running \ {t} /\ \A x \in Blocks \ {t} : entry'[x] = entry[x]
    BY <1>1, <2>1, StoppedWheel
  <2>3. walk'.timer = walk.timer
    BY <1>2, <2>1 DEF Walks
  <2>4. Left' = D!Disarm(Left, t) /\ Period' = D!Disarm(Period, t)
    BY <1>2, <2>1, <2>2, StopMaps
  <2>5. D!Stop(t)
    BY <1>3, <2>1, <2>3, <2>4
  <2> QED BY <2>5 DEF D!Next
<1>10. CASE olsr_times
  <2>1. PICK d \in Gaps : d + Lag <= MAX_STALL /\ now_times' = (now_times + d) % CLOCK_MOD
    BY <1>10 DEF olsr_times, Lag
  <2>2. /\ walk.at \in {"idle", "walked"} /\ walk' = NoWalk
        /\ UNCHANGED <<timer_last_run, timer_wheel, entry, free_list>>
    BY <1>10 DEF olsr_times
  <2>3. walk.slots = 0 /\ walk'.slots = 0 /\ walk.timer = NoTimer /\ walk'.timer = NoTimer
    BY <1>1, <2>2 DEF NoWalk
  <2>4. ASSUME NEW t \in Running
        PROVE  DueAt(now_times', entry[t].clock) = DueAt(now_times, entry[t].clock) - d
    <3>1. PICK c \in Times : c = entry[t].clock
      BY <1>2 DEF Entries, Times
    <3>2. Armed(t, c) /\ t \in Blocks
      BY <1>2, <3>1 DEF Armed
    <3>3. WaitsIdle(c)
      BY <2>2, <3>2 DEF PendingInv
    <3>4. Due(c)' = Due(c) - d
      BY <1>1, <2>1, <2>2, <2>3, <3>3, TickWaits
    <3> QED BY <3>1, <3>4 DEF Due, DueAt
  <2>5. Left' = [t \in Running |-> Left[t] - d] /\ Period' = Period
    <3>1. Running' = Running /\ entry' = entry
      BY <2>2 DEF Running
    <3>2. Left' = [t \in Running |-> DueAt(now_times', entry[t].clock)]
      BY <3>1, MappingAt
    <3>3. \A t \in Running : Left[t] = DueAt(now_times, entry[t].clock)
      BY MappingAt
    <3>4. Left' = [t \in Running |-> Left[t] - d]
      BY <2>4, <3>2, <3>3
    <3> QED BY <3>1, <3>4 DEF Period
  <2>6. D!Tick
    BY <1>5, <2>3, <2>5
  <2> QED BY <2>6 DEF D!Next
<1>11. CASE WalkBegins
  <2>1. walk.at = "idle" /\ walk' = [NoWalk EXCEPT !.at = "slot"] /\ UNCHANGED <<now_times, entry>>
    BY <1>11 DEF WalkBegins
  <2>2. walk'.timer = walk.timer
    BY <1>1, <2>1 DEF NoWalk
  <2> QED BY <1>6, <2>1, <2>2, SameMaps
<1>12. CASE WalkTimer
  <2> DEFINE t == Head(timer_wheel[ThisSlot])
             due == olsr_isTimedOut(entry[t].clock)
  <2>1. /\ walk.at = "slot" /\ timer_wheel[ThisSlot] # << >> /\ UNCHANGED <<now_times, entry>>
    BY <1>12 DEF WalkTimer
  <2>2. \/ /\ due
           /\ walk' = [walk EXCEPT !.tmp = <<t>> \o @, !.at = "cb", !.timer = t]
        \/ /\ ~due
           /\ walk' = [walk EXCEPT !.tmp = <<t>> \o @, !.at = "slot", !.timer = NoTimer]
    BY <1>12 DEF WalkTimer
  <2>3. walk.timer = NoTimer
    BY <1>1, <2>1
  <2>4. CASE ~due
    <3>1. walk'.timer = NoTimer
      BY <1>2, <2>2, <2>4 DEF Walks
    <3> QED BY <1>6, <2>1, <2>3, <3>1, SameMaps
  <2>5. CASE due
    <3>1. walk'.timer = t
      BY <1>2, <2>2, <2>5 DEF Walks
    <3>2. t \in Running
      <4>1. ThisSlot \in Slots
        <5>1. timer_last_run \in Int
          BY <1>1, ConstantFacts DEF TypeOK
        <5> QED BY <5>1, SlotInSlots DEF ThisSlot
      <4>2. t \in Range(timer_wheel[ThisSlot]) /\ t \in Blocks
        BY <1>1, <2>1, <4>1, TailList DEF Filed
      <4> QED BY <1>1, <4>1, <4>2 DEF Filed
    <3> HIDE DEF t
    <3>3. Due(entry[t].clock) <= 0
      <4>1. entry[t].clock \in 0..(CLOCK_MOD - 1)
        BY <1>2, <3>2 DEF Entries
      <4> QED BY <1>1, <2>5, <4>1, TimedOutDue
    <3>4. Left[t] <= 0
      BY <3>2, <3>3 DEF Left
    <3>5. D!Fire(t)
      BY <1>3, <2>1, <2>3, <3>1, <3>2, <3>4, SameMaps
    <3> QED BY <1>2, <3>2, <3>5 DEF D!Next
  <2> QED BY <2>4, <2>5
<1>13. CASE CallbackReturns
  <2> DEFINE t == walk.timer
  <2>1. /\ walk.at = "cb" /\ UNCHANGED now_times /\ walk'.timer = NoTimer
    BY <1>2, <1>13 DEF CallbackReturns, Walks
  <2>2. t \in Blocks /\ t # NoTimer
    BY <1>1, <1>2, <2>1 DEF Walks
  <2>3. CASE /\ t \in Running
             /\ entry[t].period > 0
             /\ \E j \in Jitters(entry[t].period) :
                   Rescheduled(t, entry[t].period, entry[t].period, j)
    <3> DEFINE r == entry[t].period
    <3>1. r \in Rels /\ r \in Periods(r) /\ Period[t] = r
      BY <1>2, <2>2, <2>3 DEF Entries, Periods, Period
    <3>2. PICK j \in Jitters(r) : Rescheduled(t, r, r, j)
      BY <2>3
    <3>3. /\ Running' = Running /\ entry'[t].clock = olsr_getTimestamp(r - j) /\ entry'[t].period = r
          /\ \A x \in Blocks \ {t} : entry'[x] = entry[x]
      BY <1>1, <2>3, <3>1, <3>2, RescheduledWheel
    <3>4. DueAt(now_times, entry'[t].clock) = r - j
      BY <1>2, <3>1, <3>3, SetNotDue DEF olsr_getTimestamp, Times
    <3>5. Running' = Running \cup {t}
      BY <2>3, <3>3
    <3>6. Left' = D!Arm(Left, t, r - j) /\ Period' = D!Arm(Period, t, r)
      BY <1>2, <2>1, <2>2, <3>3, <3>4, <3>5, SetMaps
    <3>7. Left' = [Left EXCEPT ![t] = r - j]
      BY <2>3, <3>6 DEF D!Arm, Left
    <3>8. Period' = Period
      BY <2>3, <3>6 DEF D!Arm, Period
    <3>9. D!Return
      BY <1>4, <2>1, <2>2, <2>3, <3>1, <3>7, <3>8
    <3> QED BY <3>9 DEF D!Next
  <2>4. CASE t \in Running /\ entry[t].period = 0 /\ Stopped(t)
    <3>1. Running' = Running \ {t} /\ \A x \in Blocks \ {t} : entry'[x] = entry[x]
      BY <1>1, <2>4, StoppedWheel
    <3>2. Left' = D!Disarm(Left, t) /\ Period' = D!Disarm(Period, t)
      BY <1>2, <2>1, <2>2, <3>1, StopMaps
    <3>3. Period[t] = 0
      BY <2>4 DEF Period
    <3>4. D!Return
      BY <1>4, <2>1, <2>2, <2>4, <3>2, <3>3
    <3> QED BY <3>4 DEF D!Next
  <2>5. CASE t \notin Running /\ UNCHANGED <<timer_wheel, entry, free_list>>
    <3>1. D!Return
      BY <1>4, <2>1, <2>2, <2>5, SameMaps
    <3> QED BY <3>1 DEF D!Next
  <2> QED BY <1>13, <2>3, <2>4, <2>5 DEF CallbackReturns
<1>14. CASE SlotWalked
  <2>1. UNCHANGED <<now_times, entry>> /\ walk'.timer = walk.timer
    BY <1>2, <1>14 DEF SlotWalked, Walks
  <2> QED BY <1>6, <2>1, SameMaps
<1>15. CASE WalkEnds
  <2>1. UNCHANGED <<now_times, entry>> /\ walk'.timer = NoTimer /\ walk.at = "slot"
    BY <1>15 DEF WalkEnds, NoWalk
  <2>2. walk.timer = NoTimer
    BY <1>1, <2>1
  <2> QED BY <1>6, <2>1, <2>2, SameMaps
<1>16. CASE UNCHANGED vars
  BY <1>6, <1>16, SameMaps DEF vars
<1> QED
  BY <1>7, <1>8, <1>9, <1>10, <1>11, <1>12, <1>13, <1>14, <1>15, <1>16 DEF Next, User, walk_timers

\* The wheel implements Deadlines for every set of blocks, wheel and clock: only
\* due timers are called back, one at a time, a one-shot timer is then gone and
\* a periodic one armed again, and nothing else ends a timer than its callback
\* or its user.
THEOREM TimersImplement == Spec => Implements
<1>1. WheelInv /\ [Next]_vars => WheelInv'
  BY WheelStep
<1>2. WheelInv /\ PendingInv /\ [Next]_vars => PendingInv'
  BY PendingStep
<1>3. WheelInv /\ PendingInv /\ [Next]_vars => [D!Next]_(D!vars)
  BY DeadlinesStep
<1> QED BY <1>1, <1>2, <1>3, WheelInit, PendingInit, DeadlinesInit, PTL DEF Spec, Implements, D!Spec
=============================================================================
