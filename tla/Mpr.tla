---------------------------------- MODULE Mpr ----------------------------------
(***************************************************************************)
(* The selection of multipoint relays: the heuristic of RFC 3626 in mpr.c  *)
(* (lq_level 0) and the one by path costs in lq_mpr.c (lq_level 2), run by *)
(* olsr_process_changes whenever the neighbourhood changed.                *)
(*                                                                         *)
(* Neighbours are numbered in the order in which the hash table lists      *)
(* them.  The neighbourhood changes one entry at a time, in the ways the   *)
(* HELLO handler and the timers of Neighborhood change it.                 *)
(***************************************************************************)
EXTENDS Integers, SequencesExt

CONSTANTS
    Nbrs,           \* neighbours, 1 .. n
    TwoHops,        \* two hop neighbours, some of which may be neighbours
    Pairs,          \* neighbours and the two hop neighbours they may list
    WILL_ALWAYS,    \* 7
    Willingness,    \* the values of willingness that each neighbour announces
    Costs,          \* path and link costs below LINK_COST_BROKEN
    Coverages,      \* values of MprCoverage in the configuration
    LqLevels        \* 0 for mpr.c, 2 for lq_mpr.c

WILL_NEVER == 0
LINK_COST_BROKEN == 1 + Max(Costs)
Unreached == 0

ASSUME MprAssumption ==
    /\ Nbrs = 1 .. Cardinality(Nbrs) /\ Pairs \subseteq Nbrs \X TwoHops
    /\ \A n \in Nbrs : Willingness[n] \subseteq WILL_NEVER .. WILL_ALWAYS
    /\ Costs \subseteq Nat \ {Unreached} /\ Coverages \subseteq Nat \ {0}
    /\ LqLevels \subseteq {0, 2}

VARIABLES
    lq_level, mpr_coverage,     \* configuration
    status,         \* the symmetric neighbours
    willingness,
    linkcost,       \* cost of the best link to a neighbour
    path_linkcost,  \* cost from us over a neighbour to a two hop neighbour
    is_mpr,         \* the MPRs
    changes_neighborhood

config == <<lq_level, mpr_coverage>>
nbVars == <<status, willingness, linkcost, path_linkcost>>
vars == <<lq_level, mpr_coverage, status, willingness, linkcost, path_linkcost,
          is_mpr, changes_neighborhood>>

\* neighbor_2_list and neighbor_2_nblist
Reached == {p \in Pairs : path_linkcost[p] # Unreached}
TwoHopsOf(n) == {t \in TwoHops : <<n, t>> \in Reached}
NbrsOf(t) == {n \in Nbrs : <<n, t>> \in Reached}

\* Two hop neighbours that are not symmetric neighbours as well.
StrictOf(n) == TwoHopsOf(n) \ status

-----------------------------------------------------------------------------
(* mpr.c.  A calculation is a record that the functions thread through:    *)
(* the MPRs, mpr_covered_count, neighbor_2_nocov, two_hop_covered_count    *)
(* and whether the search over the levels of willingness is over.          *)

SymUpTo(n) == {k \in status : k <= n}

\* olsr_calculate_two_hop_neighbors.  Its local counters are never reset
\* between neighbours: neighbor_2_nocov and the sum grow along the list.
neighbor_2_nocov(n) ==
    IF n \in status THEN MapThenSumSet(LAMBDA k : Cardinality(StrictOf(k)), SymUpTo(n))
    ELSE Cardinality(UNION {StrictOf(k) : k \in SymUpTo(n)})

two_hop_count ==
    MapThenSumSet(LAMBDA n : Cardinality(UNION {StrictOf(k) : k \in SymUpTo(n)}), status)

\* olsr_clear_mprs and olsr_calculate_two_hop_neighbors
Cleared ==
    [mpr |-> {}, covered |-> [t \in TwoHops |-> 0],
     nocov |-> [n \in Nbrs |-> neighbor_2_nocov(n)], count |-> 0, done |-> FALSE]

olsr_chosen_mpr(n, c) ==
    LET covered == [t \in TwoHops |-> c.covered[t] + (IF t \in StrictOf(n) THEN 1 ELSE 0)]
        enough == {t \in StrictOf(n) : covered[t] >= mpr_coverage}
    IN  [c EXCEPT !.mpr = @ \cup {n}, !.covered = covered, !.count = @ + Cardinality(enough),
                  !.nocov = [k \in Nbrs |->
                      IF k \in status THEN @[k] - Cardinality(enough \cap TwoHopsOf(k)) ELSE @[k]]]

add_will_always_nodes(c) ==
    FoldSet(olsr_chosen_mpr, c, {n \in status : willingness[n] = WILL_ALWAYS})

\* olsr_find_2_hop_neighbors_with_1_link: the neighbours that alone reach a
\* two hop neighbour.
SoleLinks(will) ==
    {n \in status : willingness[n] = will /\ \E t \in StrictOf(n) : NbrsOf(t) = {n}}

\* olsr_find_maximum_covered: the first of those that cover most, or {}.
olsr_find_maximum_covered(will, c) ==
    LET open == {n \in Nbrs \ c.mpr : willingness[n] = will /\ c.nocov[n] > 0}
        best == {n \in open : \A k \in open : c.nocov[k] <= c.nocov[n]}
    IN  IF best = {} THEN {} ELSE {Min(best)}

Finished(c) == [c EXCEPT !.done = c.count >= two_hop_count]

\* One turn of the inner while loop.  Each adds an MPR, so that one turn for
\* each neighbour is enough.
Cover(will, c) ==
    LET found == olsr_find_maximum_covered(will, c)
    IN  IF c.done \/ found = {} THEN c
        ELSE Finished(olsr_chosen_mpr(CHOOSE n \in found : TRUE, c))

\* One turn of the loop over the levels of willingness.
Level(c, will) ==
    IF c.done THEN c
    ELSE LET sole == FoldSet(olsr_chosen_mpr, c, SoleLinks(will) \ c.mpr)
         IN  FoldSet(LAMBDA k, d : Cover(will, d), Finished(sole), Nbrs)

\* Mutant: a relay goes although it covers just enough.
MutantOptimize(c) ==
    c.mpr \ {n \in c.mpr : /\ willingness[n] \in WILL_NEVER + 1 .. WILL_ALWAYS - 1
                           /\ \A t \in StrictOf(n) : c.covered[t] >= mpr_coverage}

\* The counters are not updated when an MPR goes.
olsr_optimize_mpr_set(c) ==
    c.mpr \ {n \in c.mpr : /\ willingness[n] \in WILL_NEVER + 1 .. WILL_ALWAYS - 1
                           /\ \A t \in StrictOf(n) : c.covered[t] > mpr_coverage}

Levels == [i \in 1 .. WILL_ALWAYS - 1 |-> WILL_ALWAYS - i]

olsr_calculate_mpr ==
    olsr_optimize_mpr_set(FoldLeft(Level, add_will_always_nodes(Cleared), Levels))

-----------------------------------------------------------------------------
(* lq_mpr.c.                                                               *)

\* Costs that the path over an MPR must beat.
best_1hop(t) == IF t \in status THEN linkcost[t] ELSE LINK_COST_BROKEN

\* Mutant: the neighbour may have become asymmetric.
MutantCandidates(t) == {n \in NbrsOf(t) : path_linkcost[<<n, t>>] < best_1hop(t)}

\* Neighbours over which t is reached better than directly.
Candidates(t) == {n \in NbrsOf(t) \cap status : path_linkcost[<<n, t>>] < best_1hop(t)}

\* Mutant: the first neighbour of the list is taken for the best one.
MutantAddBest(t, chosen) ==
    LET rest == Candidates(t) \ chosen
    IN  IF rest = {} THEN chosen ELSE chosen \cup {Min(rest)}

\* One turn of the loop over mpr_coverage: add the best one not chosen yet.
AddBest(t, chosen) ==
    LET rest == Candidates(t) \ chosen
        best == {n \in rest : \A k \in rest : path_linkcost[<<n, t>>] <= path_linkcost[<<k, t>>]}
    IN  IF rest = {} THEN chosen ELSE chosen \cup {Min(best)}

RelaysFor(t) == FoldSet(LAMBDA k, chosen : AddBest(t, chosen), {}, 1 .. mpr_coverage)

olsr_calculate_lq_mpr ==
    {n \in status : willingness[n] = WILL_ALWAYS} \cup UNION {RelaysFor(t) : t \in TwoHops}

-----------------------------------------------------------------------------
(* Steps.                                                                  *)

\* Whether the ANSN grows is left to Neighborhood.
olsr_process_changes ==
    /\ changes_neighborhood
    /\ changes_neighborhood' = FALSE
    /\ is_mpr' = IF lq_level < 1 THEN olsr_calculate_mpr ELSE olsr_calculate_lq_mpr
    /\ UNCHANGED <<config, nbVars>>

Changed == changes_neighborhood' = TRUE /\ UNCHANGED <<config, is_mpr>>

\* update_neighbor_status; a symmetric neighbour leaves the two hop table.
update_neighbor_status(n) ==
    /\ Changed
    /\ status' = IF n \in status THEN status \ {n} ELSE status \cup {n}
    /\ path_linkcost' = [p \in Pairs |->
           IF p[2] = n /\ n \notin status THEN Unreached ELSE path_linkcost[p]]
    /\ UNCHANGED <<willingness, linkcost>>

\* olsr_hello_tap
SetWillingness(n) ==
    /\ Changed
    /\ \E w \in Willingness[n] \ {willingness[n]} : willingness' = [willingness EXCEPT ![n] = w]
    /\ UNCHANGED <<status, linkcost, path_linkcost>>

\* process_message_neighbors: a new entry or a cost below LINK_COST_BROKEN sets
\* the flag, a path that breaks does not.  Costs are left alone for lq_level 0.
ListTwoHop(p) ==
    /\ willingness[p[1]] # WILL_NEVER
    /\ \E c \in {LINK_COST_BROKEN} \cup (IF lq_level > 0 THEN Costs ELSE {}) :
          /\ path_linkcost' = [path_linkcost EXCEPT ![p] = c]
          /\ changes_neighborhood' =
                (changes_neighborhood \/ path_linkcost[p] = Unreached \/ c < LINK_COST_BROKEN)
    /\ UNCHANGED <<config, status, willingness, linkcost, is_mpr>>

\* olsr_expire_nbr2_list
olsr_expire_nbr2_list(p) ==
    /\ path_linkcost[p] # Unreached
    /\ Changed
    /\ path_linkcost' = [path_linkcost EXCEPT ![p] = Unreached]
    /\ UNCHANGED <<status, willingness, linkcost>>

\* A link quality handler changes the cost of a link, relevantly or not.
olsr_relevant_linkcost_change(n) ==
    /\ lq_level > 0
    /\ \E c \in (Costs \cup {LINK_COST_BROKEN}) \ {linkcost[n]} : linkcost' = [linkcost EXCEPT ![n] = c]
    /\ changes_neighborhood' \in {TRUE, changes_neighborhood}
    /\ UNCHANGED <<config, status, willingness, path_linkcost, is_mpr>>

Init ==
    /\ lq_level \in LqLevels /\ mpr_coverage \in Coverages
    /\ status = {} /\ is_mpr = {}
    /\ willingness = [n \in Nbrs |-> WILL_NEVER]
    /\ linkcost = [n \in Nbrs |-> LINK_COST_BROKEN]
    /\ path_linkcost = [p \in Pairs |-> Unreached]
    /\ changes_neighborhood = FALSE

Next ==
    \/ olsr_process_changes
    \/ \E n \in Nbrs : update_neighbor_status(n) \/ SetWillingness(n)
    \/ \E n \in Nbrs \cap TwoHops : olsr_relevant_linkcost_change(n)
    \/ \E p \in Pairs : ListTwoHop(p) \/ olsr_expire_nbr2_list(p)

Spec == Init /\ [][Next]_vars

-----------------------------------------------------------------------------
(* Properties.                                                             *)

Willing == {n \in status : willingness[n] > WILL_NEVER}

LqStep == olsr_process_changes /\ lq_level > 0
RfcStep == olsr_process_changes /\ lq_level < 1

\* lq_mpr.c covers every two hop neighbour by its mpr_coverage best relays: a
\* candidate that is left out has that many MPRs that are at least as good.
LqBestCovered ==
    [][LqStep => \A t \in TwoHops : \A n \in Candidates(t) \ is_mpr' :
          Cardinality({k \in Candidates(t) \cap is_mpr' :
                          path_linkcost[<<k, t>>] <= path_linkcost[<<n, t>>]}) >= mpr_coverage]_vars

\* lq_mpr.c selects symmetric neighbours only, and none without need: each is
\* WILL_ALWAYS or among the mpr_coverage best relays of a two hop neighbour.
LqNeeded ==
    [][LqStep => \A n \in is_mpr' :
          /\ n \in status
          /\ \/ willingness[n] = WILL_ALWAYS
             \/ \E t \in TwoHops :
                   /\ n \in Candidates(t)
                   /\ Cardinality({k \in Candidates(t) :
                         path_linkcost[<<k, t>>] < path_linkcost[<<n, t>>]}) < mpr_coverage]_vars

\* mpr.c keeps a relay without which a two hop neighbour is cut off, as long
\* as all willing neighbours are equally willing or WILL_ALWAYS.
SoleRelayKept ==
    [][RfcStep /\ Cardinality({willingness[n] : n \in Nbrs} \ {WILL_NEVER, WILL_ALWAYS}) <= 1 =>
          \A n \in Willing : \A t \in StrictOf(n) : NbrsOf(t) = {n} => n \in is_mpr']_vars
================================================================================
