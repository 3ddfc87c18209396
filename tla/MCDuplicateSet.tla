---------------------------- MODULE MCDuplicateSet ----------------------------
(* DuplicateSet on a small instance: either many messages while the clock    *)
(* stands still, or the first few while it runs past several clean-ups.      *)
EXTENDS DuplicateSet

MCScenarios == clock = 0 \/ \A o \in Originators : sent[o] <= 3
=============================================================================
