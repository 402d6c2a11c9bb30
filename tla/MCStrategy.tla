----------------------------- MODULE MCStrategy -----------------------------
(***************************************************************************)
(* TLC instances of Strategy: two paths, k = 2.                            *)
(***************************************************************************)
EXTENDS Strategy

\* Weights 2.0 and 0.4 (counted in halves, 0.4 rounds to 0), both enabled.
Both == [path_count |-> 2, enabled |-> [p \in Path |-> TRUE],
         weight |-> [p \in Path |-> IF p = 0 THEN 4 ELSE 0],
         redundancy_ratio |-> 3, probe_loss_threshold |-> 6, ewma_alpha |-> 4]

\* Path 0 disabled with a lower weight, a ratio of 2.5; the alpha is out of range.
FirstOff == [Both EXCEPT !.enabled[0] = FALSE, !.weight[0] = 2,
                         !.redundancy_ratio = 5, !.ewma_alpha = 0]

\* A file with only one path left, of weight 1.5, and a ratio of 4.0.
OnePath == [Both EXCEPT !.path_count = 1, !.weight[0] = 3, !.redundancy_ratio = 8]

MCConfig == {Both, FirstOff, OnePath}
=============================================================================
