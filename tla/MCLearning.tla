----------------------------- MODULE MCLearning -----------------------------
(***************************************************************************)
(* A small instance of the agent: LinUCB with a checkpoint for every task, *)
(* the best of which is to be saved, and rewards that are all negative.    *)
(***************************************************************************)
EXTENDS Learning

MCConfigs ==
  {[type |-> "lin-ucb", train |-> TRUE, load |-> FALSE, bootstrap |-> 0, frequency |-> 1, batch |-> 1,
    update |-> 1, capacity |-> -1, epsilon |-> [type |-> "scalar", start |-> 0, end |-> 0, total |-> 1],
    multiplier |-> 1, limit |-> {}, saving |-> "best-checkpoint"]}

MCNoModel == [t |-> 0, attempts |-> Zeros, weights |-> 0]

MCRewards == {-2, -1}

=============================================================================
