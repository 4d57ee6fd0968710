------------------------------ MODULE MCTasks --------------------------------
(* Small sets of tasks, each a batch of MaxUnits units.                    *)
EXTENDS Tasks, TLC

Together == [t \in Task |-> CHOOSE k \in Kb : TRUE]
Apart == CHOOSE place \in [Task -> Kb] :
            \A t, q \in Task : place[t] = place[q] => t = q

Batch == [t \in Task |-> MaxUnits]

Symmetry == Permutations(Settings)
=============================================================================
