------------------------ MODULE MCAggregatePipeline ------------------------
(* Four series of which the filter drops one or none: the first has any    *)
(* samples, the others have gaps, a stale marker and an early end.         *)
EXTENDS AggregatePipeline

Times == 0..3
MCInputs ==
  { [live  |-> <<L \ S, {1, 3}, {0}, {0, 2}>>, stale |-> <<S, {2}, {}, {3}>>,
     group |-> <<"a", "b", "a", "b">>, match |-> M, batch |-> B] :
      L \in SUBSET Times, S \in SUBSET {1, 3}, M \in {{1, 2, 3, 4}, {1, 3, 4}, {1}}, B \in 0..2 }
=============================================================================
