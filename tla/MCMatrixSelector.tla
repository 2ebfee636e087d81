-------------------------- MODULE MCMatrixSelector --------------------------
(* Small queries for the matrix selector: windows that overlap, touch and  *)
(* leave gaps, with and without an offset, and an instant query.           *)
EXTENDS MatrixSelector

Query(start, step, steps, range, offset) ==
  [start |-> start, step |-> step, steps |-> steps, range |-> range, offset |-> offset, lookback |-> 3]

MCQueries ==
  { Query(2, 1, 4, 3, 0), Query(2, 2, 2, 2, 0), Query(1, 3, 2, 1, -1), Query(3, 1, 3, 2, 1),
    Query(3, 1, 1, 3, 0) }
MCValues == [h : BOOLEAN, n : {1, 2}]
=============================================================================
