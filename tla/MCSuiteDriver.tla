--------------------------- MODULE MCSuiteDriver ---------------------------
(***************************************************************************)
(* Suites of up to three tests over two fixtures, run twice, with room for *)
(* fewer results than they produce.                                        *)
(***************************************************************************)
EXTENDS SuiteDriver

CONSTANTS t1, t2, t3, fast, slow

Speed(id, fixture) == [id |-> id, fixture |-> fixture, kind |-> "Performance"]
Check(id, fixture) == [Speed(id, fixture) EXCEPT !.kind = "Correctness"]

\* run() gets its results from the fixtures, not from a set.
NoResults == {}

MCListeners == <<"console", "storage", "regression", "exit">>

MCSuites ==
  {<<>>, <<Check(t1, fast), Speed(t2, slow)>>, <<Speed(t1, slow), Check(t2, fast), Speed(t3, fast)>>}
=============================================================================
