------------------------ MODULE MCRegressionAnalyzer ------------------------
(***************************************************************************)
(* Two tests, plain and hotspot results, and a history that is trusted     *)
(* from its third sample on.                                               *)
(***************************************************************************)
EXTENDS RegressionAnalyzer

Plain(throughput) ==
  [runFailed |-> FALSE, deterministic |-> TRUE, isHotspotRun |-> FALSE,
   meanThroughput |-> throughput, readDivergenceRatio |-> 0, writeDivergenceRatio |-> 0]

Hotspot(read, write) ==
  [Plain(10) EXCEPT !.isHotspotRun = TRUE, !.readDivergenceRatio = read,
                    !.writeDivergenceRatio = write]

MCResults ==
  {Plain(10), Plain(11), Plain(20), Hotspot(3, 3), Hotspot(4, 4), Hotspot(4, 9),
   [Plain(10) EXCEPT !.deterministic = FALSE], [Plain(20) EXCEPT !.runFailed = TRUE]}
=============================================================================
