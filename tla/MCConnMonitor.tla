---------------------------- MODULE MCConnMonitor ----------------------------
(* Model values for checking ConnMonitor with TLC.                         *)
EXTENDS ConnMonitor, TLC

CONSTANTS t1, p1, p2, e1, e2

MCTopics == {t1}
MCPeers == {p1, p2}
MCEvaluators == {e1, e2}

(* Peers, and application evaluators, are interchangeable.                *)
MCSymmetry == Permutations(MCPeers) \cup Permutations(MCEvaluators)

=============================================================================
