-------------------------- MODULE MCPeersOnChannel --------------------------
(* Model values for checking PeersOnChannel with TLC.                      *)
EXTENDS PeersOnChannel, TLC

CONSTANTS t1, t2, c1, c2

MCTopics == {t1, t2}
MCCallers == {c1, c2}

=============================================================================
