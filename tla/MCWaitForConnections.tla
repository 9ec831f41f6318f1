------------------------ MODULE MCWaitForConnections ------------------------
(* Model-checking instance of WaitForConnections: the poll interval is    *)
(* shorter than the deadline, so a call can poll, miss, and poll again.   *)
EXTENDS WaitForConnections, TLC
=============================================================================
