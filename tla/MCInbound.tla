------------------------------ MODULE MCInbound ------------------------------
(* Model-checking instance of Inbound: one topic with one processor, two   *)
(* remote peers, a well-formed message stamped at 1 and a corrupt one.     *)
EXTENDS Inbound, TLC

CONSTANTS t1, id1, p1, p2, m1, m2

MCTopics == {t1}
MCIds == {id1}
MCPeers == {p1, p2}
MCMsgs == {m1, m2}
MCMsgTopic == [m \in MCMsgs |-> t1]
MCMsgFrom == (m1 :> p1) @@ (m2 :> p2)
MCMsgTs == [m \in MCMsgs |-> 1]
MCMsgCorrupt == (m1 :> FALSE) @@ (m2 :> TRUE)
=============================================================================
