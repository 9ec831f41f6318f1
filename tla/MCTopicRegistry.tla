--------------------------- MODULE MCTopicRegistry ---------------------------
(* Model-checking instance of TopicRegistry: topics and identifiers are    *)
(* model values.                                                           *)
EXTENDS TopicRegistry, TLC

CONSTANTS t1, t2, t3, id1

MCTopics3 == {t1, t2, t3}
MCIds1 == {id1}
=============================================================================
