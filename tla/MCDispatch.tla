------------------------------ MODULE MCDispatch ------------------------------
(* Model-checking instance of Dispatch: two topics, two identifiers, two  *)
(* messages in flight.                                                     *)
EXTENDS Dispatch, TLC

CONSTANTS t1, t2, id1, id2, s1, s2

MCTopics == {t1, t2}
MCIds == {id1, id2}
MCSlots == {s1, s2}
=============================================================================
