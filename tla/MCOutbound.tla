------------------------------ MODULE MCOutbound ------------------------------
(* Model-checking instance of Outbound: one topic (so two channels, the    *)
(* default one and the topic's), two producer goroutines, channels of      *)
(* capacity one.                                                           *)
EXTENDS Outbound, TLC

CONSTANTS t1, q1, q2, dflt

MCTopics == {t1}
MCProducers == {q1, q2}
=============================================================================
