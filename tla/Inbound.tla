------------------------------ MODULE Inbound ------------------------------
(***************************************************************************)
(* The inbound pubsub pipeline of the network messenger, composed with the *)
(* topic-processor registry it reads.                                      *)
(*                                                                         *)
(* go-libp2p-pubsub drops a message whose id is in its seen-cache, and     *)
(* marks an unseen one as seen before it runs the topic validator, so user *)
(* validators run at most once per cache entry.  An entry added at time f  *)
(* expires once the clock is past f + CacheDur (pubsub.TimeCacheDuration,  *)
(* set to pubsubTimeCacheDuration in init()).  The topic validator is      *)
(* netMes.pubsubCallback: transformAndCheckMessage, then every processor   *)
(* of the topic.  Time is counted in whole units; CacheDur and Advance     *)
(* stand for pubsubTimeCacheDuration and acceptMessagesInAdvanceDuration.  *)
(***************************************************************************)
EXTENDS TopicRegistry, Integers

CONSTANTS
    Peers,        \* remote peers that deliver or originate messages
    Msgs,         \* pubsub messages, told apart by their message id
    MsgTopic,     \* MsgTopic[m]: the topic m is published on
    MsgFrom,      \* MsgFrom[m]: the originator (pbMsg.From)
    MsgTs,        \* MsgTs[m]: the envelope's Timestamp
    MsgCorrupt,   \* MsgCorrupt[m]: the envelope does not unmarshal
    CacheDur,     \* pubsubTimeCacheDuration
    Advance,      \* acceptMessagesInAdvanceDuration
    MaxTime       \* last instant of the sync timer explored

ASSUME InboundAssumption ==
    /\ MsgTopic \in [Msgs -> Topics]
    /\ MsgFrom \in [Msgs -> Peers]
    /\ MsgTs \in [Msgs -> Nat]
    /\ MsgCorrupt \in [Msgs -> BOOLEAN]
    /\ CacheDur \in Nat /\ Advance \in Nat /\ Advance < CacheDur
    /\ MaxTime \in Nat

VARIABLES
    now,         \* netMes.syncTimer.CurrentTime(), in whole units
    seen,        \* message ids in pubsub's seen-cache
    seenAt,      \* seenAt[m]: when m entered the seen-cache
    denied,      \* peers the PeerDenialEvaluator denies
    processed,   \* processed[m]: times the processors of m's topic ran on m
    firstAt      \* firstAt[m]: when the processors first ran on m

inVars == <<now, seen, seenAt, denied, processed, firstAt>>
vars == <<regVars, inVars>>

-----------------------------------------------------------------------------
(* Mutant: the lower bound of the window is one unit too generous.         *)
ValidMessageByTimestampLoose(m) ==
    /\ ~(now + Advance < MsgTs[m])
    /\ ~(MsgTs[m] < now - CacheDur - 1)

(* validMessageByTimestamp: too new if now + Advance < Timestamp, too old  *)
(* if Timestamp < now - pubsubTimeCacheDuration.                           *)
ValidMessageByTimestamp(m) ==
    /\ ~(now + Advance < MsgTs[m])
    /\ ~(MsgTs[m] < now - CacheDur)

(* blacklistPid for each of the given peers: an already denied peer is     *)
(* left as it is, any other is upserted into the denial evaluator.         *)
BlacklistPids(ps) == denied' = denied \cup ps

-----------------------------------------------------------------------------
Init ==
    /\ RegInit
    /\ now = 0
    /\ seen = {}
    /\ seenAt = [m \in Msgs |-> 0]
    /\ denied = {}
    /\ processed = [m \in Msgs |-> 0]
    /\ firstAt = [m \in Msgs |-> 0]

(* The sync timer advances.                                                *)
Tick ==
    /\ now < MaxTime
    /\ now' = now + 1
    /\ UNCHANGED <<regVars, seen, seenAt, denied, processed, firstAt>>

(* pubsub's seen-cache sweep drops an entry whose time is past.            *)
SeenExpires(m) ==
    /\ m \in seen
    /\ now > seenAt[m] + CacheDur
    /\ seen' = seen \ {m}
    /\ UNCHANGED <<regVars, now, seenAt, denied, processed, firstAt>>

(* pubsub receives m from connected peer p on a topic without a topic      *)
(* validator: it is marked seen and handed to the subscription, whose      *)
(* goroutine in CreateTopic discards it.                                   *)
DeliverUnvalidated(m, p) ==
    /\ ~ctxCancelled
    /\ m \notin seen
    /\ MsgTopic[m] \notin validators
    /\ seen' = seen \cup {m}
    /\ seenAt' = [seenAt EXCEPT ![m] = now]
    /\ UNCHANGED <<regVars, now, denied, processed, firstAt>>

(* pubsub receives m from connected peer p on a topic with a topic         *)
(* validator, marks it seen and calls pubsubCallback(topicProcs, topic).   *)
(* transformAndCheckMessage: an envelope that does not unmarshal gets the  *)
(* delivering peer and the originator blacklisted; a stale or early one is *)
(* dropped; otherwise every processor of the topic runs on the message.    *)
PubsubCallback(m, p) ==
    /\ ~ctxCancelled
    /\ m \notin seen
    /\ MsgTopic[m] \in validators
    /\ seen' = seen \cup {m}
    /\ seenAt' = [seenAt EXCEPT ![m] = now]
    /\ IF MsgCorrupt[m]
         THEN /\ BlacklistPids({p, MsgFrom[m]})
              /\ UNCHANGED <<processed, firstAt>>
         ELSE /\ UNCHANGED denied
              /\ IF ValidMessageByTimestamp(m)
                   THEN /\ processed' = [processed EXCEPT ![m] = @ + 1]
                        /\ firstAt' = IF processed[m] = 0
                                        THEN [firstAt EXCEPT ![m] = now]
                                        ELSE firstAt
                   ELSE UNCHANGED <<processed, firstAt>>
    /\ UNCHANGED <<regVars, now>>

RegStep == RegNext /\ UNCHANGED inVars

Next ==
    \/ RegStep
    \/ Tick
    \/ \E m \in Msgs :
          \/ SeenExpires(m)
          \/ \E p \in Peers : DeliverUnvalidated(m, p) \/ PubsubCallback(m, p)

Spec == Init /\ [][Next]_vars

-----------------------------------------------------------------------------
TypeOK ==
    /\ RegTypeOK
    /\ now \in 0..MaxTime
    /\ seen \subseteq Msgs
    /\ seenAt \in [Msgs -> 0..MaxTime]
    /\ denied \subseteq Peers
    /\ processed \in [Msgs -> Nat]
    /\ firstAt \in [Msgs -> 0..MaxTime]

(* The seen-cache and the timestamp window together: the processors of a  *)
(* topic run a second time on the same message only when the message      *)
(* carries a timestamp later than the instant they first ran on it, i.e.  *)
(* only a message accepted in advance (within acceptMessagesInAdvance-     *)
(* Duration) can be processed again once its seen-cache entry expires.     *)
ReprocessOnlyIfStampedAhead ==
    [][\A m \in Msgs :
         (processed[m] > 0 /\ processed'[m] > processed[m]) => MsgTs[m] > firstAt[m]
      ]_vars

(* The comment above validMessageByTimestamp and the one in transformAnd-  *)
(* CheckMessage: the window exists so that the same message is not         *)
(* processed over and over again; the processors run at most once on a     *)
(* message.                                                                *)
NoReprocessing == \A m \in Msgs : processed[m] <= 1

(* Spec 8: every message the processors run on has                         *)
(* now - pubsubTimeCacheDuration < timestamp <= now + acceptMessagesIn-    *)
(* AdvanceDuration when they run.                                          *)
ProcessedMessagesFresh ==
    [][\A m \in Msgs :
         processed'[m] > processed[m] =>
             now - CacheDur < MsgTs[m] /\ MsgTs[m] <= now + Advance
      ]_vars

=============================================================================
