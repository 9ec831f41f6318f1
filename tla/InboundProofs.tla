---------------------------- MODULE InboundProofs ----------------------------
(***************************************************************************)
(* Proofs about the inbound pipeline, for every set of messages and peers, *)
(* every timestamp and every cache duration and advance.                   *)
(*                                                                         *)
(* A message runs through the processors a second time only after its     *)
(* seen-cache entry has expired, i.e. once the clock is past the entry's   *)
(* time plus CacheDur; the entry is never older than the first run; and    *)
(* the lower bound of validMessageByTimestamp then puts the timestamp      *)
(* after that first run.  SeenIInv records exactly this history in the     *)
(* state: an entry is not from the future, the first run happened no later *)
(* than the last time the message entered the cache, and a processed       *)
(* message that left the cache left it after CacheDur had passed.          *)
(***************************************************************************)
EXTENDS Inbound, TLAPS

SeenTypeOK ==
    /\ now \in Nat
    /\ seen \subseteq Msgs
    /\ seenAt \in [Msgs -> Nat]
    /\ processed \in [Msgs -> Nat]
    /\ firstAt \in [Msgs -> Nat]

SeenIInv ==
    /\ SeenTypeOK
    /\ \A m \in Msgs :
          /\ seenAt[m] <= now
          /\ processed[m] > 0 => firstAt[m] <= seenAt[m]
          /\ (processed[m] > 0 /\ m \notin seen) => now > seenAt[m] + CacheDur

(* The processor step of pubsubCallback, as far as processed and firstAt   *)
(* are concerned: the count of m goes up by one and firstAt[m] is set on   *)
(* its first run, or nothing changes.                                      *)
LEMMA CallbackEffect ==
    ASSUME SeenIInv, NEW m \in Msgs, NEW p \in Peers, PubsubCallback(m, p)
    PROVE  \/ /\ ValidMessageByTimestamp(m)
              /\ processed' = [processed EXCEPT ![m] = @ + 1]
              /\ firstAt' = IF processed[m] = 0 THEN [firstAt EXCEPT ![m] = now]
                                                ELSE firstAt
           \/ UNCHANGED <<processed, firstAt>>
BY DEF PubsubCallback, BlacklistPids

LEMMA SeenIInvInit == Init => SeenIInv
BY InboundAssumption DEF Init, SeenIInv, SeenTypeOK

LEMMA SeenIInvStep == SeenIInv /\ [Next]_vars => SeenIInv'
<1> SUFFICES ASSUME SeenIInv, [Next]_vars PROVE SeenIInv'
    OBVIOUS
<1> USE InboundAssumption
<1>1. CASE RegStep
    BY <1>1 DEF RegStep, inVars, SeenIInv, SeenTypeOK
<1>2. CASE Tick
    BY <1>2 DEF Tick, SeenIInv, SeenTypeOK
<1>3. ASSUME NEW m \in Msgs, SeenExpires(m) PROVE SeenIInv'
    BY <1>3 DEF SeenExpires, SeenIInv, SeenTypeOK
<1>4. ASSUME NEW m \in Msgs, NEW p \in Peers, DeliverUnvalidated(m, p)
      PROVE SeenIInv'
    BY <1>4 DEF DeliverUnvalidated, SeenIInv, SeenTypeOK
<1>5. ASSUME NEW m \in Msgs, NEW p \in Peers, PubsubCallback(m, p)
      PROVE SeenIInv'
    <2>1. /\ now' = now
          /\ seen' = seen \cup {m}
          /\ seenAt' = [seenAt EXCEPT ![m] = now]
        BY <1>5 DEF PubsubCallback
    <2>2. CASE UNCHANGED <<processed, firstAt>>
        BY <2>1, <2>2 DEF SeenIInv, SeenTypeOK
    <2>3. CASE /\ processed' = [processed EXCEPT ![m] = @ + 1]
               /\ firstAt' = IF processed[m] = 0 THEN [firstAt EXCEPT ![m] = now]
                                                 ELSE firstAt
        BY <2>1, <2>3 DEF SeenIInv, SeenTypeOK
    <2>4. QED
        BY <1>5, <2>2, <2>3, CallbackEffect
<1>6. CASE UNCHANGED vars
    BY <1>6 DEF vars, inVars, SeenIInv, SeenTypeOK
<1>7. QED
    BY <1>1, <1>2, <1>3, <1>4, <1>5, <1>6 DEF Next

(* The step property under SeenIInv: a run of the processors on a message  *)
(* they already ran on sees a timestamp later than the first run.          *)
LEMMA ReprocessStep ==
    SeenIInv /\ [Next]_vars =>
        [\A m \in Msgs :
            (processed[m] > 0 /\ processed'[m] > processed[m]) => MsgTs[m] > firstAt[m]
        ]_vars
<1> SUFFICES ASSUME SeenIInv, [Next]_vars,
                    NEW m \in Msgs, processed[m] > 0, processed'[m] > processed[m]
             PROVE  MsgTs[m] > firstAt[m]
    OBVIOUS
<1> USE InboundAssumption
<1>1. PICK m0 \in Msgs, p \in Peers :
          /\ PubsubCallback(m0, p)
          /\ ValidMessageByTimestamp(m0)
          /\ processed' = [processed EXCEPT ![m0] = @ + 1]
    <2>1. ~UNCHANGED processed
        BY DEF SeenIInv, SeenTypeOK
    <2>2. \E m0 \in Msgs, p \in Peers : PubsubCallback(m0, p) /\ ~UNCHANGED processed
        BY <2>1 DEF Next, RegStep, inVars, Tick, SeenExpires, DeliverUnvalidated, vars
    <2>3. QED
        BY <2>2, CallbackEffect
<1>2. m0 = m
    BY <1>1 DEF SeenIInv, SeenTypeOK
<1>3. m \notin seen
    BY <1>1, <1>2 DEF PubsubCallback
<1>4. now > firstAt[m] + CacheDur
    BY <1>3 DEF SeenIInv, SeenTypeOK
<1>5. QED
    BY <1>1, <1>2, <1>4 DEF ValidMessageByTimestamp, SeenIInv, SeenTypeOK

(* The processors of a topic run a second time on a message only when its  *)
(* timestamp is later than their first run on it: pubsub's seen-cache and  *)
(* the timestamp window of transformAndCheckMessage together let only a    *)
(* message stamped in advance through again once its cache entry expires.  *)
THEOREM ReprocessOnlyIfStampedAheadHolds == Spec => ReprocessOnlyIfStampedAhead
<1>1. Init => SeenIInv
    BY SeenIInvInit
<1>2. SeenIInv /\ [Next]_vars => SeenIInv'
    BY SeenIInvStep
<1>3. SeenIInv /\ [Next]_vars =>
          [\A m \in Msgs :
              (processed[m] > 0 /\ processed'[m] > processed[m]) => MsgTs[m] > firstAt[m]
          ]_vars
    BY ReprocessStep
<1>4. QED
    BY <1>1, <1>2, <1>3, PTL DEF Spec, ReprocessOnlyIfStampedAhead

=============================================================================
