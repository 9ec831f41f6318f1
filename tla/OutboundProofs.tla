---------------------------- MODULE OutboundProofs ----------------------------
(***************************************************************************)
(* Proofs about the outbound path, for every set of producers, channel     *)
(* capacity and throttler maximum.  ThrottlerCounts is inductive once the  *)
(* producers' program counters are known to range over their states: each *)
(* step moves at most one producer into or out of InProcessing, and only  *)
(* StartProcessing and EndProcessing do, together with the counter.       *)
(* The load balancer is shown to implement ChannelFifos, spec 4.2's named  *)
(* FIFOs, under the mapping of the round-robin table to its set of names.  *)
(***************************************************************************)
EXTENDS Outbound, FiniteSetTheorems, TLAPS

PcStates == {"idle", "check", "start", "send", "end"}

CountIInv ==
    /\ pc \in [Producers -> PcStates]
    /\ ThrottlerCounts

(* The set of producers in processing is finite.                          *)
LEMMA InProcessingFinite ==
    ASSUME pc \in [Producers -> PcStates]
    PROVE  IsFiniteSet(InProcessing)
BY OutboundAssumption, FS_Subset DEF InProcessing

(* A step that moves no producer into or out of processing keeps the set. *)
LEMMA SameInProcessing ==
    ASSUME pc \in [Producers -> PcStates],
           NEW p \in Producers,
           pc' = [pc EXCEPT ![p] = pc'[p]],
           (pc[p] \in {"send", "end"}) <=> (pc'[p] \in {"send", "end"})
    PROVE  InProcessing' = InProcessing
BY DEF InProcessing

(* Spec 4.3: whatever producers are rejected, blocked on a full channel or *)
(* done, the counter of NumGoRoutinesThrottler equals the number of        *)
(* BroadcastOnChannelBlocking goroutines between StartProcessing and       *)
(* EndProcessing.                                                          *)
THEOREM ThrottlerCountsHolds == Spec => []ThrottlerCounts
<1>1. Init => CountIInv
    <2> SUFFICES ASSUME Init PROVE CountIInv
        OBVIOUS
    <2>1. InProcessing = {}
        BY DEF Init, InProcessing
    <2>2. QED
        BY <2>1, FS_EmptySet DEF Init, CountIInv, ThrottlerCounts, PcStates
<1>2. CountIInv /\ [Next]_outVars => CountIInv'
    <2> SUFFICES ASSUME CountIInv, [Next]_outVars PROVE CountIInv'
        OBVIOUS
    <2>0. IsFiniteSet(InProcessing)
        BY InProcessingFinite DEF CountIInv
    <2> USE DEF CountIInv, ThrottlerCounts
    <2>1. ASSUME NEW p \in Producers, NEW c \in ChanNames, BroadcastOnChannel(p, c)
          PROVE  CountIInv'
        <3>1. InProcessing' = InProcessing
            BY <2>1, SameInProcessing DEF BroadcastOnChannel
        <3>2. QED
            BY <2>1, <3>1 DEF BroadcastOnChannel, PcStates
    <2>2. ASSUME NEW p \in Producers, CanProcess(p) PROVE CountIInv'
        <3>1. InProcessing' = InProcessing
            BY <2>2, SameInProcessing DEF CanProcess
        <3>2. QED
            BY <2>2, <3>1 DEF CanProcess, PcStates
    <2>3. ASSUME NEW p \in Producers, StartProcessing(p) PROVE CountIInv'
        <3>1. InProcessing' = InProcessing \cup {p}
            BY <2>3 DEF StartProcessing, InProcessing
        <3>2. p \notin InProcessing
            BY <2>3 DEF StartProcessing, InProcessing
        <3>3. Cardinality(InProcessing') = Cardinality(InProcessing) + 1
            BY <2>0, <3>1, <3>2, FS_AddElement
        <3>4. QED
            BY <2>3, <3>3 DEF StartProcessing, PcStates
    <2>4. ASSUME NEW p \in Producers, Enqueue(p) PROVE CountIInv'
        <3>1. InProcessing' = InProcessing
            BY <2>4, SameInProcessing DEF Enqueue
        <3>2. QED
            BY <2>4, <3>1 DEF Enqueue, PcStates
    <2>5. ASSUME NEW p \in Producers, EndProcessing(p) PROVE CountIInv'
        <3>1. InProcessing' = InProcessing \ {p}
            BY <2>5 DEF EndProcessing, InProcessing
        <3>2. p \in InProcessing
            BY <2>5 DEF EndProcessing, InProcessing
        <3>3. Cardinality(InProcessing') = Cardinality(InProcessing) - 1
            BY <2>0, <3>1, <3>2, FS_RemoveElement
        <3>4. QED
            BY <2>5, <3>3 DEF EndProcessing, PcStates
    <2>6. CASE SendFromChannels
        BY <2>6 DEF SendFromChannels, InProcessing
    <2>7. ASSUME NEW t \in Topics, NEW b \in BOOLEAN, CreateTopic(t, b) PROVE CountIInv'
        BY <2>7 DEF CreateTopic, InProcessing
    <2>8. CASE UnjoinAllTopics
        BY <2>8 DEF UnjoinAllTopics, InProcessing
    <2>9. CASE CloseOutbound
        BY <2>9 DEF CloseOutbound, InProcessing
    <2>10. CASE UNCHANGED outVars
        BY <2>10 DEF outVars, InProcessing
    <2>11. QED
        BY <2>1, <2>2, <2>3, <2>4, <2>5, <2>6, <2>7, <2>8, <2>9, <2>10 DEF Next
<1>3. CountIInv => ThrottlerCounts
    BY DEF CountIInv
<1>4. QED
    BY <1>1, <1>2, <1>3, PTL DEF Spec

-----------------------------------------------------------------------------
(* The load balancer implements spec 4.2's named FIFOs.  LBInv is what the *)
(* refinement needs: the round-robin table is a non-empty sequence of      *)
(* channel names holding the default one, the cursor points into it, and   *)
(* a producer about to send holds a channel that was added, because        *)
(* GetChannelOrDefault only returns added names and names are never        *)
(* removed while it blocks.                                                *)

LBInv ==
    /\ lbNames \in Seq(ChanNames)
    /\ DefaultChannel \in Added
    /\ cursor \in 1..Len(lbNames)
    /\ queue \in [ChanNames -> Seq(Producers)]
    /\ pc \in [Producers -> PcStates]
    /\ target \in [Producers -> ChanNames]
    /\ reqCh \in [Producers -> ChanNames]
    /\ \A p \in Producers : pc[p] = "send" => target[p] \in Added

(* Appending a name to the table adds exactly that name.                  *)
LEMMA AddedAppend ==
    ASSUME NEW S, NEW s \in Seq(S), NEW c \in S
    PROVE  {Append(s, c)[i] : i \in DOMAIN Append(s, c)} = {s[i] : i \in DOMAIN s} \cup {c}
<1>1. DOMAIN Append(s, c) = 1..(Len(s) + 1)
    OBVIOUS
<1>2. \A i \in 1..Len(s) : Append(s, c)[i] = s[i]
    OBVIOUS
<1>3. Append(s, c)[Len(s) + 1] = c
    OBVIOUS
<1>4. DOMAIN s = 1..Len(s)
    OBVIOUS
<1>5. QED
    BY <1>1, <1>2, <1>3, <1>4

(* The round-robin scan only visits positions of the table.               *)
LEMMA RoundRobinInRange ==
    ASSUME LBInv, NEW k \in 1..Len(lbNames)
    PROVE  RoundRobinPos(k) \in 1..Len(lbNames)
<1>1. Len(lbNames) \in Nat \ {0}
    BY DEF LBInv
<1>2. cursor + k - 1 \in Nat
    BY DEF LBInv
<1>3. QED
    BY <1>1, <1>2 DEF RoundRobinPos

(* CreateTopic either leaves the table or adds the topic's name.          *)
LEMMA CreateTopicAdded ==
    ASSUME LBInv, NEW t \in Topics, NEW b \in BOOLEAN, CreateTopic(t, b)
    PROVE  /\ lbNames' \in Seq(ChanNames)
           /\ Len(lbNames') >= Len(lbNames)
           /\ Added' = IF b THEN Added \cup {t} ELSE Added
<1>1. t \in ChanNames
    BY DEF ChanNames
<1>2. CASE b /\ t \notin Added
    <2>1. lbNames' = Append(lbNames, t)
        BY <1>2 DEF CreateTopic, AddChannel
    <2>2. lbNames \in Seq(ChanNames)
        BY DEF LBInv
    <2>3. {Append(lbNames, t)[i] : i \in DOMAIN Append(lbNames, t)} = Added \cup {t}
        BY <1>1, <2>2, AddedAppend DEF Added
    <2>4. Added' = Added \cup {t}
        BY <2>1, <2>3 DEF Added
    <2>5. QED
        BY <1>1, <1>2, <2>1, <2>2, <2>4
<1>3. CASE b /\ t \in Added
    BY <1>3 DEF CreateTopic, AddChannel, LBInv, Added
<1>4. CASE ~b
    BY <1>4 DEF CreateTopic, LBInv, Added
<1>5. QED
    BY <1>2, <1>3, <1>4

LEMMA LBInvInit == Init => LBInv
BY OutboundAssumption DEF Init, LBInv, Added, ChanNames, PcStates

LEMMA LBInvStep == LBInv /\ [Next]_outVars => LBInv'
<1> SUFFICES ASSUME LBInv, [Next]_outVars PROVE LBInv'
    OBVIOUS
<1>1. ASSUME NEW p \in Producers, NEW c \in ChanNames, BroadcastOnChannel(p, c)
      PROVE  LBInv'
    BY <1>1 DEF BroadcastOnChannel, LBInv, Added, PcStates
<1>2. ASSUME NEW p \in Producers, CanProcess(p) PROVE LBInv'
    BY <1>2 DEF CanProcess, LBInv, Added, PcStates
<1>3. ASSUME NEW p \in Producers, StartProcessing(p) PROVE LBInv'
    <2>1. GetChannelOrDefault(reqCh[p]) \in Added \cap ChanNames
        BY DEF GetChannelOrDefault, LBInv, Added, ChanNames
    <2>2. QED
        BY <1>3, <2>1 DEF StartProcessing, LBInv, Added, PcStates
<1>4. ASSUME NEW p \in Producers, Enqueue(p) PROVE LBInv'
    BY <1>4 DEF Enqueue, LBInv, Added, PcStates
<1>5. ASSUME NEW p \in Producers, EndProcessing(p) PROVE LBInv'
    BY <1>5 DEF EndProcessing, LBInv, Added, PcStates
<1>6. CASE SendFromChannels
    <2>1. PICK k \in 1..Len(lbNames) :
              /\ queue' = [queue EXCEPT ![lbNames[RoundRobinPos(k)]] = Tail(@)]
              /\ cursor' = RoundRobinPos(k)
              /\ queue[lbNames[RoundRobinPos(k)]] # <<>>
        BY <1>6 DEF SendFromChannels, CollectOneElementFromChannels
    <2>2. RoundRobinPos(k) \in 1..Len(lbNames)
        BY RoundRobinInRange
    <2>3. lbNames[RoundRobinPos(k)] \in ChanNames
        BY <2>2 DEF LBInv
    <2>4. queue' \in [ChanNames -> Seq(Producers)]
        BY <2>1, <2>3 DEF LBInv
    <2>5. QED
        BY <1>6, <2>1, <2>2, <2>4 DEF SendFromChannels, LBInv, Added
<1>7. ASSUME NEW t \in Topics, NEW b \in BOOLEAN, CreateTopic(t, b) PROVE LBInv'
    <2>1. /\ lbNames' \in Seq(ChanNames)
          /\ Len(lbNames') >= Len(lbNames)
          /\ Added \subseteq Added'
        BY <1>7, CreateTopicAdded
    <2>2. QED
        BY <1>7, <2>1 DEF CreateTopic, LBInv
<1>8. CASE UnjoinAllTopics
    BY <1>8 DEF UnjoinAllTopics, LBInv, Added
<1>9. CASE CloseOutbound
    BY <1>9 DEF CloseOutbound, LBInv, Added
<1>10. CASE UNCHANGED outVars
    BY <1>10 DEF outVars, LBInv, Added
<1>11. QED
    BY <1>1, <1>2, <1>3, <1>4, <1>5, <1>6, <1>7, <1>8, <1>9, <1>10 DEF Next

(* Steps that touch neither the table nor the buffers are stutters of the *)
(* FIFOs.                                                                  *)
LEMMA RefineStutter ==
    UNCHANGED <<lbNames, queue>> => UNCHANGED LB!fifoVars
BY DEF LB!fifoVars, Added

(* The blocking send of producer p is a push on the channel it resolved.  *)
LEMMA RefineEnqueue ==
    ASSUME LBInv, NEW p \in Producers, Enqueue(p)
    PROVE  LB!FifoPush(target[p], p)
BY DEF Enqueue, LBInv, LB!FifoPush, Added, PcStates

(* One sender iteration that finds an element collects from an added     *)
(* channel.                                                                *)
LEMMA RefineSend ==
    ASSUME LBInv, SendFromChannels
    PROVE  \E c \in ChanNames : LB!FifoCollect(c)
<1>1. PICK k \in 1..Len(lbNames) :
          /\ queue' = [queue EXCEPT ![lbNames[RoundRobinPos(k)]] = Tail(@)]
          /\ queue[lbNames[RoundRobinPos(k)]] # <<>>
    BY DEF SendFromChannels, CollectOneElementFromChannels
<1>2. RoundRobinPos(k) \in 1..Len(lbNames)
    BY RoundRobinInRange
<1>3. /\ lbNames[RoundRobinPos(k)] \in ChanNames
      /\ lbNames[RoundRobinPos(k)] \in Added
    BY <1>2 DEF LBInv, Added
<1>4. UNCHANGED lbNames
    BY DEF SendFromChannels
<1>5. QED
    BY <1>1, <1>3, <1>4 DEF LB!FifoCollect, Added

(* CreateTopic with a channel adds the topic's name; without, it stutters. *)
LEMMA RefineCreateTopic ==
    ASSUME LBInv, NEW t \in Topics, NEW b \in BOOLEAN, CreateTopic(t, b)
    PROVE  [LB!FifoNext]_LB!fifoVars
<1>1. Added' = IF b THEN Added \cup {t} ELSE Added
    BY CreateTopicAdded
<1>2. UNCHANGED queue
    BY DEF CreateTopic
<1>3. t \in ChanNames
    BY DEF ChanNames
<1>4. CASE b
    <2>1. LB!FifoAddChannel(t)
        BY <1>1, <1>2, <1>4 DEF LB!FifoAddChannel
    <2>2. QED
        BY <1>3, <2>1 DEF LB!FifoNext
<1>5. CASE ~b
    BY <1>1, <1>2, <1>5 DEF LB!fifoVars
<1>6. QED
    BY <1>4, <1>5

(* Spec 4.2: the broadcast goroutines, the sender loop and CreateTopic use *)
(* the load balancer as named bounded FIFOs that always hold the default   *)
(* channel: every item goes to an added channel with room, even when the   *)
(* producer resolved GetChannelOrDefault long before its blocking send,    *)
(* and the sender takes only the head of an added non-empty channel.       *)
THEOREM LoadBalancerRefinedHolds == Spec => LoadBalancerRefined
<1>1. Init => LB!FifoInit
    BY DEF Init, LB!FifoInit, Added
<1>2. LBInv /\ [Next]_outVars => [LB!FifoNext]_LB!fifoVars
    <2> SUFFICES ASSUME LBInv, [Next]_outVars PROVE [LB!FifoNext]_LB!fifoVars
        OBVIOUS
    <2>1. ASSUME NEW p \in Producers, Enqueue(p) PROVE [LB!FifoNext]_LB!fifoVars
        <3>1. target[p] \in ChanNames
            BY DEF LBInv
        <3>2. QED
            BY <2>1, <3>1, RefineEnqueue DEF LB!FifoNext
    <2>2. CASE SendFromChannels
        BY <2>2, RefineSend DEF LB!FifoNext
    <2>3. ASSUME NEW t \in Topics, NEW b \in BOOLEAN, CreateTopic(t, b)
          PROVE  [LB!FifoNext]_LB!fifoVars
        BY <2>3, RefineCreateTopic
    <2>4. ASSUME NEW p \in Producers,
                 \/ \E c \in ChanNames : BroadcastOnChannel(p, c)
                 \/ CanProcess(p) \/ StartProcessing(p) \/ EndProcessing(p)
          PROVE  [LB!FifoNext]_LB!fifoVars
        BY <2>4, RefineStutter
           DEF BroadcastOnChannel, CanProcess, StartProcessing, EndProcessing
    <2>5. CASE UnjoinAllTopics \/ CloseOutbound \/ UNCHANGED outVars
        BY <2>5, RefineStutter DEF UnjoinAllTopics, CloseOutbound, outVars
    <2>6. QED
        BY <2>1, <2>2, <2>3, <2>4, <2>5 DEF Next
<1>3. QED
    BY <1>1, <1>2, LBInvInit, LBInvStep, PTL DEF Spec, LoadBalancerRefined, LB!FifoSpec

=============================================================================
