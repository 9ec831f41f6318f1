------------------------- MODULE PeersOnChannelProofs -------------------------
(***************************************************************************)
(* Proofs about the peers-on-channel cache, for every set of topics and    *)
(* callers and every refresh and ttl interval.  EntryAgeBounded is not     *)
(* inductive: a Tick can age an entry past the bound unless the loop is    *)
(* known to wake before that.  AgeIInv adds what the loop knows: while it  *)
(* sleeps an entry's age plus the time left before the wake-up is within   *)
(* the bound, and while it refreshes every entry not on its list is at     *)
(* most ttlInterval old.                                                   *)
(***************************************************************************)
EXTENDS PeersOnChannel, TLAPS

AgeIInv ==
    /\ TypeOK
    /\ loopPc = "done" => cancelled
    /\ ~cancelled =>
         /\ loopPc = "wait" => \A t \in Known : age[t] + untilWake <= TTL + Refresh
         /\ loopPc = "refresh" =>
              \A t \in Known : age[t] <= IF t \in toRefresh THEN TTL + Refresh ELSE TTL

(* Every step of the cache keeps its variables in their types.             *)
LEMMA TypeStep == TypeOK /\ [Next]_pocVars => TypeOK'
<1> USE PeersOnChannelAssumption DEF TypeOK, AgeCap
<1> SUFFICES ASSUME TypeOK, [Next]_pocVars PROVE TypeOK'
    OBVIOUS
<1>1. CASE Tick
    BY <1>1 DEF Tick
<1>2. CASE CollectStaleTopics
    BY <1>2 DEF CollectStaleTopics, Known
<1>3. CASE LoopSleep
    BY <1>3 DEF LoopSleep
<1>4. CASE Close
    BY <1>4 DEF Close
<1>5. CASE LoopStops
    BY <1>5 DEF LoopStops
<1>6. ASSUME NEW t \in Topics, MeshChanges(t) PROVE TypeOK'
    BY <1>6 DEF MeshChanges
<1>7. ASSUME NEW t \in Topics, LoopRefresh(t) PROVE TypeOK'
    BY <1>7 DEF LoopRefresh, UpdateConnectedPeersOnTopic
<1>8. ASSUME NEW c \in Callers, CallerUpdate(c) PROVE TypeOK'
    BY <1>8 DEF CallerUpdate, UpdateConnectedPeersOnTopic
<1>9. ASSUME NEW c \in Callers, NEW t \in Topics, ConnectedPeersOnChannel(c, t)
      PROVE TypeOK'
    BY <1>9 DEF ConnectedPeersOnChannel
<1>10. CASE UNCHANGED pocVars
    BY <1>10 DEF pocVars
<1>11. QED
    BY <1>1, <1>2, <1>3, <1>4, <1>5, <1>6, <1>7, <1>8, <1>9, <1>10 DEF Next

(* While the cache runs, no known topic's peer list was stored more than   *)
(* ttlInterval + refreshInterval ago, whatever the intervals, the topics   *)
(* and the first-use refreshes of ConnectedPeersOnChannel.                 *)
THEOREM EntryAgeBoundedHolds == Spec => []EntryAgeBounded
<1> USE PeersOnChannelAssumption
<1>1. Init => AgeIInv
    <2> SUFFICES ASSUME Init PROVE AgeIInv
        OBVIOUS
    <2>1. (CHOOSE t \in Topics : TRUE) \in Topics
        OBVIOUS
    <2>2. TypeOK
        <3>1. callerTopic \in [Callers -> Topics]
            BY <2>1 DEF Init
        <3>2. age \in [Topics -> 0..AgeCap]
            BY DEF Init, AgeCap
        <3>3. cache \in [Topics -> (0..MaxVer) \cup {NoList}]
            BY DEF Init
        <3>4. mesh \in [Topics -> 0..MaxVer] /\ fetched \in [Callers -> 0..MaxVer]
            BY DEF Init
        <3>5. untilWake \in 0..Refresh
            BY DEF Init
        <3>6. QED
            BY <3>1, <3>2, <3>3, <3>4, <3>5 DEF Init, TypeOK
    <2>3. Known = {}
        BY DEF Init, Known
    <2>4. QED
        BY <2>2, <2>3 DEF Init, AgeIInv
<1>2. AgeIInv /\ [Next]_pocVars => AgeIInv'
    <2> SUFFICES ASSUME AgeIInv, [Next]_pocVars PROVE AgeIInv'
        OBVIOUS
    <2>1. TypeOK'
        BY TypeStep DEF AgeIInv
    <2> USE DEF AgeIInv, TypeOK, Known
    <2>2. CASE Tick
        BY <2>2 DEF Tick, AgeCap
    <2>3. CASE CollectStaleTopics
        BY <2>1, <2>3 DEF CollectStaleTopics
    <2>4. CASE LoopSleep
        BY <2>1, <2>4 DEF LoopSleep
    <2>5. CASE Close
        BY <2>1, <2>5 DEF Close
    <2>6. CASE LoopStops
        BY <2>1, <2>6 DEF LoopStops
    <2>7. ASSUME NEW t \in Topics, MeshChanges(t) PROVE AgeIInv'
        BY <2>1, <2>7 DEF MeshChanges
    <2>8. ASSUME NEW t \in Topics, LoopRefresh(t) PROVE AgeIInv'
        BY <2>1, <2>8 DEF LoopRefresh, UpdateConnectedPeersOnTopic
    <2>9. ASSUME NEW c \in Callers, CallerUpdate(c) PROVE AgeIInv'
        BY <2>1, <2>9 DEF CallerUpdate, UpdateConnectedPeersOnTopic
    <2>10. ASSUME NEW c \in Callers, NEW t \in Topics, ConnectedPeersOnChannel(c, t)
           PROVE AgeIInv'
        BY <2>1, <2>10 DEF ConnectedPeersOnChannel
    <2>11. CASE UNCHANGED pocVars
        BY <2>11 DEF pocVars
    <2>12. QED
        BY <2>2, <2>3, <2>4, <2>5, <2>6, <2>7, <2>8, <2>9, <2>10, <2>11 DEF Next
<1>3. AgeIInv => EntryAgeBounded
    BY DEF AgeIInv, EntryAgeBounded, TypeOK, Known
<1>4. QED
    BY <1>1, <1>2, <1>3, PTL DEF Spec

=============================================================================
