------------------------- MODULE TopicRegistryProofs -------------------------
(***************************************************************************)
(* Proofs about the topic-processor registry, for every set of topics and  *)
(* identifiers.  RegistryConsistent is inductive together with the type    *)
(* invariant: every action keeps ctxCancelled except CancelContext, which  *)
(* makes the invariant vacuous from then on.                               *)
(***************************************************************************)
EXTENDS TopicRegistry, TLAPS

RegIInv == RegTypeOK /\ RegistryConsistent

(* Every step of the registry keeps its variables in their types.           *)
LEMMA RegTypeStep == RegTypeOK /\ [RegNext]_regVars => RegTypeOK'
    <1> SUFFICES ASSUME RegTypeOK, [RegNext]_regVars PROVE RegTypeOK'
        OBVIOUS
    <1>1. ASSUME NEW t \in Topics, NEW id \in Ids, RegisterMessageProcessor(t, id)
          PROVE RegTypeOK'
        BY <1>1 DEF RegisterMessageProcessor, RegTypeOK
    <1>2. ASSUME NEW t \in Topics, NEW id \in Ids, UnregisterMessageProcessor(t, id)
          PROVE RegTypeOK'
        BY <1>2 DEF UnregisterMessageProcessor, RegTypeOK
    <1>3. CASE UnregisterAllMessageProcessors
        BY <1>3 DEF UnregisterAllMessageProcessors, Removable, RegTypeOK
    <1>4. CASE CancelContext
        BY <1>4 DEF CancelContext, RegTypeOK
    <1>5. CASE UNCHANGED regVars
        BY <1>5 DEF regVars, RegTypeOK
    <1>6. QED
        BY <1>1, <1>2, <1>3, <1>4, <1>5 DEF RegNext

(* The registry's variables always have their types.                       *)
LEMMA RegTypeCorrect == RegSpec => []RegTypeOK
<1>1. RegInit => RegTypeOK
    BY DEF RegInit, RegTypeOK
<1>2. QED
    BY <1>1, RegTypeStep, PTL DEF RegSpec

(* While the messenger's context is live, the pubsub topic validators are  *)
(* exactly the live *topicProcessors of netMes.processors, and none of     *)
(* them is empty, whatever sequence of Register-, Unregister- and          *)
(* UnregisterAllMessageProcessors calls the application makes.             *)
THEOREM RegistryConsistentHolds == RegSpec => []RegistryConsistent
<1>1. RegInit => RegIInv
    BY DEF RegInit, RegIInv, RegTypeOK, RegistryConsistent
<1>2. RegIInv /\ [RegNext]_regVars => RegIInv'
    <2> SUFFICES ASSUME RegIInv, [RegNext]_regVars PROVE RegIInv'
        OBVIOUS
    <2>1. RegTypeOK'
        BY RegTypeStep DEF RegIInv
    <2>2. RegistryConsistent'
        <3>1. ASSUME NEW t \in Topics, NEW id \in Ids, RegisterMessageProcessor(t, id)
              PROVE RegistryConsistent'
            BY <3>1 DEF RegisterMessageProcessor, PbRegisterOk, RegIInv, RegTypeOK,
               RegistryConsistent
        <3>2. ASSUME NEW t \in Topics, NEW id \in Ids, UnregisterMessageProcessor(t, id)
              PROVE RegistryConsistent'
            BY <3>2 DEF UnregisterMessageProcessor, PbUnregisterOk, RegIInv, RegTypeOK,
               RegistryConsistent
        <3>3. CASE UnregisterAllMessageProcessors
            BY <3>3 DEF UnregisterAllMessageProcessors, Removable, PbUnregisterOk,
               RegIInv, RegTypeOK, RegistryConsistent
        <3>4. CASE CancelContext
            BY <3>4 DEF CancelContext, RegistryConsistent
        <3>5. CASE UNCHANGED regVars
            BY <3>5 DEF regVars, RegIInv, RegistryConsistent
        <3>6. QED
            BY <3>1, <3>2, <3>3, <3>4, <3>5 DEF RegNext
    <2>3. QED
        BY <2>1, <2>2 DEF RegIInv
<1>3. RegIInv => RegistryConsistent
    BY DEF RegIInv
<1>4. QED
    BY <1>1, <1>2, <1>3, PTL DEF RegSpec

=============================================================================
