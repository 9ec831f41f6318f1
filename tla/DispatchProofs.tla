---------------------------- MODULE DispatchProofs ----------------------------
(***************************************************************************)
(* Proofs about the pointer-level registry, for every set of topics,       *)
(* identifiers and slots and every bound on allocations.                   *)
(*                                                                         *)
(* ValidatorHoldsCurrentObject and the refinement rest on how objects are  *)
(* allocated: an object not yet allocated holds no identifier, a key's     *)
(* live object is an allocated one, and no two keys share an object, so   *)
(* adding to or removing from one topic's object changes no other topic.  *)
(***************************************************************************)
EXTENDS Dispatch, TLAPS

ObjectsWellFormed ==
    /\ \A o \in Objs : o > allocated => objIds[o] = {}
    /\ \A t \in Topics : cur[t] # NoObj => t \in keys /\ cur[t] <= allocated
    /\ \A t, u \in Topics : t # u /\ cur[t] # NoObj => cur[t] # cur[u]

DInv == TypeOK /\ ObjectsWellFormed /\ ValidatorHoldsCurrentObject

(* The initial registry is empty and every object unallocated.             *)
LEMMA DInvInit == Init => DInv
<1> SUFFICES ASSUME Init PROVE DInv
    OBVIOUS
<1>1. (CHOOSE t \in Topics : TRUE) \in Topics
    BY TopicsAssumption
<1>2. TypeOK
    <2>1. cur \in [Topics -> ObjRefs] /\ valObj \in [Topics -> ObjRefs]
        BY DEF Init, ObjRefs
    <2>2. objIds \in [Objs -> SUBSET Ids] /\ allocated \in 0..MaxObj
        BY DispatchAssumption DEF Init
    <2>3. vTopic \in [Slots -> Topics] /\ vObj \in [Slots -> ObjRefs]
        BY <1>1 DEF Init, ObjRefs
    <2>4. QED
        BY <2>1, <2>2, <2>3 DEF Init, TypeOK
<1>3. QED
    BY <1>2 DEF Init, DInv, ObjectsWellFormed, ValidatorHoldsCurrentObject

(* A step that only moves a slot leaves the registry part of DInv alone.   *)
LEMMA SlotStep ==
    ASSUME DInv, NEW s \in Slots, NEW t \in Topics,
           PubsubQueue(s, t) \/ DirectLookup(s, t) \/ PubsubValidate(s) \/ DirectRun(s)
    PROVE  DInv'
<1> USE DEF DInv, TypeOK, ObjectsWellFormed, ValidatorHoldsCurrentObject
<1>1. CASE PubsubQueue(s, t)
    BY <1>1 DEF PubsubQueue, ObjRefs
<1>2. CASE DirectLookup(s, t)
    BY <1>2 DEF DirectLookup, ObjRefs
<1>3. CASE PubsubValidate(s) \/ DirectRun(s)
    BY <1>3 DEF PubsubValidate, DirectRun, RunSnapshot, ObjRefs
<1>4. QED
    BY <1>1, <1>2, <1>3

(* RegisterMessageProcessor keeps DInv: a fresh object is the next one,    *)
(* empty until now, and pubsub accepts its closure exactly when no         *)
(* validator is left for the topic.                                        *)
LEMMA RegisterStep ==
    ASSUME DInv, NEW t \in Topics, NEW id \in Ids, RegisterMessageProcessor(t, id)
    PROVE  DInv'
<1> USE DispatchAssumption DEF DInv, TypeOK, ObjectsWellFormed, ValidatorHoldsCurrentObject,
        Objs, ObjRefs
<1>1. CASE /\ t \notin keys \/ cur[t] = NoObj
           /\ allocated < MaxObj
           /\ allocated' = allocated + 1
           /\ keys' = keys \cup {t}
           /\ cur' = [cur EXCEPT ![t] = allocated + 1]
           /\ IF ~ctxCancelled /\ valObj[t] = NoObj
                THEN /\ valObj' = [valObj EXCEPT ![t] = allocated + 1]
                     /\ objIds' = [objIds EXCEPT ![allocated + 1] = {id}]
                ELSE UNCHANGED <<valObj, objIds>>
           /\ RegUnchangedSlots
    <2>1. cur[t] = NoObj
        BY <1>1
    <2>2. CASE ~ctxCancelled /\ valObj[t] = NoObj
        <3>1. TypeOK'
            BY <1>1, <2>2 DEF RegUnchangedSlots
        <3>2. ObjectsWellFormed'
            BY <1>1, <2>1, <2>2
        <3>3. ValidatorHoldsCurrentObject'
            <4> SUFFICES ASSUME NEW u \in Topics, ~ctxCancelled'
                         PROVE  /\ valObj'[u] # NoObj <=> (u \in keys' /\ cur'[u] # NoObj)
                                /\ valObj'[u] # NoObj => valObj'[u] = cur'[u] /\ objIds'[cur'[u]] # {}
                OBVIOUS
            <4>1. CASE u = t
                <5>1. allocated + 1 \in Objs /\ allocated + 1 # NoObj
                    BY <1>1
                <5>2. valObj'[t] = allocated + 1 /\ cur'[t] = allocated + 1
                    BY <1>1, <2>2, <5>1
                <5>3. objIds'[allocated + 1] = {id}
                    BY <1>1, <2>2, <5>1
                <5>4. t \in keys'
                    BY <1>1
                <5>5. QED
                    BY <4>1, <5>1, <5>2, <5>3, <5>4
            <4>2. CASE u # t
                <5>1. cur[u] # allocated + 1
                    <6>1. CASE cur[u] = NoObj
                        BY <6>1
                    <6>2. CASE cur[u] # NoObj
                        BY <6>2
                    <6>3. QED
                        BY <6>1, <6>2
                <5>2. cur[u] # NoObj => objIds'[cur[u]] = objIds[cur[u]]
                    BY <1>1, <2>2, <5>1
                <5>3. QED
                    BY <1>1, <2>2, <4>2, <5>2 DEF RegUnchangedSlots
            <4>3. QED
                BY <4>1, <4>2
        <3>4. QED
            BY <3>1, <3>2, <3>3
    <2>3. CASE ~(~ctxCancelled /\ valObj[t] = NoObj)
        BY <1>1, <2>1, <2>3 DEF RegUnchangedSlots
    <2>4. QED
        BY <2>2, <2>3
<1>2. CASE /\ t \in keys /\ cur[t] # NoObj
           /\ id \notin objIds[cur[t]]
           /\ objIds' = [objIds EXCEPT ![cur[t]] = @ \cup {id}]
           /\ UNCHANGED <<keys, cur, allocated, valObj>>
           /\ RegUnchangedSlots
    BY <1>2 DEF RegUnchangedSlots
<1>3. QED
    BY <1>1, <1>2 DEF RegisterMessageProcessor

(* UnregisterMessageProcessor keeps DInv: the validator goes with the      *)
(* last identifier, while the messenger runs.                              *)
LEMMA UnregisterStep ==
    ASSUME DInv, NEW t \in Topics, NEW id \in Ids, UnregisterMessageProcessor(t, id)
    PROVE  DInv'
<1> USE DispatchAssumption DEF DInv, TypeOK, ObjectsWellFormed, ValidatorHoldsCurrentObject,
        Objs, ObjRefs, UnregisterMessageProcessor, RegUnchangedSlots
<1>1. CASE objIds[cur[t]] = {id}
    <2>1. TypeOK' /\ ObjectsWellFormed'
        BY <1>1
    <2>2. ValidatorHoldsCurrentObject'
        <3> SUFFICES ASSUME NEW u \in Topics, ~ctxCancelled'
                     PROVE  /\ valObj'[u] # NoObj <=> (u \in keys' /\ cur'[u] # NoObj)
                            /\ valObj'[u] # NoObj => valObj'[u] = cur'[u] /\ objIds'[cur'[u]] # {}
            OBVIOUS
        <3>1. CASE u = t
            BY <1>1, <3>1
        <3>2. CASE u # t
            BY <1>1, <3>2
        <3>3. QED
            BY <3>1, <3>2
    <2>3. QED
        BY <2>1, <2>2
<1>2. CASE objIds[cur[t]] # {id}
    BY <1>2
<1>3. QED
    BY <1>1, <1>2

(* UnregisterAllMessageProcessors keeps DInv: a deleted key's validator    *)
(* was removed with it.                                                    *)
LEMMA UnregisterAllStep ==
    ASSUME DInv, UnregisterAllMessageProcessors
    PROVE  DInv'
<1> USE DispatchAssumption DEF DInv, TypeOK, ObjectsWellFormed, ValidatorHoldsCurrentObject,
        Objs, ObjRefs, RegUnchangedSlots
<1>1. PICK removed \in SUBSET {t \in keys : ~ctxCancelled /\ valObj[t] # NoObj} :
        /\ removed = keys \/ keys \ {t \in keys : ~ctxCancelled /\ valObj[t] # NoObj} # {}
        /\ keys' = keys \ removed
        /\ cur' = [t \in Topics |-> IF t \in removed THEN NoObj ELSE cur[t]]
        /\ valObj' = [t \in Topics |-> IF t \in removed THEN NoObj ELSE valObj[t]]
        /\ UNCHANGED <<objIds, allocated>>
        /\ RegUnchangedSlots
    BY DEF UnregisterAllMessageProcessors
<1>2. QED
    BY <1>1

LEMMA DInvStep == DInv /\ [Next]_dVars => DInv'
<1> SUFFICES ASSUME DInv, [Next]_dVars PROVE DInv'
    OBVIOUS
<1>1. ASSUME NEW t \in Topics, NEW id \in Ids, RegisterMessageProcessor(t, id) PROVE DInv'
    BY <1>1, RegisterStep
<1>2. ASSUME NEW t \in Topics, NEW id \in Ids, UnregisterMessageProcessor(t, id) PROVE DInv'
    BY <1>2, UnregisterStep
<1>3. CASE UnregisterAllMessageProcessors
    BY <1>3, UnregisterAllStep
<1>4. CASE CancelContext
    BY <1>4 DEF CancelContext, DInv, TypeOK, ObjectsWellFormed, ValidatorHoldsCurrentObject
<1>5. ASSUME NEW s \in Slots, NEW t \in Topics, PubsubQueue(s, t) \/ DirectLookup(s, t)
      PROVE  DInv'
    BY <1>5, SlotStep
<1>6. ASSUME NEW s \in Slots, PubsubValidate(s) \/ DirectRun(s) PROVE DInv'
    BY <1>6, SlotStep, TopicsAssumption
<1>7. CASE UNCHANGED dVars
    BY <1>7 DEF dVars, DInv, TypeOK, ObjectsWellFormed, ValidatorHoldsCurrentObject
<1>8. QED
    BY <1>1, <1>2, <1>3, <1>4, <1>5, <1>6, <1>7 DEF Next

(* Spec 4.4: while the messenger runs, every topic validator pubsub holds  *)
(* lists the non-empty *topicProcessors stored under its topic, through    *)
(* any sequence of registrations, removals and unregister-alls.            *)
THEOREM ValidatorHoldsCurrentObjectHolds == Spec => []ValidatorHoldsCurrentObject
<1>1. DInv => ValidatorHoldsCurrentObject
    BY DEF DInv
<1>2. QED
    BY DInvInit, DInvStep, <1>1, PTL DEF Spec

-----------------------------------------------------------------------------
(* The refinement mapping, named for the proofs.                           *)
ALive == {t \in keys : cur[t] # NoObj}
AIds == [t \in Topics |-> RegisteredIds(t)]
AVal == {t \in Topics : valObj[t] # NoObj}

(* A step that changes no key, value, object or validator is a stutter of *)
(* TopicRegistry.                                                          *)
LEMMA RefineStutter ==
    ASSUME UNCHANGED <<keys, cur, objIds, valObj, ctxCancelled>>
    PROVE  UNCHANGED Reg!regVars
BY DEF Reg!regVars, RegisteredIds

(* RegisterMessageProcessor is TopicRegistry's RegisterMessageProcessor.   *)
LEMMA RefineRegister ==
    ASSUME DInv, NEW t \in Topics, NEW id \in Ids, RegisterMessageProcessor(t, id)
    PROVE  Reg!RegisterMessageProcessor(t, id)
<1> USE DispatchAssumption DEF DInv, TypeOK, ObjectsWellFormed, Objs, ObjRefs
<1>1. CASE /\ t \notin keys \/ cur[t] = NoObj
           /\ allocated < MaxObj
           /\ allocated' = allocated + 1
           /\ keys' = keys \cup {t}
           /\ cur' = [cur EXCEPT ![t] = allocated + 1]
           /\ IF ~ctxCancelled /\ valObj[t] = NoObj
                THEN /\ valObj' = [valObj EXCEPT ![t] = allocated + 1]
                     /\ objIds' = [objIds EXCEPT ![allocated + 1] = {id}]
                ELSE UNCHANGED <<valObj, objIds>>
           /\ RegUnchangedSlots
    <2>1. cur[t] = NoObj /\ allocated + 1 \in Objs /\ allocated + 1 # NoObj
        BY <1>1
    <2>2. \A u \in Topics : u # t => cur[u] # allocated + 1
        BY <1>1
    <2>3. t \notin ALive /\ ALive' = ALive \cup {t}
        BY <1>1, <2>1 DEF ALive
    <2>4. CASE ~ctxCancelled /\ valObj[t] = NoObj
        <3>1. AVal' = AVal \cup {t} /\ t \notin AVal
            BY <1>1, <2>1, <2>4 DEF AVal
        <3>2. AIds' = [AIds EXCEPT ![t] = {id}]
            BY <1>1, <2>1, <2>2, <2>4 DEF AIds, RegisteredIds
        <3>3. QED
            BY <1>1, <2>3, <2>4, <3>1, <3>2
               DEF Reg!RegisterMessageProcessor, Reg!PbRegisterOk, AVal, ALive, AIds, RegUnchangedSlots
    <2>5. CASE ~(~ctxCancelled /\ valObj[t] = NoObj)
        <3>1. AVal' = AVal /\ (ctxCancelled \/ t \in AVal)
            BY <1>1, <2>5 DEF AVal
        <3>2. AIds' = [AIds EXCEPT ![t] = {}]
            <4>1. RegisteredIds(t)' = {}
                BY <1>1, <2>1, <2>5 DEF RegisteredIds
            <4>2. ASSUME NEW u \in Topics, u # t PROVE RegisteredIds(u)' = RegisteredIds(u)
                BY <1>1, <2>5, <4>2 DEF RegisteredIds
            <4>3. QED
                BY <4>1, <4>2 DEF AIds
        <3>3. QED
            BY <1>1, <2>3, <2>5, <3>1, <3>2
               DEF Reg!RegisterMessageProcessor, Reg!PbRegisterOk, AVal, ALive, AIds, RegUnchangedSlots
    <2>6. QED
        BY <2>4, <2>5
<1>2. CASE /\ t \in keys /\ cur[t] # NoObj
           /\ id \notin objIds[cur[t]]
           /\ objIds' = [objIds EXCEPT ![cur[t]] = @ \cup {id}]
           /\ UNCHANGED <<keys, cur, allocated, valObj>>
           /\ RegUnchangedSlots
    <2>1. t \in ALive /\ id \notin AIds[t]
        BY <1>2 DEF ALive, AIds, RegisteredIds
    <2>2. AIds' = [AIds EXCEPT ![t] = @ \cup {id}]
        BY <1>2 DEF AIds, RegisteredIds
    <2>3. QED
        BY <1>2, <2>1, <2>2 DEF Reg!RegisterMessageProcessor, ALive, AIds, AVal, RegUnchangedSlots
<1>3. QED
    BY <1>1, <1>2 DEF RegisterMessageProcessor

(* UnregisterMessageProcessor is TopicRegistry's.                          *)
LEMMA RefineUnregister ==
    ASSUME DInv, NEW t \in Topics, NEW id \in Ids, UnregisterMessageProcessor(t, id)
    PROVE  Reg!UnregisterMessageProcessor(t, id)
<1> USE DispatchAssumption DEF DInv, TypeOK, ObjectsWellFormed, Objs, ObjRefs
<1>1. t \in ALive /\ id \in AIds[t] /\ AIds[t] = objIds[cur[t]]
    BY DEF UnregisterMessageProcessor, ALive, AIds, RegisteredIds
<1>2. AIds' = [AIds EXCEPT ![t] = @ \ {id}]
    <2>1. objIds' = [objIds EXCEPT ![cur[t]] = @ \ {id}] /\ keys' = keys
        BY DEF UnregisterMessageProcessor
    <2>2. RegisteredIds(t)' = RegisteredIds(t) \ {id}
        <3>1. CASE objIds[cur[t]] = {id}
            BY <2>1, <3>1 DEF UnregisterMessageProcessor, RegisteredIds
        <3>2. CASE objIds[cur[t]] # {id}
            BY <2>1, <3>2 DEF UnregisterMessageProcessor, RegisteredIds
        <3>3. QED
            BY <3>1, <3>2
    <2>3. ASSUME NEW u \in Topics, u # t PROVE RegisteredIds(u)' = RegisteredIds(u)
        <3>1. cur'[u] = cur[u]
            BY <2>3 DEF UnregisterMessageProcessor
        <3>2. cur[u] # NoObj => objIds'[cur[u]] = objIds[cur[u]]
            BY <2>1, <2>3 DEF UnregisterMessageProcessor
        <3>3. QED
            BY <2>1, <3>1, <3>2 DEF RegisteredIds
    <2>4. QED
        BY <2>2, <2>3 DEF AIds
<1>3. CASE objIds[cur[t]] = {id}
    <2>1. ALive' = ALive \ {t}
        BY <1>3 DEF UnregisterMessageProcessor, ALive
    <2>2. AVal' = IF ~ctxCancelled /\ t \in AVal THEN AVal \ {t} ELSE AVal
        BY <1>3 DEF UnregisterMessageProcessor, AVal
    <2>3. QED
        BY <1>1, <1>2, <1>3, <2>1, <2>2
           DEF UnregisterMessageProcessor, Reg!UnregisterMessageProcessor, Reg!PbUnregisterOk,
               RegUnchangedSlots, ALive, AIds, AVal
<1>4. CASE objIds[cur[t]] # {id}
    <2>1. ALive' = ALive /\ AVal' = AVal
        BY <1>4 DEF UnregisterMessageProcessor, ALive, AVal
    <2>2. QED
        BY <1>1, <1>2, <1>4, <2>1
           DEF UnregisterMessageProcessor, Reg!UnregisterMessageProcessor, RegUnchangedSlots,
               ALive, AIds, AVal
<1>5. QED
    BY <1>3, <1>4

(* UnregisterAllMessageProcessors removes the same keys in both modules.  *)
LEMMA RefineUnregisterAll ==
    ASSUME DInv, UnregisterAllMessageProcessors
    PROVE  Reg!UnregisterAllMessageProcessors
<1> USE DEF DInv, TypeOK, ObjRefs
<1> DEFINE removable == {t \in keys : ~ctxCancelled /\ valObj[t] # NoObj}
<1>1. PICK removed \in SUBSET removable :
        /\ removed = keys \/ keys \ removable # {}
        /\ keys' = keys \ removed
        /\ cur' = [t \in Topics |-> IF t \in removed THEN NoObj ELSE cur[t]]
        /\ valObj' = [t \in Topics |-> IF t \in removed THEN NoObj ELSE valObj[t]]
        /\ UNCHANGED <<objIds, allocated>>
        /\ RegUnchangedSlots
    BY DEF UnregisterAllMessageProcessors
<1>2. Reg!Removable = removable
    BY DEF Reg!Removable, Reg!PbUnregisterOk, AVal
<1>3. ALive' = ALive \ removed
    BY <1>1 DEF ALive
<1>4. AVal' = AVal \ removed
    BY <1>1 DEF AVal
<1>5. AIds' = [t \in Topics |-> IF t \in removed THEN {} ELSE AIds[t]]
    BY <1>1 DEF AIds, RegisteredIds
<1>6. QED
    BY <1>1, <1>2, <1>3, <1>4, <1>5
       DEF Reg!UnregisterAllMessageProcessors, RegUnchangedSlots, ALive, AIds, AVal

(* Spec 4.4: the registry with its *topicProcessors objects, the pubsub    *)
(* validator closures over them and the messages in flight implements the *)
(* map-level registry: every step is one of RegisterMessageProcessor,      *)
(* UnregisterMessageProcessor, UnregisterAllMessageProcessors or Close on  *)
(* netMes.processors and pubsub's validators, or changes neither.          *)
THEOREM RegistryRefinedHolds == Spec => RegistryRefined
<1>1. Init => Reg!RegInit
    BY DEF Init, Reg!RegInit, RegisteredIds
<1>2. DInv /\ [Next]_dVars => [Reg!RegNext]_Reg!regVars
    <2> SUFFICES ASSUME DInv, [Next]_dVars PROVE [Reg!RegNext]_Reg!regVars
        OBVIOUS
    <2>1. ASSUME NEW t \in Topics, NEW id \in Ids, RegisterMessageProcessor(t, id)
          PROVE  [Reg!RegNext]_Reg!regVars
        BY <2>1, RefineRegister DEF Reg!RegNext
    <2>2. ASSUME NEW t \in Topics, NEW id \in Ids, UnregisterMessageProcessor(t, id)
          PROVE  [Reg!RegNext]_Reg!regVars
        BY <2>2, RefineUnregister DEF Reg!RegNext
    <2>3. CASE UnregisterAllMessageProcessors
        BY <2>3, RefineUnregisterAll DEF Reg!RegNext
    <2>4. CASE CancelContext
        BY <2>4 DEF CancelContext, Reg!RegNext, Reg!CancelContext, RegisteredIds
    <2>5. ASSUME NEW s \in Slots, NEW t \in Topics,
                 PubsubQueue(s, t) \/ DirectLookup(s, t) \/ PubsubValidate(s) \/ DirectRun(s)
          PROVE  [Reg!RegNext]_Reg!regVars
        BY <2>5, RefineStutter DEF PubsubQueue, DirectLookup, PubsubValidate, DirectRun, RunSnapshot
    <2>6. CASE UNCHANGED dVars
        BY <2>6, RefineStutter DEF dVars
    <2>7. QED
        BY <2>1, <2>2, <2>3, <2>4, <2>5, <2>6, TopicsAssumption DEF Next
<1>3. QED
    BY <1>1, <1>2, DInvInit, DInvStep, PTL DEF Spec, RegistryRefined, Reg!RegSpec

=============================================================================
