------------------------------- MODULE Dispatch -------------------------------
(***************************************************************************)
(* The topic-processor registry at the level of its pointers, and the two  *)
(* paths that run a topic's processors on a received message               *)
(* (src/libp2p/netMessenger.go).                                           *)
(*                                                                         *)
(* netMes.processors maps a topic to a *topicProcessors or to nil.  Each   *)
(* *topicProcessors is an object: RegisterMessageProcessor allocates a     *)
(* fresh one when the value is nil or absent and hands it to pubsub inside *)
(* the validator closure pubsubCallback(topicProcs, topic); later calls    *)
(* add identifiers to, or remove them from, that object; UnregisterAll     *)
(* deletes the key and leaves the object as it is.                         *)
(*                                                                         *)
(* go-libp2p-pubsub fetches a topic's validators when it queues a message  *)
(* for validation and runs them later on a worker, so a queued validation  *)
(* holds the object its closure captured.  directMessageHandler reads      *)
(* processors[topic] under the read lock and calls getList after releasing *)
(* it.  getList (topicProcessors is not under src/) snapshots the          *)
(* identifiers atomically; the handlers run on that snapshot.  Messages    *)
(* here pass transformAndCheckMessage (Inbound models that check).         *)
(***************************************************************************)
EXTENDS MessengerContext, Naturals

CONSTANTS
    Ids,      \* processor identifiers the application uses
    Slots,    \* validations or direct deliveries in flight at once
    MaxObj,   \* *topicProcessors objects allocated in a run
    NoObj     \* nil

ASSUME DispatchAssumption ==
    /\ Ids # {} /\ IsFiniteSet(Ids)
    /\ MaxObj \in Nat \ {0}
    /\ NoObj \notin Nat

Objs == 1..MaxObj
ObjRefs == Objs \cup {NoObj}

VARIABLES
    keys,       \* the keys of netMes.processors
    cur,        \* cur[t]: the value under key t (NoObj for nil)
    objIds,     \* objIds[o]: identifiers held by object o
    allocated,  \* objects allocated so far: 1..allocated
    valObj,     \* valObj[t]: object captured by t's pubsub validator, NoObj if none
    vPc,        \* vPc[s]: "idle", "queued" (pubsub) or "direct"
    vTopic,     \* vTopic[s]: the message's topic
    vObj        \* vObj[s]: the object slot s will list

dVars == <<keys, cur, objIds, allocated, valObj, vPc, vTopic, vObj, ctxCancelled>>

(* The identifiers registered on t: those of the live value under key t.   *)
RegisteredIds(t) == IF t \in keys /\ cur[t] # NoObj THEN objIds[cur[t]] ELSE {}

-----------------------------------------------------------------------------
Init ==
    /\ keys = {}
    /\ cur = [t \in Topics |-> NoObj]
    /\ objIds = [o \in Objs |-> {}]
    /\ allocated = 0
    /\ valObj = [t \in Topics |-> NoObj]
    /\ vPc = [s \in Slots |-> "idle"]
    /\ vTopic = [s \in Slots |-> CHOOSE t \in Topics : TRUE]
    /\ vObj = [s \in Slots |-> NoObj]
    /\ ctxCancelled = FALSE

RegUnchangedSlots == UNCHANGED <<vPc, vTopic, vObj, ctxCancelled>>

(* RegisterMessageProcessor(topic, identifier, handler), handler non-nil,  *)
(* under mutTopics.  A nil or absent value: allocate an object, store it,  *)
(* then RegisterTopicValidator with a closure over it, which pubsub        *)
(* refuses once cancelled or while the topic has a validator (the object   *)
(* stays, empty).  Then addTopicProcessor, which refuses a duplicate.      *)
RegisterMessageProcessor(t, id) ==
    \/ /\ t \notin keys \/ cur[t] = NoObj
       /\ allocated < MaxObj
       /\ LET o == allocated + 1 IN
            /\ allocated' = o
            /\ keys' = keys \cup {t}
            /\ cur' = [cur EXCEPT ![t] = o]
            /\ IF ~ctxCancelled /\ valObj[t] = NoObj
                 THEN /\ valObj' = [valObj EXCEPT ![t] = o]
                      /\ objIds' = [objIds EXCEPT ![o] = {id}]
                 ELSE UNCHANGED <<valObj, objIds>>
       /\ RegUnchangedSlots
    \/ /\ t \in keys /\ cur[t] # NoObj
       /\ id \notin objIds[cur[t]]
       /\ objIds' = [objIds EXCEPT ![cur[t]] = @ \cup {id}]
       /\ UNCHANGED <<keys, cur, allocated, valObj>>
       /\ RegUnchangedSlots

(* Mutant: removing the last identifier stores nil but never asks pubsub   *)
(* to drop the validator.                                                  *)
UnregisterKeepsValidator(t, id) ==
    /\ t \in keys /\ cur[t] # NoObj
    /\ id \in objIds[cur[t]]
    /\ objIds' = [objIds EXCEPT ![cur[t]] = @ \ {id}]
    /\ cur' = IF objIds[cur[t]] = {id} THEN [cur EXCEPT ![t] = NoObj] ELSE cur
    /\ UNCHANGED <<keys, allocated, valObj>>
    /\ RegUnchangedSlots

(* UnregisterMessageProcessor(topic, identifier), under mutTopics: nothing *)
(* for a nil value; removeTopicProcessor on the object; if getList is then *)
(* empty, store nil and UnregisterTopicValidator.                          *)
UnregisterMessageProcessor(t, id) ==
    /\ t \in keys /\ cur[t] # NoObj
    /\ id \in objIds[cur[t]]
    /\ objIds' = [objIds EXCEPT ![cur[t]] = @ \ {id}]
    /\ IF objIds[cur[t]] = {id}
         THEN /\ cur' = [cur EXCEPT ![t] = NoObj]
              /\ valObj' = IF ~ctxCancelled /\ valObj[t] # NoObj
                             THEN [valObj EXCEPT ![t] = NoObj] ELSE valObj
         ELSE UNCHANGED <<cur, valObj>>
    /\ UNCHANGED <<keys, allocated>>
    /\ RegUnchangedSlots

(* Mutant: the key is deleted before pubsub's error is checked, so the    *)
(* key that stops the loop is deleted too.                                 *)
UnregisterAllDeletesRefused ==
    LET removable == {t \in keys : ~ctxCancelled /\ valObj[t] # NoObj} IN
    \E removed \in SUBSET keys :
        /\ \A a, b \in removed \ removable : a = b
        /\ removed = keys \/ removed \ removable # {}
        /\ keys' = keys \ removed
        /\ cur' = [t \in Topics |-> IF t \in removed THEN NoObj ELSE cur[t]]
        /\ valObj' = [t \in Topics |-> IF t \in removed \cap removable THEN NoObj ELSE valObj[t]]
        /\ UNCHANGED <<objIds, allocated>>
        /\ RegUnchangedSlots

(* UnregisterAllMessageProcessors, in map order: UnregisterTopicValidator  *)
(* then delete the key, until pubsub refuses one.  The objects keep their  *)
(* identifiers.                                                            *)
UnregisterAllMessageProcessors ==
    LET removable == {t \in keys : ~ctxCancelled /\ valObj[t] # NoObj} IN
    \E removed \in SUBSET removable :
        /\ removed = keys \/ keys \ removable # {}
        /\ keys' = keys \ removed
        /\ cur' = [t \in Topics |-> IF t \in removed THEN NoObj ELSE cur[t]]
        /\ valObj' = [t \in Topics |-> IF t \in removed THEN NoObj ELSE valObj[t]]
        /\ UNCHANGED <<objIds, allocated>>
        /\ RegUnchangedSlots

(* Close cancels netMes.ctx.                                               *)
CancelContext ==
    /\ ~ctxCancelled
    /\ ctxCancelled' = TRUE
    /\ UNCHANGED <<keys, cur, objIds, allocated, valObj, vPc, vTopic, vObj>>

-----------------------------------------------------------------------------
(* pubsub queues a message on t for validation with t's validator.         *)
PubsubQueue(s, t) ==
    /\ vPc[s] = "idle"
    /\ ~ctxCancelled
    /\ valObj[t] # NoObj
    /\ vPc' = [vPc EXCEPT ![s] = "queued"]
    /\ vTopic' = [vTopic EXCEPT ![s] = t]
    /\ vObj' = [vObj EXCEPT ![s] = valObj[t]]
    /\ UNCHANGED <<keys, cur, objIds, allocated, valObj, ctxCancelled>>

(* directMessageHandler: processors[topic] under the read lock; a nil      *)
(* value returns ErrNilValidator and changes nothing.                      *)
DirectLookup(s, t) ==
    /\ vPc[s] = "idle"
    /\ t \in keys /\ cur[t] # NoObj
    /\ vPc' = [vPc EXCEPT ![s] = "direct"]
    /\ vTopic' = [vTopic EXCEPT ![s] = t]
    /\ vObj' = [vObj EXCEPT ![s] = cur[t]]
    /\ UNCHANGED <<keys, cur, objIds, allocated, valObj, ctxCancelled>>

(* getList on the held object; the handlers then run on that snapshot.    *)
RunSnapshot(s) ==
    /\ vPc' = [vPc EXCEPT ![s] = "idle"]
    /\ vObj' = [vObj EXCEPT ![s] = NoObj]
    /\ UNCHANGED <<keys, cur, objIds, allocated, valObj, vTopic, ctxCancelled>>

(* The pubsub validator closure runs: pubsubCallback's getList.            *)
PubsubValidate(s) == vPc[s] = "queued" /\ RunSnapshot(s)

(* The rest of directMessageHandler: getList, then the handler goroutine.  *)
DirectRun(s) == vPc[s] = "direct" /\ RunSnapshot(s)

Next ==
    \/ \E t \in Topics, id \in Ids :
          RegisterMessageProcessor(t, id) \/ UnregisterMessageProcessor(t, id)
    \/ UnregisterAllMessageProcessors
    \/ CancelContext
    \/ \E s \in Slots :
          \/ PubsubValidate(s) \/ DirectRun(s)
          \/ \E t \in Topics : PubsubQueue(s, t) \/ DirectLookup(s, t)

Spec == Init /\ [][Next]_dVars

-----------------------------------------------------------------------------
TypeOK ==
    /\ keys \subseteq Topics
    /\ cur \in [Topics -> ObjRefs]
    /\ objIds \in [Objs -> SUBSET Ids]
    /\ allocated \in 0..MaxObj
    /\ valObj \in [Topics -> ObjRefs]
    /\ vPc \in [Slots -> {"idle", "queued", "direct"}]
    /\ vTopic \in [Slots -> Topics]
    /\ vObj \in [Slots -> ObjRefs]
    /\ ctxCancelled \in BOOLEAN

(* Spec 4.4 and 8: while the messenger runs, the closure of a topic's      *)
(* pubsub validator holds exactly the *topicProcessors stored under the    *)
(* topic, and that object is not empty: after the last identifier is       *)
(* removed, nil stored and the validator dropped, a new registration must  *)
(* register a validator over the new object, never leave pubsub calling   *)
(* the old one.                                                            *)
ValidatorHoldsCurrentObject ==
    ~ctxCancelled =>
        \A t \in Topics :
            /\ valObj[t] # NoObj <=> (t \in keys /\ cur[t] # NoObj)
            /\ valObj[t] # NoObj => valObj[t] = cur[t] /\ objIds[cur[t]] # {}

(* The map-level registry this module implements: a key's live value is   *)
(* the identifiers of its object, and pubsub has a validator for a topic  *)
(* when some closure is registered for it.                                 *)
Reg == INSTANCE TopicRegistry WITH
          procKeys <- keys,
          procLive <- {t \in keys : cur[t] # NoObj},
          procIds <- [t \in Topics |-> RegisteredIds(t)],
          validators <- {t \in Topics : valObj[t] # NoObj}

(* Every step of the pointer-level registry, validations included, is a   *)
(* step of TopicRegistry or leaves its state alone.                        *)
RegistryRefined == Reg!RegSpec

(* Spec 4.4 (unregister_all clears every set) and the callback's snapshot *)
(* step: when a validation or a direct delivery lists its processors,     *)
(* every identifier it lists is registered on the topic at that moment,   *)
(* whatever registrations happened while the message was queued.           *)
NoStaleRun ==
    [][\A s \in Slots :
          vPc[s] # "idle" /\ vPc'[s] = "idle" => objIds[vObj[s]] \subseteq RegisteredIds(vTopic[s])
      ]_dVars

=============================================================================
