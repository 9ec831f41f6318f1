--------------------------- MODULE TopicRegistry ---------------------------
(***************************************************************************)
(* The topic-processor registry of the network messenger                   *)
(* (src/libp2p/netMessenger.go): the map netMes.processors from a topic to *)
(* its *topicProcessors, and the pubsub topic validators that the          *)
(* messenger registers and unregisters alongside it.                       *)
(*                                                                         *)
(* A key of netMes.processors can map to a live *topicProcessors or to nil *)
(* (UnregisterMessageProcessor stores nil instead of deleting the key), so *)
(* the map is kept as three variables: its keys, the keys whose value is   *)
(* live, and the identifiers held by each live value.  The pubsub side is  *)
(* the set of topics that have a topic validator; go-libp2p-pubsub refuses *)
(* a second validator for a topic, refuses to remove a validator that is   *)
(* not there, and refuses both once its context (netMes.ctx) is cancelled. *)
(* All three operations hold mutTopics for their whole body, so each is    *)
(* one atomic step.                                                        *)
(***************************************************************************)
EXTENDS MessengerContext

CONSTANT Ids    \* processor identifiers the application uses

ASSUME IdsAssumption == Ids # {} /\ IsFiniteSet(Ids)

VARIABLES
    procKeys,      \* the keys of netMes.processors
    procLive,      \* the keys whose value is a non-nil *topicProcessors
    procIds,       \* procIds[t]: identifiers registered in processors[t]
    validators     \* topics with a pubsub topic validator (pubsub's topicVals)

regVars == <<procKeys, procLive, procIds, validators, ctxCancelled>>

-----------------------------------------------------------------------------
(* go-libp2p-pubsub's answer to RegisterTopicValidator / Unregister-       *)
(* TopicValidator as the messenger calls them.                             *)

PbRegisterOk(t) == ~ctxCancelled /\ t \notin validators

PbUnregisterOk(t) == ~ctxCancelled /\ t \in validators

-----------------------------------------------------------------------------
RegInit ==
    /\ procKeys = {}
    /\ procLive = {}
    /\ procIds = [t \in Topics |-> {}]
    /\ validators = {}
    /\ ctxCancelled = FALSE

(* RegisterMessageProcessor(topic, identifier, handler), handler non-nil.  *)
(* A nil or absent value gets a fresh *topicProcessors stored under the    *)
(* key before the pubsub validator is registered; if the registration      *)
(* fails the fresh, empty value stays in the map.  A live value gets the   *)
(* identifier unless it already holds it (addTopicProcessor's error).      *)
RegisterMessageProcessor(t, id) ==
    \/ /\ t \notin procLive
       /\ procKeys' = procKeys \cup {t}
       /\ procLive' = procLive \cup {t}
       /\ IF PbRegisterOk(t)
            THEN /\ validators' = validators \cup {t}
                 /\ procIds' = [procIds EXCEPT ![t] = {id}]
            ELSE /\ procIds' = [procIds EXCEPT ![t] = {}]
                 /\ UNCHANGED validators
       /\ UNCHANGED ctxCancelled
    \/ /\ t \in procLive
       /\ id \notin procIds[t]
       /\ procIds' = [procIds EXCEPT ![t] = @ \cup {id}]
       /\ UNCHANGED <<procKeys, procLive, validators, ctxCancelled>>

(* UnregisterMessageProcessor(topic, identifier).  Nothing to do for a nil *)
(* or absent value; removeTopicProcessor fails for an unknown identifier.  *)
(* Removing the last identifier stores nil under the key (the key stays)   *)
(* and then asks pubsub to drop the topic validator.                       *)
UnregisterMessageProcessor(t, id) ==
    /\ t \in procLive
    /\ id \in procIds[t]
    /\ procIds' = [procIds EXCEPT ![t] = @ \ {id}]
    /\ IF procIds[t] = {id}
         THEN /\ procLive' = procLive \ {t}
              /\ validators' = IF PbUnregisterOk(t) THEN validators \ {t}
                                                    ELSE validators
         ELSE UNCHANGED <<procLive, validators>>
    /\ UNCHANGED <<procKeys, ctxCancelled>>

(* UnregisterAllMessageProcessors ranges over every key of the map in Go's *)
(* random map order: a key whose validator pubsub removes is deleted, and  *)
(* the first key pubsub refuses ends the loop with that error.  So the     *)
(* keys removed are any set of removable keys that precede a refused one,  *)
(* or all keys when none is refused.                                       *)
Removable == {t \in procKeys : PbUnregisterOk(t)}

UnregisterAllMessageProcessors ==
    \E removed \in SUBSET Removable :
        /\ removed = procKeys \/ procKeys \ Removable # {}
        /\ procKeys' = procKeys \ removed
        /\ procLive' = procLive \ removed
        /\ procIds' = [t \in Topics |-> IF t \in removed THEN {} ELSE procIds[t]]
        /\ validators' = validators \ removed
        /\ UNCHANGED ctxCancelled

(* Close: netMes.cancelFunc() cancels the context pubsub runs under.       *)
CancelContext ==
    /\ ~ctxCancelled
    /\ ctxCancelled' = TRUE
    /\ UNCHANGED <<procKeys, procLive, procIds, validators>>

RegNext ==
    \/ \E t \in Topics, id \in Ids :
          \/ RegisterMessageProcessor(t, id)
          \/ UnregisterMessageProcessor(t, id)
    \/ UnregisterAllMessageProcessors
    \/ CancelContext

RegSpec == RegInit /\ [][RegNext]_regVars

-----------------------------------------------------------------------------
RegTypeOK ==
    /\ procKeys \subseteq Topics
    /\ procLive \subseteq procKeys
    /\ procIds \in [Topics -> SUBSET Ids]
    /\ validators \subseteq Topics
    /\ ctxCancelled \in BOOLEAN

(* Spec 3 and 4.4: while the messenger runs, a topic has a pubsub topic    *)
(* validator exactly when netMes.processors holds a live *topicProcessors  *)
(* for it, and a live value is never empty: RegisterMessageProcessor,      *)
(* UnregisterMessageProcessor (nil entries) and UnregisterAll (partial     *)
(* removal) all change the two tables, in separate calls to pubsub.        *)
RegistryConsistent ==
    ~ctxCancelled =>
        /\ validators = procLive
        /\ \A t \in procLive : procIds[t] # {}

(* Spec 4.4: UnregisterAllMessageProcessors removes every topic validator  *)
(* (checked while pubsub still runs).                                      *)
UnregisterAllClearsValidators ==
    [][UnregisterAllMessageProcessors /\ ~ctxCancelled => validators' = {}]_regVars

=============================================================================
