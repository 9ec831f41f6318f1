------------------------------ MODULE Outbound ------------------------------
(***************************************************************************)
(* The outbound path of the network messenger: producers calling           *)
(* BroadcastOnChannelBlocking (spawned by BroadcastOnChannel, Broadcast    *)
(* and their UsingPrivateKey variants), the NumGoRoutinesThrottler they    *)
(* consult, the outgoing channel load balancer they enqueue on, the        *)
(* sender goroutine started in createPubSub that drains it, and the topic  *)
(* table that CreateTopic and UnjoinAllTopics maintain.                    *)
(*                                                                         *)
(* A producer is a goroutine; its call is split at the points where other  *)
(* goroutines can act: CanProcess, StartProcessing, the (blocking) channel *)
(* send and EndProcessing.  The load balancer keeps one bounded FIFO per   *)
(* added channel name, the default channel first, and is drained round     *)
(* robin.  An item is abstracted to the producer that enqueued it: the     *)
(* payload, topic and key ride along unchanged and no property reads them. *)
(***************************************************************************)
EXTENDS MessengerContext, Sequences, Naturals

CONSTANTS
    Producers,       \* goroutines running BroadcastOnChannelBlocking
    DefaultChannel,  \* the load balancer's default channel name
    ChanCap,         \* capacity of each load-balancer channel
    MaxGoRoutines    \* broadcastGoRoutines, the throttler's maximum

ASSUME OutboundAssumption ==
    /\ IsFiniteSet(Producers)
    /\ DefaultChannel \notin Topics
    /\ ChanCap \in Nat \ {0}
    /\ MaxGoRoutines \in Nat \ {0}

(* Channel names: BroadcastOnChannel takes any name, Broadcast uses the    *)
(* topic name, and CreateTopic adds a channel named after the topic.       *)
ChanNames == Topics \cup {DefaultChannel}

VARIABLES
    topics,     \* keys of netMes.topics (joined topics)
    lbNames,    \* the load balancer's channel names, in round-robin order
    queue,      \* queue[c]: items buffered in channel c
    cursor,     \* index in lbNames of the channel served last
    counter,    \* the throttler's count of goroutines in processing
    pc,         \* pc[p]: where producer p is in its call
    reqCh,      \* reqCh[p]: the channel name p was called with
    target      \* target[p]: the channel GetChannelOrDefault gave p

outVars == <<topics, lbNames, queue, cursor, counter, pc, reqCh, target, ctxCancelled>>

-----------------------------------------------------------------------------
(* The load balancer (OutgoingChannelLoadBalancer).                        *)

Added == {lbNames[i] : i \in DOMAIN lbNames}

(* GetChannelOrDefault: the named channel if it was added, else default.   *)
GetChannelOrDefault(c) == IF c \in Added THEN c ELSE DefaultChannel

(* AddChannel: idempotent per name.                                        *)
AddChannel(c) == lbNames' = IF c \in Added THEN lbNames ELSE Append(lbNames, c)

(* Mutant: the scan starts from the first channel every time instead of   *)
(* after the channel served last.                                          *)
ScanFromFirstPos(k) == k

(* The k-th position visited when scanning round robin after the cursor.   *)
RoundRobinPos(k) == ((cursor + k - 1) % Len(lbNames)) + 1

(* CollectOneElementFromChannels visits the channels in round-robin order  *)
(* and takes the head of the first non-empty one.                          *)
CollectOneElementFromChannels ==
    \E k \in 1..Len(lbNames) :
        /\ queue[lbNames[RoundRobinPos(k)]] # <<>>
        /\ \A j \in 1..(k - 1) : queue[lbNames[RoundRobinPos(j)]] = <<>>
        /\ queue' = [queue EXCEPT ![lbNames[RoundRobinPos(k)]] = Tail(@)]
        /\ cursor' = RoundRobinPos(k)

-----------------------------------------------------------------------------
Init ==
    /\ topics = {}
    /\ lbNames = <<DefaultChannel>>
    /\ queue = [c \in ChanNames |-> <<>>]
    /\ cursor = 1
    /\ counter = 0
    /\ pc = [p \in Producers |-> "idle"]
    /\ reqCh = [p \in Producers |-> DefaultChannel]
    /\ target = [p \in Producers |-> DefaultChannel]
    /\ ctxCancelled = FALSE

(* The application calls BroadcastOnChannel(channel, topic, buff) (or      *)
(* Broadcast, channel = topic) with a buffer that passes checkSendable-    *)
(* Data; the call spawns the goroutine p.  An empty or oversized buffer    *)
(* returns before touching any state.                                      *)
BroadcastOnChannel(p, c) ==
    /\ pc[p] = "idle"
    /\ pc' = [pc EXCEPT ![p] = "check"]
    /\ reqCh' = [reqCh EXCEPT ![p] = c]
    /\ UNCHANGED <<topics, lbNames, queue, cursor, counter, target, ctxCancelled>>

(* goRoutinesThrottler.CanProcess(): counter < max, else the call returns  *)
(* ErrTooManyGoroutines.                                                   *)
CanProcess(p) ==
    /\ pc[p] = "check"
    /\ pc' = [pc EXCEPT ![p] = IF counter < MaxGoRoutines THEN "start" ELSE "idle"]
    /\ UNCHANGED <<topics, lbNames, queue, cursor, counter, reqCh, target, ctxCancelled>>

(* Mutant: the producer sends on the channel it was called with, skipping  *)
(* GetChannelOrDefault, so a name never added is a channel nobody drains.  *)
StartProcessingNoDefault(p) ==
    /\ pc[p] = "start"
    /\ counter' = counter + 1
    /\ target' = [target EXCEPT ![p] = reqCh[p]]
    /\ pc' = [pc EXCEPT ![p] = "send"]
    /\ UNCHANGED <<topics, lbNames, queue, cursor, reqCh, ctxCancelled>>

(* Mutant: the StartProcessing() call is left out; EndProcessing still     *)
(* runs after the send.                                                    *)
StartProcessingNoIncrement(p) ==
    /\ pc[p] = "start"
    /\ target' = [target EXCEPT ![p] = GetChannelOrDefault(reqCh[p])]
    /\ pc' = [pc EXCEPT ![p] = "send"]
    /\ UNCHANGED <<topics, lbNames, queue, cursor, counter, reqCh, ctxCancelled>>

(* StartProcessing(), then the SendableData is built and the channel       *)
(* looked up with GetChannelOrDefault.                                     *)
StartProcessing(p) ==
    /\ pc[p] = "start"
    /\ counter' = counter + 1
    /\ target' = [target EXCEPT ![p] = GetChannelOrDefault(reqCh[p])]
    /\ pc' = [pc EXCEPT ![p] = "send"]
    /\ UNCHANGED <<topics, lbNames, queue, cursor, reqCh, ctxCancelled>>

(* The channel send, which blocks while the channel is full.               *)
Enqueue(p) ==
    /\ pc[p] = "send"
    /\ Len(queue[target[p]]) < ChanCap
    /\ queue' = [queue EXCEPT ![target[p]] = Append(@, p)]
    /\ pc' = [pc EXCEPT ![p] = "end"]
    /\ UNCHANGED <<topics, lbNames, cursor, counter, reqCh, target, ctxCancelled>>

(* EndProcessing(), and the call returns nil.                              *)
EndProcessing(p) ==
    /\ pc[p] = "end"
    /\ counter' = counter - 1
    /\ pc' = [pc EXCEPT ![p] = "idle"]
    /\ UNCHANGED <<topics, lbNames, queue, cursor, reqCh, target, ctxCancelled>>

(* One iteration of the sender goroutine that finds an element: collect    *)
(* it, look its topic up in netMes.topics, and publish it or drop it (topic *)
(* not joined, marshal error, publish error).  An iteration that collects  *)
(* nothing changes nothing.  The loop returns once ctx is cancelled.       *)
SendFromChannels ==
    /\ ~ctxCancelled
    /\ CollectOneElementFromChannels
    /\ UNCHANGED <<topics, lbNames, counter, pc, reqCh, target, ctxCancelled>>

(* CreateTopic(name, createChannelForTopic): nothing if the topic is       *)
(* already joined; pubsub's Join and Subscribe fail once ctx is cancelled; *)
(* otherwise the topic is stored and, if asked, a channel is added.        *)
CreateTopic(t, createChannel) ==
    /\ t \notin topics
    /\ ~ctxCancelled
    /\ topics' = topics \cup {t}
    /\ IF createChannel THEN AddChannel(t) ELSE UNCHANGED lbNames
    /\ UNCHANGED <<queue, cursor, counter, pc, reqCh, target, ctxCancelled>>

(* UnjoinAllTopics: every topic is closed and deleted from netMes.topics   *)
(* (deleted even when Close fails); the load-balancer channels stay.       *)
UnjoinAllTopics ==
    /\ topics' = {}
    /\ UNCHANGED <<lbNames, queue, cursor, counter, pc, reqCh, target, ctxCancelled>>

(* Close cancels ctx: the sender goroutine stops; goroutines blocked on a  *)
(* full channel stay blocked.                                              *)
CloseOutbound ==
    /\ ~ctxCancelled
    /\ ctxCancelled' = TRUE
    /\ UNCHANGED <<topics, lbNames, queue, cursor, counter, pc, reqCh, target>>

Next ==
    \/ \E p \in Producers :
          \/ \E c \in ChanNames : BroadcastOnChannel(p, c)
          \/ CanProcess(p) \/ StartProcessing(p) \/ Enqueue(p) \/ EndProcessing(p)
    \/ SendFromChannels
    \/ \E t \in Topics, b \in BOOLEAN : CreateTopic(t, b)
    \/ UnjoinAllTopics
    \/ CloseOutbound

(* The sender goroutine wakes every durationBetweenSends; a runnable       *)
(* goroutine is eventually scheduled; goroutines blocked on a channel send *)
(* are woken in FIFO order, so one that is enabled infinitely often sends. *)
Fairness ==
    /\ WF_outVars(SendFromChannels)
    /\ \A p \in Producers :
          /\ WF_outVars(CanProcess(p))
          /\ WF_outVars(StartProcessing(p))
          /\ SF_outVars(Enqueue(p))
          /\ WF_outVars(EndProcessing(p))

Spec == Init /\ [][Next]_outVars /\ Fairness

-----------------------------------------------------------------------------
TypeOK ==
    /\ topics \subseteq Topics
    /\ lbNames \in Seq(ChanNames)
    /\ queue \in [ChanNames -> Seq(Producers)]
    /\ cursor \in 1..Len(lbNames)
    /\ counter \in Nat
    /\ pc \in [Producers -> {"idle", "check", "start", "send", "end"}]
    /\ reqCh \in [Producers -> ChanNames]
    /\ target \in [Producers -> ChanNames]
    /\ ctxCancelled \in BOOLEAN

(* Spec 4.3 and 8: the throttler bounds the goroutines in processing by    *)
(* broadcastGoRoutines.                                                    *)
ThrottlerBound == counter <= MaxGoRoutines

(* The producers the throttler counts: between StartProcessing and        *)
(* EndProcessing.                                                          *)
InProcessing == {p \in Producers : pc[p] \in {"send", "end"}}

(* Spec 4.3: the throttler's counter is exactly the number of broadcast    *)
(* goroutines between StartProcessing and EndProcessing, on every path     *)
(* through BroadcastOnChannelBlocking (rejected, blocked on a full        *)
(* channel, or done), so no slot is leaked or released twice.             *)
ThrottlerCounts == counter = Cardinality(InProcessing)

(* Spec 5 and scenario 6: no channel starves another.  A producer that has *)
(* been admitted returns from BroadcastOnChannelBlocking unless the        *)
(* messenger is closed, however other producers keep other channels busy. *)
BroadcastReturns ==
    \A p \in Producers : (pc[p] \in {"start", "send", "end"}) ~> (pc[p] = "idle" \/ ctxCancelled)

(* The load balancer seen through spec 4.2's contract: the channel names  *)
(* are those added, the FIFOs are the channels' buffers.                   *)
LB == INSTANCE ChannelFifos WITH
        Names <- ChanNames, Items <- Producers, DefaultName <- DefaultChannel,
        Cap <- ChanCap, chans <- Added, fifo <- queue

(* Spec 4.2: the broadcast path and the sender loop use the load balancer  *)
(* as named bounded FIFOs: every item is appended to a channel that was    *)
(* added (GetChannelOrDefault resolved before the blocking send gives a    *)
(* valid target even if the producer waited), and the sender only takes    *)
(* the head of an added non-empty channel; nothing else changes them.      *)
LoadBalancerRefined == LB!FifoSpec

=============================================================================
