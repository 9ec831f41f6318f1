# TLA+ models of the network messenger (drt-go-chain-p2p)

This directory holds TLA+ specifications of the libp2p network messenger in
`src/libp2p/`, the TLC configurations that model-check them on small
instances, and TLAPS proofs of the registry's and the cache's invariants.

## The system

`networkMessenger` (`src/libp2p/netMessenger.go`) sits on a libp2p host and a
GossipSub router. Its parts, and how they meet:

| Part | Code | Shared state | Concurrency |
|---|---|---|---|
| Topic-processor registry | `RegisterMessageProcessor`, `UnregisterMessageProcessor`, `UnregisterAllMessageProcessors` | `processors` map (topic to `*topicProcessors` or nil), pubsub topic validators | all under `mutTopics` |
| Inbound pipeline | `pubsubCallback`, `transformAndCheckMessage`, `blacklistPid`, `validMessageByTimestamp` | pubsub's seen-cache, the denial evaluator | one pubsub validation goroutine per message |
| Outbound path | `BroadcastOnChannel(Blocking)`, `Broadcast`, the `UsingPrivateKey` variants | throttler counter, load-balancer channels | one goroutine per call |
| Load balancer + sender loop | `createPubSub` goroutine, `CreateTopic`, `UnjoinAllTopics` | named bounded FIFO channels, `topics` map | one sender goroutine |
| Connection-monitor wrapper | `connectionMonitorWrapper.go`, sweep goroutine in `createConnectionMonitor` | denial evaluator pointer, host connections | notifier callbacks + sweep goroutine |
| Peers-on-channel cache | `peersOnChannel.go` | `peers`, `lastUpdated` | callers + refresh goroutine |
| Waiting for connections | `WaitForConnections`, `shouldStopWaiting` | none | the caller |
| Connected-peers-info aggregator | `GetConnectedPeersInfo` | none (reads the host and the resolver) | the caller, under `mutPeerResolver` read lock |
| Lifecycle | `addComponentsToNode`, `Close` | `ctx` | `Close` cancels every loop |

The registry and the inbound pipeline interact through the pubsub topic
validator: a topic's messages reach the processors only while pubsub holds a
validator for it. The outbound path and the sender loop interact through the
load balancer's channels; the throttler bounds how many producers stand in
front of them. `Close` cancels the context all of them run under.

The hard behaviours: the registry keeps nil entries and makes several pubsub
calls per operation that can each fail; pubsub marks a message seen before the
validator runs and forgets it after `pubsubTimeCacheDuration`; producers block
on a full channel; the throttler's check and increment are separate atomics;
the sweep and the connection callbacks race with `blacklistPid`.

## Modules

* `MessengerContext` — the topics constant and the flag `ctxCancelled` for
  `netMes.ctx`, shared by the component modules.
* `TopicRegistry` — `netMes.processors` as three variables: `procKeys` (the
  map's keys), `procLive` (keys with a non-nil value) and `procIds` (the
  identifiers of each live value), and `validators`, the topics pubsub holds a
  validator for. Actions: `RegisterMessageProcessor(t, id)`,
  `UnregisterMessageProcessor(t, id)`, `UnregisterAllMessageProcessors`
  (Go's random map order is a nondeterministic choice of the keys removed
  before the first refusal) and `CancelContext` (the `cancelFunc()` of
  `Close`). Each holds `mutTopics` for its whole body, so it is one step.
  `PbRegisterOk`/`PbUnregisterOk` are pubsub's answers: refuse a duplicate,
  refuse a missing validator, refuse everything after cancellation.
* `Inbound` — extends `TopicRegistry` with the clock `now`, pubsub's
  seen-cache (`seen`, `seenAt`), the denied peers, and per message how often
  the processors ran (`processed`) and when first (`firstAt`). Actions:
  `Tick`, `SeenExpires(m)`, `DeliverUnvalidated(m, p)` (topic without a
  validator), `PubsubCallback(m, p)` (mark seen, then
  `transformAndCheckMessage`: blacklist both peers on a corrupt envelope,
  drop a stale or early one, else run the processors) and every registry
  action as `RegStep`.
* `Outbound` — producers as goroutines with a program counter
  (`idle → check → start → send → end → idle`), the throttler `counter`, the
  load balancer (`lbNames` in insertion order, `queue[c]` bounded by
  `ChanCap`, `cursor`), and the joined `topics`. Actions:
  `BroadcastOnChannel`, `CanProcess`, `StartProcessing`, `Enqueue` (the
  blocking send), `EndProcessing`, `SendFromChannels` (one sender-loop
  iteration), `CreateTopic`, `UnjoinAllTopics`, `CloseOutbound`. The load
  balancer is not under `src/`: its definitions are modelled from spec 4.2.
  `LB` instantiates `ChannelFifos` with the names of `lbNames` as the
  channels and `queue` as the FIFOs.
* `ChannelFifos` — spec 4.2's contract for the load balancer, without the
  scheduling: a set of named bounded FIFOs that starts with the default one;
  `FifoAddChannel` (idempotent), `FifoPush` (only to an added channel with
  room) and `FifoCollect` (the head of an added non-empty channel).
* `ConnMonitor` — the wrapper's evaluator pointer (`evaluator`, starting at
  the `Disabled` evaluator), the peers each application evaluator denies
  (`deniedBy`), the host's connections (`conns`), each pending Connected
  callback (`cbPc`, `cbEv`: it reads the pointer, then checks) and the sweep
  goroutine (`sweepPc`, `sweepPeers`, `sweepEv`: snapshot of
  `network.Peers()` and the pointer, one step per peer, then the wait).
  Actions: `Connect`, `ConnectedReadEvaluator`, `ConnectedCheck`,
  `Disconnect`, `SweepSnapshot`, `SweepCheck`, `SweepWait`,
  `SetPeerDenialEvaluator`, `UpsertPeerID`/`BanExpires` (the application's
  evaluator changing), `BlacklistPid` and `CloseMessenger`. libp2p delivers
  Connected before Disconnected for a connection, so `Disconnect` waits for
  the callback.
* `PeersOnChannel` — the cache (`cache[t]`, `NoList` for no entry), each
  entry's age `now - lastUpdated[t]` (saturated past the largest age that
  matters, so no clock bound is needed), the loop (`untilWake`, `loopPc`,
  `toRefresh`) and first-use callers (`callerPc`, `callerTopic`,
  `fetched`). A peer list is a version of the topic's mesh (`mesh[t]`).
  Actions: `Tick`, `MeshChanges`, `ConnectedPeersOnChannel` (miss and
  fetch), `CallerUpdate`, `CollectStaleTopics`, `LoopRefresh`, `LoopSleep`,
  `Close`, `LoopStops`.
* `Dispatch` — the registry at the level of pointers: `*topicProcessors`
  objects are `1..MaxObj` (`NoObj` is nil), `keys`/`cur[t]` are the map,
  `objIds[o]` the identifiers an object holds, `allocated` the objects made by
  `newTopicProcessors`, and `valObj[t]` the object the pubsub validator
  closure for `t` captured. Each message slot `s` models one validation or
  direct delivery in flight (`vPc`, `vTopic`, `vObj`): `PubsubQueue` (pubsub
  queues a message and takes the topic's current validator, hence the captured
  object), `PubsubValidate` (the callback calls `getList` on it),
  `DirectLookup` (`directMessageHandler` reads `processors[topic]` under the
  read lock, after `sendDirectToSelf` or a remote send; like the code, it
  does not look at the context) and `DirectRun`
  (`getList` after `RUnlock`). The registry operations are
  `TopicRegistry`'s, on objects. `Reg == INSTANCE TopicRegistry WITH …` maps
  the keys, the non-nil keys, the identifiers of the current object and the
  topics with a validator onto the abstract registry.
* `WaitForConnections` — one caller (`pc`: idle, sleep, wait, returned), its
  `minNumOfPeers`, the time since the call (`elapsed`, saturated at
  `MaxWait`), what is left of the current poll timeout (`pollLeft`) and the
  peer count. Actions: `WaitForConnectionsCall(n)`, `Tick`, `PeersChange`,
  `SleepDone`, `DeadlineFires` and `PollFires` (the two select cases of
  `shouldStopWaiting`), `CallerContinues`.
* `ConnectedPeersInfo` — one call of `GetConnectedPeersInfo`: the connected
  peers and the resolver's, sharder's and preferred-peers holder's answers
  for them are inputs chosen in `Init` (the read lock on `mutPeerResolver`
  keeps the resolver for the whole call); the loop visits one peer per step
  (`VisitUnknown`, `VisitValidator`, `VisitObserver`, each ending with the
  preferred-peer count after the switch), then `Return`s. A bucket's list is
  the set of peers appended to it. `SpecBucket` is spec 4.8's
  classification, the reference the result is checked against.
* `TopicRegistryProofs`, `OutboundProofs`, `PeersOnChannelProofs`,
  `DispatchProofs`, `ConnectedPeersInfoProofs`, `InboundProofs` — TLAPS proofs about the module each extends.
* `MCTopicRegistry`, `MCInbound`, `MCOutbound`, `MCConnMonitor`,
  `MCPeersOnChannel`, `MCDispatch`, `MCWaitForConnections`,
  `MCConnectedPeersInfo` — model values and constant
  definitions for TLC.

Data is abstracted: a message is a model value with a fixed topic, originator,
timestamp and corruptness; a sendable item is the producer that enqueued it;
payloads, keys and log output are left out.

## Runs

| Run | Config | Expect | Shows |
|---|---|---|---|
| registry_unregister_all | `TopicRegistryUnregisterAll.cfg` | violation | `UnregisterAllClearsValidators` fails: a nil entry stops the loop early |
| inbound_reprocess | `Inbound.cfg` | pass | `ReprocessOnlyIfStampedAhead`: a second run of the processors needs a timestamp later than the first run |
| inbound_no_reprocessing | `InboundNoReprocessing.cfg` | violation | a message stamped ahead is processed twice |
| inbound_fresh_window | `InboundFreshWindow.cfg` | violation | a message stamped exactly `now - pubsubTimeCacheDuration` is accepted |
| outbound_liveness | `Outbound.cfg` | pass | `ThrottlerCounts`: the counter equals the producers between StartProcessing and EndProcessing; `BroadcastReturns`: an admitted producer returns unless the messenger closes; `LoadBalancerRefined`: the load balancer implements `ChannelFifos` |
| conn_monitor_kept_out | `ConnMonitor.cfg` | pass | `DeniedPeerKeptOut`: once one evaluator is kept and denies p, p is eventually only ever connected while a Connected callback for it runs |
| peers_on_channel_age | `PeersOnChannel.cfg` | pass | `EntryAgeBounded`: no entry older than ttl + refresh interval |
| outbound_throttler | `OutboundThrottler.cfg` | violation | `ThrottlerBound` fails: check-then-increment admits too many |
| dispatch_refines_registry | `Dispatch.cfg` | pass | `ValidatorHoldsCurrentObject`: every validator closure holds the object stored under its topic, non-empty; `RegistryRefined`: the pointer-level registry with messages in flight implements `TopicRegistry` |
| dispatch_stale_run | `DispatchStaleRun.cfg` | violation | `NoStaleRun` fails: a delivery that took the object before `UnregisterAllMessageProcessors` runs processors no longer registered. This is either a queued pubsub validation or a direct delivery past its read lock; both traces are four steps long and TLC reports the one it reaches first |
| peers_info_classification | `ConnectedPeersInfo.cfg` | pass | `PeersInfoMatchesSpec`: the returned buckets, totals and per-shard histograms are those of spec 4.8's classification (deadlock not checked: the call returns) |
| wait_returns | `WaitForConnections.cfg` | pass | `WaitReturns`: every `WaitForConnections` call returns |

Bounds. Three topics are needed for `UnregisterAll` to remove one key, refuse
a second and leave a third. `RegistryConsistent` of `TopicRegistry` is not
model-checked on its own: it is proved for every set of topics and
identifiers (below), and the same registry code is model-checked at the
pointer level in `Dispatch`, whose run checks that it implements
`TopicRegistry`. The inbound run uses `CacheDur = 2`, `Advance = 1` (keeping
`Advance < CacheDur` as the real 20 s < 10 min) and a clock up to 5, enough for
an entry to expire and a message to arrive before, at and after both window
edges; one well-formed and one corrupt message from different peers. The
outbound run has one topic channel plus the default, two producers,
channels of capacity 1 and a throttler maximum of 2. With two slots, one
producer can keep refilling one channel while the other waits in its send
on the other full channel. That is the starvation `BroadcastReturns` is
about: a scan that restarts from the first channel instead of the cursor
(the mutant `ScanFromFirstPos`) fails it. With a maximum of 1 it would not,
because the waiting producer would hold the only slot. No call is rejected
in this run (a rejection needs more producers than slots, and three
producers take minutes). The rejected path of `ThrottlerCounts` is covered
by `ThrottlerCountsHolds` for every bound. The violation run
`outbound_throttler` uses a maximum of 1, where two producers both pass
`CanProcess` at counter 0.
The connection monitor needs two peers (one connected, one arriving during a
sweep) and two application evaluators besides the disabled one (a swap away
from an evaluator a callback already read). The cache uses two topics (two
entries stale at the same wake-up), two callers (a first-use race),
`Refresh = 2`, `TTL = 3` (so an entry can be checked fresh at one wake-up and
stale at the next) and two mesh versions.

`DeniedPeerKeptOut` is stated for a peer that is *eventually always* denied by
one evaluator the wrapper keeps: if the application keeps swapping evaluators
or bans keep expiring, TLC finds behaviours where every check of the peer
uses a pointer or a ban state that has just changed, so no bound holds
there. `EntryAgeBounded` assumes the loop's own work takes no time.
`Dispatch` uses two topics, two identifiers, two message slots and three
objects: enough to register, empty and re-register a topic (a second object)
while a message holding the first is in flight, and for both slots to hold
different objects. `WaitForConnections` uses `MaxWait = 3`, `Poll = 2` and up
to 3 peers, so the deadline falls between two polls, at least one poll misses,
and the count can reach the minimum and drop again between polls.
`ConnectedPeersInfo` uses three peers (any subset connected) and two shards,
so every bucket, two peers in one bucket, and a full-history observer on and
off the node's own shard all occur; peers and shards are symmetric.

## Fairness

`Outbound.Spec` assumes weak fairness of the sender loop (it wakes every
`durationBetweenSends` until cancelled) and of each producer's non-blocking
steps (a runnable goroutine is scheduled), and strong fairness of `Enqueue`:
Go wakes goroutines blocked on a channel send in FIFO order, so one whose send
is enabled infinitely often completes. No fairness is assumed for the
application's calls (`BroadcastOnChannel`, `CreateTopic`, `Close`).
`ConnMonitor.Spec` assumes weak fairness of the sweep goroutine's steps (it
is woken by its timer every `durationCheckConnections` until cancelled) and
of each Connected callback's steps (libp2p runs the notifiee to completion);
none for connects, disconnects, evaluator swaps or bans, which the remote
peers and the application decide.
`WaitForConnections.Spec` assumes weak fairness of the clock and of the three
timer outcomes (`time.Sleep` returning, the deadline context and the poll
context becoming done): the Go runtime fires timers and runs the goroutine
blocked in `select`. Nothing is assumed of the peer count, which may change
forever. `Dispatch.Spec` has no fairness: it states only safety.

## Findings

* `UnregisterMessageProcessor` leaves a nil value; `UnregisterAllMessageProcessors`
  then fails on it and leaves other validators registered (spec 4.4 says all
  are removed).
* The seen-cache and the timestamp window do not prevent reprocessing of a
  message stamped ahead; the lower bound is inclusive where spec 3 is strict.
* The throttler is check-then-act; more than `broadcastGoRoutines` producers
  can be in processing at once.
* `UnregisterAllMessageProcessors` deletes keys but leaves each
  `*topicProcessors` full. A pubsub validation queued earlier, whose closure
  holds the object, still runs its processors afterwards. So does a direct
  delivery that read `processors[topic]` before the call and calls `getList`
  after its read lock. Spec 4.4 says all processor sets are cleared.
  `UnregisterMessageProcessor` empties the object first, so it does not have
  this effect.

## Proofs

`TopicRegistryProofs` proves, for every finite non-empty set of topics and
identifiers:

* `RegTypeCorrect`: `RegSpec => []RegTypeOK`.
* `RegistryConsistentHolds`: `RegSpec => []RegistryConsistent`. The invariant
  alone is not inductive: the step cases need `procIds` to be a function into
  sets of identifiers and `procLive ⊆ procKeys`, so the inductive invariant
  is `RegTypeOK /\ RegistryConsistent`. Each action is one proof step:
  registering either adds the topic to both `validators` and `procLive` with a
  non-empty set, or (pubsub refuses) can only refuse because the topic already
  has a validator, contradicting the invariant; unregistering the last id
  removes the topic from both; unregister-all removes the same keys from both;
  cancellation makes the invariant vacuous.

`PeersOnChannelProofs` proves `EntryAgeBoundedHolds`:
`Spec => []EntryAgeBounded` for every `Refresh`, `TTL` in `Nat \ {0}` and
every finite set of topics and callers. A `Tick` can push an entry past the
bound unless the loop is known to wake first, so the inductive invariant
`AgeIInv` adds, while the loop sleeps, `age[t] + untilWake <= TTL + Refresh`
for every known topic, and, while it refreshes, `age[t] <= TTL` for every
known topic not on its list (`TTL + Refresh` for those on it). Collecting
keeps both (a topic left off the list has age at most `TTL`), `LoopSleep`
restarts the timer when every entry is at most `TTL` old, and a caller's
first-use store only adds age 0.

`OutboundProofs` proves `ThrottlerCountsHolds`: `Spec => []ThrottlerCounts`
for every finite set of producers, channel capacity and throttler maximum.
The inductive invariant `CountIInv` adds only that every producer's program
counter is one of its five states: then `StartProcessing` adds exactly one
producer not yet in processing and increments the counter, `EndProcessing`
removes one that is and decrements it (`FS_AddElement`, `FS_RemoveElement`
of `FiniteSetTheorems`), and every other step leaves both alone. The proof
does not need `ThrottlerBound`, which indeed fails.

`OutboundProofs` also proves `LoadBalancerRefinedHolds`:
`Spec => LoadBalancerRefined`, i.e. `Outbound` implements `ChannelFifos`
under the mapping `chans <- Added`, `fifo <- queue`, for every finite set
of producers and topics and every capacity. The inductive invariant `LBInv`
says that `lbNames` is a sequence of channel names containing the default
one, that `cursor` points into it, and that a producer at its blocking send
holds a channel that was added. The last conjunct is what is not obvious:
`target[p]` is resolved by `GetChannelOrDefault` at `StartProcessing`, and
the send may happen arbitrarily later. It stays true because the default
channel is always added and names are only ever appended (`AddedAppend`).
Under `LBInv`, `Enqueue` is a `FifoPush`. A sender iteration is a
`FifoCollect`, because the round-robin position lies in the table
(`RoundRobinInRange`, modular arithmetic). `CreateTopic` with a channel is
a `FifoAddChannel`. Every other step is a stutter.

`InboundProofs` proves `ReprocessOnlyIfStampedAheadHolds`:
`Spec => ReprocessOnlyIfStampedAhead` for every set of messages, every
timestamp assignment and every `CacheDur`, `Advance` and `MaxTime` allowed
by `InboundAssumption`. The inductive invariant is `SeenIInv`. For every
message it says three things. The cache entry is not from the future
(`seenAt[m] <= now`). A processed message first ran no later than it last
entered the cache (`firstAt[m] <= seenAt[m]`). A processed message that is
out of the cache left it after `CacheDur` had passed
(`now > seenAt[m] + CacheDur`). These facts are what connects the two
mechanisms. A second run needs `m` out of the cache, so
`now - CacheDur > firstAt[m]`. The lower bound of `validMessageByTimestamp`
then forces `MsgTs[m] >= now - CacheDur`. The action property follows
from `SeenIInv` and one step (`ReprocessStep`), as in the monotonicity
proofs of distributed-transaction specifications.

`DispatchProofs` proves, for every finite set of topics and identifiers,
message slots and object bound:

* `ValidatorHoldsCurrentObjectHolds`: `Spec => []ValidatorHoldsCurrentObject`.
  The inductive invariant `DInv` adds `TypeOK` and `ObjectsWellFormed`:
  objects not yet allocated hold no identifiers, a non-nil entry is a key and
  an allocated object, and no two topics share an object. Without the first,
  registering could make a fresh object that already holds identifiers;
  without the last, unregistering from one topic could empty the object
  another topic's validator holds.
* `RegistryRefinedHolds`: `Spec => RegistryRefined`. Initial states map to
  `RegInit`; under `DInv`, each registry step maps to the same abstract step
  (the abstract `procIds` is compared topic by topic, because only the object
  of the topic acted on changes), and the message-slot steps map to stutters.

`ConnectedPeersInfoProofs` proves `PeersInfoMatchesSpecHolds`:
`Spec => []PeersInfoMatchesSpec` for every finite set of peers and every set
of shards, so the three-peer run is not the limit of the result. The
property speaks only of the returned state, so the inductive invariant
`PIInv` states it for the peers visited so far (`connected \ todo`): the lists
hold the visited peers of each bucket and shard, and every counter is the size
of its set. A visit of `p` files `p` in exactly the sets it belongs to
(`FileStep`), and each counter grows by one exactly when its set does
(`ShardAddOne`, from `FS_AddElement`). Each case of the switch is shown to be
this update (`VisitUnknownStep`, `VisitValidatorStep`, `VisitObserverStep`),
the observer case because its `break`s leave exactly one of the three lists.

Only model-checked: the liveness properties `BroadcastReturns`,
`DeniedPeerKeptOut` and `WaitReturns` (TLAPS does not
reason about fairness or ENABLED). The violation runs' properties are
false by design, so there is nothing to prove about them.

## Not modelled, and the plan

Not modelled, as it has no concurrent or stateful behaviour of interest:
node construction and transport parsing,
statistics and logger refresh, identity and connectivity queries, mocks and
interfaces.

The remote half of `SendToConnectedPeer` goes through the direct sender,
which is not under `src/`; only the receiving handler is modelled.

Planned, in order:
1. Compose `ConnMonitor` with `Inbound` so that `blacklistPid` from a
   corrupt message drives the denial the sweep acts on.
2. A composed `Messenger` with `Close` ordering across components.
