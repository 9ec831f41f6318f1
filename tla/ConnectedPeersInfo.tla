------------------------- MODULE ConnectedPeersInfo -------------------------
(***************************************************************************)
(* networkMessenger.GetConnectedPeersInfo (src/libp2p/netMessenger.go):    *)
(* takes the host's connected peers, then, holding mutPeerResolver for     *)
(* reading, asks the peer-shard resolver for its own shard and, one peer   *)
(* at a time, for the peer's type, shard and subtype, and files the peer   *)
(* in the buckets of the result with a switch whose observer case leaves   *)
(* early with break.                                                       *)
(*                                                                         *)
(* The resolver's answers, the sharder's seeder test and the preferred-    *)
(* peers holder are inputs, chosen in Init: the read lock keeps the        *)
(* resolver fixed for the whole call.  A bucket's list is the set of peers *)
(* appended to it (the connection string is left out).                     *)
(***************************************************************************)
EXTENDS Naturals, FiniteSets

CONSTANTS
    Peers,      \* peers the host may be connected to
    Shards      \* shard identifiers

ASSUME PeersInfoAssumption ==
    /\ IsFiniteSet(Peers)
    /\ Shards # {}

PeerTypes == {"unknown", "validator", "observer"}

(* What peerShardResolver.GetPeerInfo returns.                             *)
PeerInfos == [type : PeerTypes, shard : Shards, fullHistory : BOOLEAN]

(* The per-shard lists of the result.                                      *)
Kinds == {"intraVal", "crossVal", "intraObs", "crossObs", "fullHist"}

(* The per-shard counters NumValidatorsOnShard, NumObserversOnShard and    *)
(* NumPreferredPeersOnShard.                                               *)
Hist == {"val", "obs", "pref"}

VARIABLES
    pc,          \* "loop" while visiting peers, "done" once returned
    connected,   \* p2pHost.Network().Peers()
    info,        \* the resolver's answer for each peer
    seeder,      \* sharder.IsSeeder
    preferred,   \* preferredPeersHolder.Contains
    selfShard,   \* selfPeerInfo.ShardID
    todo,        \* peers the loop has not visited yet
    unknownPeers, seeders,
    lists,       \* lists[k][s]: e.g. CrossShardValidators[s] for "crossVal"
    num,         \* num[k]: e.g. NumCrossShardValidators for "crossVal"
    perShard     \* perShard[h][s]: e.g. NumObserversOnShard[s] for "obs"

piVars == <<pc, connected, info, seeder, preferred, selfShard, todo,
            unknownPeers, seeders, lists, num, perShard>>

Init ==
    /\ connected \in SUBSET Peers
    /\ info \in [connected -> PeerInfos]
    /\ seeder \in [connected -> BOOLEAN]
    /\ preferred \in [connected -> BOOLEAN]
    /\ selfShard \in Shards
    /\ pc = "loop"
    /\ todo = connected
    /\ unknownPeers = {}
    /\ seeders = {}
    /\ lists = [k \in Kinds |-> [s \in Shards |-> {}]]
    /\ num = [k \in Kinds |-> 0]
    /\ perShard = [h \in Hist |-> [s \in Shards |-> 0]]

Inputs == <<connected, info, seeder, preferred, selfShard>>

(* Append p to the list of kind k for shard s and count it.                *)
AppendTo(k, s, p) ==
    /\ lists' = [lists EXCEPT ![k][s] = @ \cup {p}]
    /\ num' = [num EXCEPT ![k] = @ + 1]

(* The statement after the switch: count a preferred peer on its shard.    *)
CountPreferred(p) ==
    IF preferred[p] THEN 1 ELSE 0

(* One iteration starts on peer p, which the loop has not visited.         *)
Visit(p, type) ==
    /\ pc = "loop"
    /\ p \in todo
    /\ info[p].type = type
    /\ todo' = todo \ {p}

(* case core.UnknownPeer: a seeder or an unknown peer.                     *)
VisitUnknown(p) ==
    /\ Visit(p, "unknown")
    /\ IF seeder[p]
         THEN /\ seeders' = seeders \cup {p}
              /\ UNCHANGED unknownPeers
         ELSE /\ unknownPeers' = unknownPeers \cup {p}
              /\ UNCHANGED seeders
    /\ perShard' = [perShard EXCEPT !["pref"][info[p].shard] = @ + CountPreferred(p)]
    /\ UNCHANGED <<lists, num, pc>>
    /\ UNCHANGED Inputs

(* case core.ValidatorPeer: intra- or cross-shard validator.               *)
VisitValidator(p) ==
    LET s == info[p].shard IN
    /\ Visit(p, "validator")
    /\ AppendTo(IF selfShard # s THEN "crossVal" ELSE "intraVal", s, p)
    /\ perShard' = [perShard EXCEPT !["val"][s] = @ + 1,
                                    !["pref"][s] = @ + CountPreferred(p)]
    /\ UNCHANGED <<unknownPeers, seeders, pc>>
    /\ UNCHANGED Inputs

(* Mutant: the break after the full-history bucket is left out, so a       *)
(* full-history observer is also filed as an intra- or cross-shard one.    *)
VisitObserverNoBreak(p) ==
    LET s == info[p].shard
        k == IF selfShard # s THEN "crossObs" ELSE "intraObs"
    IN
    /\ Visit(p, "observer")
    /\ IF info[p].fullHistory
         THEN /\ lists' = [lists EXCEPT !["fullHist"][s] = @ \cup {p},
                                        ![k][s] = @ \cup {p}]
              /\ num' = [num EXCEPT !["fullHist"] = @ + 1, ![k] = @ + 1]
         ELSE AppendTo(k, s, p)
    /\ perShard' = [perShard EXCEPT !["obs"][s] = @ + 1,
                                    !["pref"][s] = @ + CountPreferred(p)]
    /\ UNCHANGED <<unknownPeers, seeders, pc>>
    /\ UNCHANGED Inputs

(* case core.ObserverPeer: counted on its shard, then a full-history       *)
(* observer (break), else a cross-shard one (break), else an intra-shard   *)
(* one.  break leaves the switch, not the loop.                            *)
VisitObserver(p) ==
    LET s == info[p].shard IN
    /\ Visit(p, "observer")
    /\ AppendTo(IF info[p].fullHistory THEN "fullHist"
                ELSE IF selfShard # s THEN "crossObs" ELSE "intraObs", s, p)
    /\ perShard' = [perShard EXCEPT !["obs"][s] = @ + 1,
                                    !["pref"][s] = @ + CountPreferred(p)]
    /\ UNCHANGED <<unknownPeers, seeders, pc>>
    /\ UNCHANGED Inputs

(* The loop is over: return connPeerInfo.                                  *)
Return ==
    /\ pc = "loop"
    /\ todo = {}
    /\ pc' = "done"
    /\ UNCHANGED <<connected, info, seeder, preferred, selfShard, todo,
                   unknownPeers, seeders, lists, num, perShard>>

Next ==
    \/ \E p \in connected : VisitUnknown(p) \/ VisitValidator(p) \/ VisitObserver(p)
    \/ Return

Spec == Init /\ [][Next]_piVars

TypeOK ==
    /\ pc \in {"loop", "done"}
    /\ todo \subseteq connected
    /\ unknownPeers \cup seeders \subseteq connected
    /\ lists \in [Kinds -> [Shards -> SUBSET Peers]]
    /\ num \in [Kinds -> Nat]
    /\ perShard \in [Hist -> [Shards -> Nat]]

-----------------------------------------------------------------------------
(* The classification of spec 4.8 (GetConnectedPeersInfo): every peer in   *)
(* exactly one bucket; an observer is full-history regardless of shard.    *)
SpecBucket(p) ==
    CASE info[p].type = "unknown"   -> IF seeder[p] THEN "seeder" ELSE "unknown"
      [] info[p].type = "validator" ->
             IF info[p].shard = selfShard THEN "intraVal" ELSE "crossVal"
      [] info[p].type = "observer"  ->
             IF info[p].fullHistory THEN "fullHist"
             ELSE IF info[p].shard = selfShard THEN "intraObs" ELSE "crossObs"

OfShard(P, s) == {p \in P : info[p].shard = s}

(* Spec: GetConnectedPeersInfo files each connected peer in exactly the    *)
(* bucket the reference classification gives it, each total counter is    *)
(* the size of its buckets, and the per-shard histograms count every       *)
(* validator, every observer (full-history ones included) and every        *)
(* preferred peer of the shard: the switch with its breaks and the         *)
(* counters kept beside the lists agree once the loop returns.             *)
PeersInfoMatchesSpec ==
    pc = "done" =>
        LET In(b) == {p \in connected : SpecBucket(p) = b} IN
        /\ unknownPeers = In("unknown")
        /\ seeders = In("seeder")
        /\ \A k \in Kinds :
              /\ num[k] = Cardinality(In(k))
              /\ \A s \in Shards : lists[k][s] = OfShard(In(k), s)
        /\ \A s \in Shards :
              /\ perShard["val"][s] =
                    Cardinality(OfShard({p \in connected : info[p].type = "validator"}, s))
              /\ perShard["obs"][s] =
                    Cardinality(OfShard({p \in connected : info[p].type = "observer"}, s))
              /\ perShard["pref"][s] =
                    Cardinality(OfShard({p \in connected : preferred[p]}, s))

=============================================================================
