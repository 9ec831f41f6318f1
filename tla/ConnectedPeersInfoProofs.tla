---------------------- MODULE ConnectedPeersInfoProofs ----------------------
(***************************************************************************)
(* Proof that GetConnectedPeersInfo returns spec 4.8's classification, for *)
(* every finite set of peers and every set of shards.  The property speaks *)
(* only of the returned state; the loop keeps the same statement for the   *)
(* peers it has visited so far, which is the inductive invariant.          *)
(***************************************************************************)
EXTENDS ConnectedPeersInfo, FiniteSetTheorems, TLAPS

(* The peers the loop has visited.                                         *)
Visited == connected \ todo

(* The visited peers in bucket b, of type ty, and preferred.               *)
InBucket(b) == {p \in Visited : SpecBucket(p) = b}
OfType(ty) == {p \in Visited : info[p].type = ty}
Preferred == {p \in Visited : preferred[p]}

InputsOK ==
    /\ connected \subseteq Peers
    /\ info \in [connected -> PeerInfos]
    /\ seeder \in [connected -> BOOLEAN]
    /\ preferred \in [connected -> BOOLEAN]
    /\ selfShard \in Shards

ListsOK ==
    /\ unknownPeers = InBucket("unknown")
    /\ seeders = InBucket("seeder")
    /\ \A k \in Kinds, s \in Shards : lists[k][s] = OfShard(InBucket(k), s)

CountsOK ==
    /\ \A k \in Kinds : num[k] = Cardinality(InBucket(k))
    /\ \A s \in Shards :
          /\ perShard["val"][s] = Cardinality(OfShard(OfType("validator"), s))
          /\ perShard["obs"][s] = Cardinality(OfShard(OfType("observer"), s))
          /\ perShard["pref"][s] = Cardinality(OfShard(Preferred, s))

PIInv ==
    /\ TypeOK
    /\ InputsOK
    /\ pc = "done" => todo = {}
    /\ ListsOK
    /\ CountsOK

(* A visited set of peers is finite.                                       *)
LEMMA PeerSetFinite ==
    ASSUME NEW X \in SUBSET Peers
    PROVE  IsFiniteSet(X)
BY PeersInfoAssumption, FS_Subset

(* Counting one more peer of a set.                                        *)
LEMMA CountOneMore ==
    ASSUME NEW X \in SUBSET Peers, NEW p, p \notin X
    PROVE  Cardinality(X \cup {p}) = Cardinality(X) + 1
BY PeerSetFinite, FS_AddElement

(* Filing one more peer p in a set X of visited peers, seen per shard.   *)
LEMMA ShardAddOne ==
    ASSUME NEW X \in SUBSET Peers, NEW p, p \notin X, NEW s
    PROVE  Cardinality(OfShard(X \cup {p}, s)) =
             Cardinality(OfShard(X, s)) + (IF info[p].shard = s THEN 1 ELSE 0)
<1>1. OfShard(X, s) \in SUBSET Peers /\ p \notin OfShard(X, s)
    BY DEF OfShard
<1>2. Cardinality(OfShard(X, s)) \in Nat
    BY <1>1, PeerSetFinite, FS_CardinalityType
<1>3. CASE info[p].shard = s
    <2>1. OfShard(X \cup {p}, s) = OfShard(X, s) \cup {p}
        BY <1>3 DEF OfShard
    <2>2. QED
        BY <1>1, <1>3, <2>1, CountOneMore
<1>4. CASE info[p].shard # s
    <2>1. OfShard(X \cup {p}, s) = OfShard(X, s)
        BY <1>4 DEF OfShard
    <2>2. QED
        BY <1>2, <1>4, <2>1
<1>5. QED
    BY <1>3, <1>4

(* Filing p, possibly, in a set X of visited peers.                        *)
LEMMA SetCount ==
    ASSUME NEW X \in SUBSET Peers, NEW p, p \notin X, NEW cond \in BOOLEAN
    PROVE  Cardinality(IF cond THEN X \cup {p} ELSE X) =
             Cardinality(X) + (IF cond THEN 1 ELSE 0)
<1>1. Cardinality(X) \in Nat
    BY PeerSetFinite, FS_CardinalityType
<1>2. QED
    BY <1>1, CountOneMore

(* Nothing is visited before the loop starts.                              *)
LEMMA PIInvInit == Init => PIInv
<1> SUFFICES ASSUME Init PROVE PIInv
    OBVIOUS
<1>1. Visited = {}
    BY DEF Init, Visited
<1>2. /\ \A b : InBucket(b) = {}
      /\ \A ty : OfType(ty) = {}
      /\ Preferred = {}
    BY <1>1 DEF InBucket, OfType, Preferred
<1>3. \A X, s : X = {} => OfShard(X, s) = {}
    BY DEF OfShard
<1>4. TypeOK /\ InputsOK /\ (pc = "done" => todo = {})
    BY DEF Init, TypeOK, InputsOK
<1>5. ListsOK
    BY <1>2, <1>3 DEF Init, ListsOK
<1>6. CountsOK
    <2>1. Cardinality({}) = 0
        BY FS_EmptySet
    <2>2. \A k \in Kinds : num[k] = Cardinality(InBucket(k))
        BY <1>2, <2>1 DEF Init
    <2>3. \A s \in Shards :
              /\ OfShard(OfType("validator"), s) = {}
              /\ OfShard(OfType("observer"), s) = {}
              /\ OfShard(Preferred, s) = {}
        BY <1>2, <1>3
    <2>4. \A h \in Hist, s \in Shards : perShard[h][s] = 0
        BY DEF Init
    <2>5. QED
        BY <2>1, <2>2, <2>3, <2>4 DEF CountsOK, Hist
<1>7. QED
    BY <1>4, <1>5, <1>6 DEF PIInv

(* A visit of p files p in the visited sets it belongs to.               *)
LEMMA VisitedStep ==
    ASSUME PIInv, NEW p \in Peers, NEW ty, Visit(p, ty), UNCHANGED Inputs
    PROVE  /\ p \in connected
           /\ p \notin Visited
           /\ \A b : InBucket(b)' =
                  IF SpecBucket(p) = b THEN InBucket(b) \cup {p} ELSE InBucket(b)
           /\ \A t : OfType(t)' =
                  IF info[p].type = t THEN OfType(t) \cup {p} ELSE OfType(t)
           /\ Preferred' = IF preferred[p] THEN Preferred \cup {p} ELSE Preferred
<1>1. p \in connected /\ p \notin Visited /\ Visited' = Visited \cup {p}
    BY DEF Visit, Visited, PIInv, TypeOK, Inputs
<1>2. \A q : SpecBucket(q)' = SpecBucket(q)
    BY DEF Inputs, SpecBucket
<1>3. \A b : InBucket(b)' =
              IF SpecBucket(p) = b THEN InBucket(b) \cup {p} ELSE InBucket(b)
    BY <1>1, <1>2 DEF InBucket
<1>4. \A t : OfType(t)' =
              IF info[p].type = t THEN OfType(t) \cup {p} ELSE OfType(t)
    BY <1>1 DEF OfType, Inputs
<1>5. Preferred' = IF preferred[p] THEN Preferred \cup {p} ELSE Preferred
    BY <1>1 DEF Preferred, Inputs
<1>6. QED
    BY <1>1, <1>3, <1>4, <1>5

(* Whether peer p counts in histogram h.                                   *)
Counted(p, h) ==
    IF h = "val" THEN info[p].type = "validator"
    ELSE IF h = "obs" THEN info[p].type = "observer"
    ELSE preferred[p]

(* Filing p in its bucket, its list, its total and the histograms it       *)
(* counts in.                                                              *)
FiledLists(p) ==
    [k \in Kinds |-> [s \in Shards |->
        IF SpecBucket(p) = k /\ info[p].shard = s THEN lists[k][s] \cup {p}
                                                  ELSE lists[k][s]]]
FiledNum(p) ==
    [k \in Kinds |-> num[k] + (IF SpecBucket(p) = k THEN 1 ELSE 0)]
FiledHist(p) ==
    [h \in Hist |-> [s \in Shards |->
        perShard[h][s] + (IF Counted(p, h) /\ info[p].shard = s THEN 1 ELSE 0)]]

(* A visit that files p as the reference classification does keeps the    *)
(* invariant.                                                              *)
LEMMA FileStep ==
    ASSUME PIInv, NEW p \in Peers, NEW ty, Visit(p, ty), UNCHANGED Inputs,
           pc' = pc,
           unknownPeers' = IF SpecBucket(p) = "unknown"
                             THEN unknownPeers \cup {p} ELSE unknownPeers,
           seeders' = IF SpecBucket(p) = "seeder" THEN seeders \cup {p} ELSE seeders,
           lists' = FiledLists(p),
           num' = FiledNum(p),
           perShard' = FiledHist(p)
    PROVE  PIInv'
<1>1. /\ p \in connected
      /\ p \notin Visited
      /\ \A b : InBucket(b)' =
             IF SpecBucket(p) = b THEN InBucket(b) \cup {p} ELSE InBucket(b)
      /\ \A t : OfType(t)' =
             IF info[p].type = t THEN OfType(t) \cup {p} ELSE OfType(t)
      /\ Preferred' = IF preferred[p] THEN Preferred \cup {p} ELSE Preferred
    BY VisitedStep
<1>2. /\ \A b : InBucket(b) \in SUBSET Peers
      /\ \A t : OfType(t) \in SUBSET Peers
      /\ Preferred \in SUBSET Peers
      /\ \A b : p \notin InBucket(b)
      /\ \A t : p \notin OfType(t)
      /\ p \notin Preferred
    BY <1>1 DEF PIInv, InputsOK, Visited, InBucket, OfType, Preferred
<1>3. \A X, s : OfShard(X, s)' = OfShard(X, s)
    BY DEF OfShard, Inputs
<1>4. TypeOK' /\ InputsOK' /\ (pc' = "done" => todo' = {})
    <2>1. TypeOK'
        BY <1>1 DEF PIInv, TypeOK, InputsOK, Visit, Inputs, FiledLists, FiledNum, FiledHist
    <2>2. QED
        BY <2>1 DEF PIInv, InputsOK, Inputs, Visit
<1>5. ListsOK'
    <2>1. unknownPeers' = InBucket("unknown")' /\ seeders' = InBucket("seeder")'
        BY <1>1 DEF PIInv, ListsOK
    <2>2. ASSUME NEW k \in Kinds, NEW s \in Shards
          PROVE  lists'[k][s] = OfShard(InBucket(k)', s)
        <3>1. lists[k][s] = OfShard(InBucket(k), s)
            BY DEF PIInv, ListsOK
        <3>2. QED
            BY <1>1, <1>3, <3>1 DEF FiledLists, OfShard
    <2>3. \A k \in Kinds, s \in Shards : lists'[k][s] = OfShard(InBucket(k)', s)
        BY <2>2
    <2>4. QED
        BY <2>1, <2>3 DEF ListsOK, OfShard, Inputs
<1>6. CountsOK'
    <2>1. ASSUME NEW k \in Kinds PROVE num'[k] = Cardinality(InBucket(k)')
        <3>1. num[k] = Cardinality(InBucket(k))
            BY DEF PIInv, CountsOK
        <3>2. Cardinality(IF SpecBucket(p) = k THEN InBucket(k) \cup {p} ELSE InBucket(k))
                = Cardinality(InBucket(k)) + (IF SpecBucket(p) = k THEN 1 ELSE 0)
            <4>1. InBucket(k) \in SUBSET Peers /\ p \notin InBucket(k)
                BY <1>2
            <4>2. QED
                BY <4>1, SetCount
        <3>3. QED
            BY <1>1, <3>1, <3>2 DEF FiledNum
    <2>2. ASSUME NEW s \in Shards
          PROVE  perShard'["val"][s] = Cardinality(OfShard(OfType("validator")', s))
        <3>1. perShard["val"][s] = Cardinality(OfShard(OfType("validator"), s))
            BY DEF PIInv, CountsOK
        <3>2. perShard'["val"][s] = perShard["val"][s] + (IF (info[p].type = "validator") /\ info[p].shard = s THEN 1 ELSE 0)
            BY DEF FiledHist, Counted, Hist
        <3>3. OfType("validator")' = IF info[p].type = "validator" THEN OfType("validator") \cup {p} ELSE OfType("validator")
            BY <1>1
        <3>4. perShard["val"][s] \in Nat
            BY DEF PIInv, TypeOK, Hist
        <3>5. OfType("validator") \in SUBSET Peers /\ p \notin OfType("validator")
            BY <1>2
        <3>6. CASE info[p].type = "validator"
            <4>1. OfType("validator")' = OfType("validator") \cup {p}
                BY <3>3, <3>6
            <4>2. Cardinality(OfShard(OfType("validator") \cup {p}, s)) =
                    Cardinality(OfShard(OfType("validator"), s)) + (IF info[p].shard = s THEN 1 ELSE 0)
                BY <3>5, ShardAddOne
            <4>3. QED
                BY <3>1, <3>2, <3>6, <4>1, <4>2
        <3>7. CASE ~(info[p].type = "validator")
            BY <3>1, <3>2, <3>3, <3>4, <3>7
        <3>8. QED
            BY <3>6, <3>7
    <2>3. ASSUME NEW s \in Shards
          PROVE  perShard'["obs"][s] = Cardinality(OfShard(OfType("observer")', s))
        <3>1. perShard["obs"][s] = Cardinality(OfShard(OfType("observer"), s))
            BY DEF PIInv, CountsOK
        <3>2. perShard'["obs"][s] = perShard["obs"][s] + (IF (info[p].type = "observer") /\ info[p].shard = s THEN 1 ELSE 0)
            BY DEF FiledHist, Counted, Hist
        <3>3. OfType("observer")' = IF info[p].type = "observer" THEN OfType("observer") \cup {p} ELSE OfType("observer")
            BY <1>1
        <3>4. perShard["obs"][s] \in Nat
            BY DEF PIInv, TypeOK, Hist
        <3>5. OfType("observer") \in SUBSET Peers /\ p \notin OfType("observer")
            BY <1>2
        <3>6. CASE info[p].type = "observer"
            <4>1. OfType("observer")' = OfType("observer") \cup {p}
                BY <3>3, <3>6
            <4>2. Cardinality(OfShard(OfType("observer") \cup {p}, s)) =
                    Cardinality(OfShard(OfType("observer"), s)) + (IF info[p].shard = s THEN 1 ELSE 0)
                BY <3>5, ShardAddOne
            <4>3. QED
                BY <3>1, <3>2, <3>6, <4>1, <4>2
        <3>7. CASE ~(info[p].type = "observer")
            BY <3>1, <3>2, <3>3, <3>4, <3>7
        <3>8. QED
            BY <3>6, <3>7
    <2>4. ASSUME NEW s \in Shards
          PROVE  perShard'["pref"][s] = Cardinality(OfShard(Preferred', s))
        <3>1. perShard["pref"][s] = Cardinality(OfShard(Preferred, s))
            BY DEF PIInv, CountsOK
        <3>2. preferred[p] \in BOOLEAN
            BY <1>1 DEF PIInv, InputsOK
        <3>3. perShard'["pref"][s] = perShard["pref"][s] + (IF (preferred[p]) /\ info[p].shard = s THEN 1 ELSE 0)
            BY DEF FiledHist, Counted, Hist
        <3>4. Preferred' = IF preferred[p] THEN Preferred \cup {p} ELSE Preferred
            BY <1>1
        <3>5. perShard["pref"][s] \in Nat
            BY DEF PIInv, TypeOK, Hist
        <3>6. Preferred \in SUBSET Peers /\ p \notin Preferred
            BY <1>2
        <3>7. CASE preferred[p]
            <4>1. Preferred' = Preferred \cup {p}
                BY <3>4, <3>7
            <4>2. Cardinality(OfShard(Preferred \cup {p}, s)) =
                    Cardinality(OfShard(Preferred, s)) + (IF info[p].shard = s THEN 1 ELSE 0)
                BY <3>6, ShardAddOne
            <4>3. QED
                BY <3>1, <3>3, <3>7, <4>1, <4>2
        <3>8. CASE ~(preferred[p])
            BY <3>1, <3>3, <3>4, <3>5, <3>8
        <3>9. QED
            BY <3>7, <3>8
    <2>5. QED
        BY <1>3, <2>1, <2>2, <2>3, <2>4 DEF CountsOK
<1>7. QED
    BY <1>4, <1>5, <1>6 DEF PIInv

(* Appending p to its list, as AppendTo does, files it as FiledLists.     *)
LEMMA FiledListsAppend ==
    ASSUME PIInv, NEW p, NEW k0 \in Kinds, NEW s0 \in Shards,
           SpecBucket(p) = k0, info[p].shard = s0
    PROVE  /\ [lists EXCEPT ![k0][s0] = @ \cup {p}] = FiledLists(p)
           /\ [num EXCEPT ![k0] = @ + 1] = FiledNum(p)
<1>1. lists \in [Kinds -> [Shards -> SUBSET Peers]] /\ num \in [Kinds -> Nat]
    BY DEF PIInv, TypeOK
<1>2. \A k \in Kinds : [lists EXCEPT ![k0][s0] = @ \cup {p}][k] = FiledLists(p)[k]
    BY <1>1 DEF FiledLists
<1>3. \A k \in Kinds : [num EXCEPT ![k0] = @ + 1][k] = FiledNum(p)[k]
    BY <1>1 DEF FiledNum
<1>4. QED
    BY <1>1, <1>2, <1>3 DEF FiledLists, FiledNum

(* A bucket outside Kinds leaves the lists and the totals as they are.     *)
LEMMA FiledListsNone ==
    ASSUME PIInv, NEW p, SpecBucket(p) \notin Kinds
    PROVE  lists = FiledLists(p) /\ num = FiledNum(p)
BY DEF PIInv, TypeOK, FiledLists, FiledNum

(* The histogram updates of the switch and of the preferred-peer count    *)
(* file p as FiledHist.                                                    *)
LEMMA FiledHistUpdate ==
    ASSUME PIInv, NEW p, info[p] \in PeerInfos, preferred[p] \in BOOLEAN,
           NEW s0 \in Shards, info[p].shard = s0
    PROVE  /\ info[p].type = "unknown" =>
                [perShard EXCEPT !["pref"][s0] = @ + CountPreferred(p)] = FiledHist(p)
           /\ \A h0 \in {"val", "obs"} :
                Counted(p, h0) =>
                  [perShard EXCEPT ![h0][s0] = @ + 1,
                                   !["pref"][s0] = @ + CountPreferred(p)] = FiledHist(p)
<1>1. perShard \in [Hist -> [Shards -> Nat]]
    BY DEF PIInv, TypeOK
<1>2. CountPreferred(p) = IF Counted(p, "pref") THEN 1 ELSE 0
    BY DEF CountPreferred, Counted
<1>3. \A h \in Hist : Counted(p, h) \in BOOLEAN
    BY DEF Counted, Hist
<1>4. ASSUME info[p].type = "unknown"
      PROVE  [perShard EXCEPT !["pref"][s0] = @ + CountPreferred(p)] = FiledHist(p)
    <2>1. ~Counted(p, "val") /\ ~Counted(p, "obs")
        BY <1>4 DEF Counted
    <2>2. \A h \in Hist :
            [perShard EXCEPT !["pref"][s0] = @ + CountPreferred(p)][h] = FiledHist(p)[h]
        BY <1>1, <1>2, <2>1 DEF FiledHist, Hist
    <2>3. QED
        BY <1>1, <2>2 DEF FiledHist
<1>5. ASSUME NEW h0 \in {"val", "obs"}, Counted(p, h0)
      PROVE  [perShard EXCEPT ![h0][s0] = @ + 1,
                              !["pref"][s0] = @ + CountPreferred(p)] = FiledHist(p)
    <2>1. \A h \in {"val", "obs"} \ {h0} : ~Counted(p, h)
        BY <1>5 DEF Counted, PeerInfos
    <2>2. \A h \in Hist :
            [perShard EXCEPT ![h0][s0] = @ + 1,
                             !["pref"][s0] = @ + CountPreferred(p)][h] = FiledHist(p)[h]
        BY <1>1, <1>2, <1>5, <2>1 DEF FiledHist, Hist
    <2>3. QED
        BY <1>1, <2>2 DEF FiledHist
<1>6. QED
    BY <1>4, <1>5

(* The peer a visit files is connected, so the resolver answered for it.  *)
LEMMA VisitInputs ==
    ASSUME PIInv, NEW p \in Peers, NEW ty, Visit(p, ty)
    PROVE  /\ p \in connected
           /\ info[p] \in PeerInfos
           /\ info[p].type = ty
           /\ seeder[p] \in BOOLEAN
           /\ preferred[p] \in BOOLEAN
BY DEF PIInv, TypeOK, InputsOK, Visit

(* case core.UnknownPeer files p in Seeders or UnknownPeers only.          *)
LEMMA VisitUnknownStep ==
    ASSUME PIInv, NEW p \in Peers, VisitUnknown(p)
    PROVE  PIInv'
<1>1. /\ p \in connected /\ info[p] \in PeerInfos /\ info[p].type = "unknown"
      /\ seeder[p] \in BOOLEAN /\ preferred[p] \in BOOLEAN
    BY VisitInputs DEF VisitUnknown
<1>2. SpecBucket(p) = IF seeder[p] THEN "seeder" ELSE "unknown"
    BY <1>1 DEF SpecBucket
<1>3. lists' = FiledLists(p) /\ num' = FiledNum(p)
    BY <1>2, FiledListsNone DEF VisitUnknown, Kinds
<1>4. perShard' = FiledHist(p)
    BY <1>1, FiledHistUpdate DEF VisitUnknown, PeerInfos
<1>5. /\ unknownPeers' = IF SpecBucket(p) = "unknown"
                            THEN unknownPeers \cup {p} ELSE unknownPeers
      /\ seeders' = IF SpecBucket(p) = "seeder" THEN seeders \cup {p} ELSE seeders
    BY <1>1, <1>2 DEF VisitUnknown
<1>6. QED
    BY <1>3, <1>4, <1>5, FileStep DEF VisitUnknown

(* case core.ValidatorPeer files p in its validator list and histogram.    *)
LEMMA VisitValidatorStep ==
    ASSUME PIInv, NEW p \in Peers, VisitValidator(p)
    PROVE  PIInv'
<1>1. /\ p \in connected /\ info[p] \in PeerInfos /\ info[p].type = "validator"
      /\ preferred[p] \in BOOLEAN
    BY VisitInputs DEF VisitValidator
<1>2. SpecBucket(p) = IF info[p].shard = selfShard THEN "intraVal" ELSE "crossVal"
    BY <1>1 DEF SpecBucket
<1>3. lists' = FiledLists(p) /\ num' = FiledNum(p)
    <2>1. SpecBucket(p) = IF selfShard # info[p].shard THEN "crossVal" ELSE "intraVal"
        BY <1>2
    <2>2. /\ lists' = [lists EXCEPT ![IF selfShard # info[p].shard THEN "crossVal" ELSE "intraVal"][info[p].shard] = @ \cup {p}]
          /\ num' = [num EXCEPT ![IF selfShard # info[p].shard THEN "crossVal" ELSE "intraVal"] = @ + 1]
        BY DEF VisitValidator, AppendTo
    <2>3. (IF selfShard # info[p].shard THEN "crossVal" ELSE "intraVal") \in Kinds /\ info[p].shard \in Shards
        BY <1>1 DEF Kinds, PeerInfos
    <2>4. QED
        BY <2>1, <2>2, <2>3, FiledListsAppend
<1>4. perShard' = FiledHist(p)
    <2>1. perShard' = [perShard EXCEPT !["val"][info[p].shard] = @ + 1,
                                       !["pref"][info[p].shard] = @ + CountPreferred(p)]
        BY DEF VisitValidator
    <2>2. Counted(p, "val") /\ info[p].shard \in Shards
        BY <1>1 DEF Counted, PeerInfos
    <2>3. QED
        BY <1>1, <2>1, <2>2, FiledHistUpdate
<1>5. QED
    BY <1>2, <1>3, <1>4, FileStep DEF VisitValidator

(* case core.ObserverPeer files p in exactly one observer list.            *)
LEMMA VisitObserverStep ==
    ASSUME PIInv, NEW p \in Peers, VisitObserver(p)
    PROVE  PIInv'
<1>1. /\ p \in connected /\ info[p] \in PeerInfos /\ info[p].type = "observer"
      /\ preferred[p] \in BOOLEAN
    BY VisitInputs DEF VisitObserver
<1>2. SpecBucket(p) = IF info[p].fullHistory THEN "fullHist"
                      ELSE IF info[p].shard = selfShard THEN "intraObs" ELSE "crossObs"
    BY <1>1 DEF SpecBucket
<1>3. lists' = FiledLists(p) /\ num' = FiledNum(p)
    <2>1. SpecBucket(p) = IF info[p].fullHistory THEN "fullHist"
                    ELSE IF selfShard # info[p].shard THEN "crossObs" ELSE "intraObs"
        BY <1>2
    <2>2. /\ lists' = [lists EXCEPT ![IF info[p].fullHistory THEN "fullHist"
                    ELSE IF selfShard # info[p].shard THEN "crossObs" ELSE "intraObs"][info[p].shard] = @ \cup {p}]
          /\ num' = [num EXCEPT ![IF info[p].fullHistory THEN "fullHist"
                    ELSE IF selfShard # info[p].shard THEN "crossObs" ELSE "intraObs"] = @ + 1]
        BY DEF VisitObserver, AppendTo
    <2>3. (IF info[p].fullHistory THEN "fullHist"
                    ELSE IF selfShard # info[p].shard THEN "crossObs" ELSE "intraObs") \in Kinds /\ info[p].shard \in Shards
        BY <1>1 DEF Kinds, PeerInfos
    <2>4. QED
        BY <2>1, <2>2, <2>3, FiledListsAppend
<1>4. perShard' = FiledHist(p)
    <2>1. perShard' = [perShard EXCEPT !["obs"][info[p].shard] = @ + 1,
                                       !["pref"][info[p].shard] = @ + CountPreferred(p)]
        BY DEF VisitObserver
    <2>2. Counted(p, "obs") /\ info[p].shard \in Shards
        BY <1>1 DEF Counted, PeerInfos
    <2>3. QED
        BY <1>1, <2>1, <2>2, FiledHistUpdate
<1>5. QED
    BY <1>2, <1>3, <1>4, FileStep DEF VisitObserver

(* Every step of the call keeps the invariant.                            *)
LEMMA PIInvStep == PIInv /\ [Next]_piVars => PIInv'
<1> SUFFICES ASSUME PIInv, [Next]_piVars PROVE PIInv'
    OBVIOUS
<1>1. ASSUME NEW p \in connected, VisitUnknown(p) \/ VisitValidator(p) \/ VisitObserver(p)
      PROVE  PIInv'
    <2>1. p \in Peers
        BY DEF PIInv, InputsOK
    <2>2. QED
        BY <1>1, <2>1, VisitUnknownStep, VisitValidatorStep, VisitObserverStep
<1>2. CASE Return
    <2>1. Visited' = Visited /\ UNCHANGED Inputs
        BY <1>2 DEF Return, Visited, Inputs
    <2>2. /\ \A b : InBucket(b)' = InBucket(b)
          /\ \A t : OfType(t)' = OfType(t)
          /\ Preferred' = Preferred
          /\ \A X, s : OfShard(X, s)' = OfShard(X, s)
        BY <2>1 DEF InBucket, OfType, Preferred, OfShard, SpecBucket, Inputs
    <2>3. QED
        BY <1>2, <2>1, <2>2 DEF Return, PIInv, TypeOK, InputsOK, Inputs, ListsOK, CountsOK
<1>3. CASE UNCHANGED piVars
    <2>1. Visited' = Visited /\ UNCHANGED Inputs
        BY <1>3 DEF piVars, Visited, Inputs
    <2>2. /\ \A b : InBucket(b)' = InBucket(b)
          /\ \A t : OfType(t)' = OfType(t)
          /\ Preferred' = Preferred
          /\ \A X, s : OfShard(X, s)' = OfShard(X, s)
        BY <2>1 DEF InBucket, OfType, Preferred, OfShard, SpecBucket, Inputs
    <2>3. QED
        BY <1>3, <2>1, <2>2 DEF piVars, PIInv, TypeOK, InputsOK, Inputs, ListsOK, CountsOK
<1>4. QED
    BY <1>1, <1>2, <1>3 DEF Next

(* Once the loop is over, the visited peers are the connected ones.        *)
LEMMA PIInvCorrect == PIInv => PeersInfoMatchesSpec
<1> SUFFICES ASSUME PIInv, pc = "done" PROVE PeersInfoMatchesSpec
    BY DEF PeersInfoMatchesSpec
<1>1. Visited = connected
    BY DEF PIInv, Visited
<1>2. \A b : InBucket(b) = {p \in connected : SpecBucket(p) = b}
    BY <1>1 DEF InBucket
<1>3. /\ \A t : OfType(t) = {p \in connected : info[p].type = t}
      /\ Preferred = {p \in connected : preferred[p]}
    BY <1>1 DEF OfType, Preferred
<1>4. QED
    BY <1>2, <1>3 DEF PIInv, ListsOK, CountsOK, PeersInfoMatchesSpec

(* Spec 4.8: for every finite set of peers and every set of shards, what   *)
(* GetConnectedPeersInfo returns files each connected peer in the bucket   *)
(* of the reference classification, with totals and per-shard histograms  *)
(* that count exactly the peers filed.                                     *)
THEOREM PeersInfoMatchesSpecHolds == Spec => []PeersInfoMatchesSpec
<1>1. Init => PIInv
    BY PIInvInit
<1>2. PIInv /\ [Next]_piVars => PIInv'
    BY PIInvStep
<1>3. PIInv => PeersInfoMatchesSpec
    BY PIInvCorrect
<1>4. QED
    BY <1>1, <1>2, <1>3, PTL DEF Spec

=============================================================================
