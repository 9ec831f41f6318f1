---------------------------- MODULE PeersOnChannel ----------------------------
(***************************************************************************)
(* The peers-on-channel cache (src/libp2p/peersOnChannel.go): per topic    *)
(* the peer list last fetched from pubsub's ListPeers and the time it was  *)
(* stored, filled on first use by ConnectedPeersOnChannel and kept fresh   *)
(* by the goroutine refreshPeersOnAllKnownTopics, which wakes every        *)
(* refreshInterval, collects under the read lock the topics older than     *)
(* ttlInterval and refreshes them one by one without the lock.             *)
(*                                                                         *)
(* Time is counted in whole units and kept relative: age[t] is            *)
(* now - lastUpdated[t], saturated one unit past the largest age the       *)
(* properties distinguish, and untilWake is what is left of the loop's     *)
(* time.After.  The loop's own work (in-memory ListPeers, map updates)     *)
(* takes no time.  A peer list is abstracted to a version number of the    *)
(* topic's mesh, which changes as peers join and leave.                    *)
(***************************************************************************)
EXTENDS Naturals, FiniteSets

CONSTANTS
    Topics,      \* topics queried
    Callers,     \* goroutines calling ConnectedPeersOnChannel
    Refresh,     \* refreshInterval (refreshPeersOnTopic, 3 s)
    TTL,         \* ttlInterval (ttlPeersOnTopic, 10 s)
    MaxVer,      \* versions of a topic's peer list explored
    NoList       \* the nil slice: no entry for the topic

ASSUME PeersOnChannelAssumption ==
    /\ Topics # {} /\ IsFiniteSet(Topics)
    /\ Refresh \in Nat \ {0}
    /\ TTL \in Nat \ {0}
    /\ MaxVer \in Nat
    /\ NoList \notin Nat

(* Ages beyond this one are not told apart.                                *)
AgeCap == TTL + 2 * Refresh + 1

VARIABLES
    mesh,         \* mesh[t]: version of pubsub's current peer list for t
    cache,        \* cache[t]: poc.peers[t], NoList when absent
    age,          \* age[t]: now - poc.lastUpdated[t] (topics with an entry)
    untilWake,    \* time left before the loop's time.After fires
    loopPc,       \* "wait", "refresh", "done"
    toRefresh,    \* listTopicsToBeRefreshed not yet refreshed
    callerPc,     \* callerPc[c]: "idle" or "update"
    callerTopic,  \* callerTopic[c]: the topic c is refreshing
    fetched,      \* fetched[c]: the list c fetched
    cancelled     \* poc's own context is cancelled (Close)

pocVars == <<mesh, cache, age, untilWake, loopPc, toRefresh, callerPc, callerTopic,
             fetched, cancelled>>

Known == {t \in Topics : cache[t] # NoList}

(* updateConnectedPeersOnTopic: store the list and stamp it now.           *)
UpdateConnectedPeersOnTopic(t, list) ==
    /\ cache' = [cache EXCEPT ![t] = list]
    /\ age' = [age EXCEPT ![t] = 0]

-----------------------------------------------------------------------------
Init ==
    /\ mesh = [t \in Topics |-> 0]
    /\ cache = [t \in Topics |-> NoList]
    /\ age = [t \in Topics |-> 0]
    /\ untilWake = Refresh
    /\ loopPc = "wait"
    /\ toRefresh = {}
    /\ callerPc = [c \in Callers |-> "idle"]
    /\ callerTopic = [c \in Callers |-> CHOOSE t \in Topics : TRUE]
    /\ fetched = [c \in Callers |-> 0]
    /\ cancelled = FALSE

(* One unit of time passes while the loop sleeps.                          *)
Tick ==
    /\ loopPc \in {"wait", "done"}
    /\ loopPc = "wait" => untilWake > 0
    /\ untilWake' = IF loopPc = "wait" THEN untilWake - 1 ELSE untilWake
    /\ age' = [t \in Topics |-> IF age[t] < AgeCap THEN age[t] + 1 ELSE AgeCap]
    /\ UNCHANGED <<mesh, cache, loopPc, toRefresh, callerPc, callerTopic, fetched, cancelled>>

(* Peers join or leave topic t's mesh.                                     *)
MeshChanges(t) ==
    /\ mesh[t] < MaxVer
    /\ mesh' = [mesh EXCEPT ![t] = @ + 1]
    /\ UNCHANGED <<cache, age, untilWake, loopPc, toRefresh, callerPc, callerTopic,
                   fetched, cancelled>>

(* ConnectedPeersOnChannel(t) finds no entry under the read lock and calls *)
(* refreshPeersOnTopic, whose fetchPeersHandler reads the mesh.  (A call   *)
(* that finds an entry returns it and changes nothing.)                    *)
ConnectedPeersOnChannel(c, t) ==
    /\ callerPc[c] = "idle"
    /\ cache[t] = NoList
    /\ fetched' = [fetched EXCEPT ![c] = mesh[t]]
    /\ callerTopic' = [callerTopic EXCEPT ![c] = t]
    /\ callerPc' = [callerPc EXCEPT ![c] = "update"]
    /\ UNCHANGED <<mesh, cache, age, untilWake, loopPc, toRefresh, cancelled>>

(* The rest of refreshPeersOnTopic: AddPeer for each, then store.          *)
CallerUpdate(c) ==
    /\ callerPc[c] = "update"
    /\ UpdateConnectedPeersOnTopic(callerTopic[c], fetched[c])
    /\ callerPc' = [callerPc EXCEPT ![c] = "idle"]
    /\ UNCHANGED <<mesh, untilWake, loopPc, toRefresh, callerTopic, fetched, cancelled>>

(* Mutant: only the first stale topic found is put on the list.           *)
CollectOnlyFirstStale ==
    /\ loopPc = "wait"
    /\ untilWake = 0
    /\ ~cancelled
    /\ LET stale == {t \in Known : age[t] > TTL}
       IN  toRefresh' = IF stale = {} THEN {} ELSE {CHOOSE t \in stale : TRUE}
    /\ loopPc' = "refresh"
    /\ UNCHANGED <<mesh, cache, age, untilWake, callerPc, callerTopic, fetched, cancelled>>

(* time.After fires: under the read lock, every known topic whose          *)
(* lastUpdated is more than ttlInterval ago goes on the list.              *)
CollectStaleTopics ==
    /\ loopPc = "wait"
    /\ untilWake = 0
    /\ ~cancelled
    /\ toRefresh' = {t \in Known : age[t] > TTL}
    /\ loopPc' = "refresh"
    /\ UNCHANGED <<mesh, cache, age, untilWake, callerPc, callerTopic, fetched, cancelled>>

(* refreshPeersOnTopic for one listed topic, in the slice's (map) order.   *)
LoopRefresh(t) ==
    /\ loopPc = "refresh"
    /\ t \in toRefresh
    /\ toRefresh' = toRefresh \ {t}
    /\ UpdateConnectedPeersOnTopic(t, mesh[t])
    /\ UNCHANGED <<mesh, untilWake, loopPc, callerPc, callerTopic, fetched, cancelled>>

(* The list is done; the loop selects on time.After(refreshInterval) and   *)
(* ctx.Done() again.                                                       *)
LoopSleep ==
    /\ loopPc = "refresh"
    /\ toRefresh = {}
    /\ loopPc' = "wait"
    /\ untilWake' = Refresh
    /\ UNCHANGED <<mesh, cache, age, toRefresh, callerPc, callerTopic, fetched, cancelled>>

(* Close cancels poc's context; a sleeping loop returns.                   *)
Close ==
    /\ ~cancelled
    /\ cancelled' = TRUE
    /\ UNCHANGED <<mesh, cache, age, untilWake, loopPc, toRefresh, callerPc, callerTopic, fetched>>

LoopStops ==
    /\ loopPc = "wait"
    /\ cancelled
    /\ loopPc' = "done"
    /\ UNCHANGED <<mesh, cache, age, untilWake, toRefresh, callerPc, callerTopic, fetched, cancelled>>

Next ==
    \/ Tick \/ CollectStaleTopics \/ LoopSleep \/ Close \/ LoopStops
    \/ \E t \in Topics : MeshChanges(t) \/ LoopRefresh(t)
    \/ \E c \in Callers : CallerUpdate(c) \/ \E t \in Topics : ConnectedPeersOnChannel(c, t)

Spec == Init /\ [][Next]_pocVars

-----------------------------------------------------------------------------
TypeOK ==
    /\ mesh \in [Topics -> 0..MaxVer]
    /\ cache \in [Topics -> (0..MaxVer) \cup {NoList}]
    /\ age \in [Topics -> 0..AgeCap]
    /\ untilWake \in 0..Refresh
    /\ loopPc \in {"wait", "refresh", "done"}
    /\ toRefresh \subseteq Topics
    /\ callerPc \in [Callers -> {"idle", "update"}]
    /\ callerTopic \in [Callers -> Topics]
    /\ fetched \in [Callers -> 0..MaxVer]
    /\ cancelled \in BOOLEAN

(* Spec 3 and 4.6: while the cache runs, no known topic's entry was        *)
(* stored more than ttlInterval + refreshInterval ago: the loop wakes every *)
(* refreshInterval and refreshes every entry then older than ttlInterval,  *)
(* however first-use refreshes by callers interleave with it.              *)
EntryAgeBounded ==
    ~cancelled => \A t \in Known : age[t] <= TTL + Refresh

=============================================================================
