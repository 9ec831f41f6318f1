----------------------------- MODULE ConnMonitor -----------------------------
(***************************************************************************)
(* The connection-monitor wrapper (src/libp2p/connectionMonitorWrapper.go) *)
(* and the sweep goroutine createConnectionMonitor starts: the host calls  *)
(* Connected for a new connection, the wrapper drops it if the peer denial *)
(* evaluator denies the peer, and every durationCheckConnections the sweep *)
(* closes the connections of all denied peers.                             *)
(*                                                                         *)
(* The evaluator in use is a pointer swapped by SetPeerDenialEvaluator     *)
(* under mutPeerBlackList; Connected and CheckConnectionsBlocking read the *)
(* pointer under the read lock and query the evaluator after releasing it. *)
(* The wrapper starts with disabled.PeerDenialEvaluator, which denies no   *)
(* peer and ignores upserts.  Application evaluators are model values; the *)
(* peers each one denies change as anyone upserts (blacklistPid among      *)
(* them) and as bans expire.  A peer has at most one connection, and the   *)
(* host delivers Connected before Disconnected for it.                     *)
(***************************************************************************)
EXTENDS MessengerContext

CONSTANTS
    Peers,        \* remote peers
    Evaluators,   \* application PeerDenialEvaluator instances
    Disabled      \* the disabled.PeerDenialEvaluator the wrapper starts with

ASSUME ConnMonitorAssumption ==
    /\ Peers # {} /\ IsFiniteSet(Peers)
    /\ Disabled \notin Evaluators

EvaluatorRefs == Evaluators \cup {Disabled}

VARIABLES
    evaluator,   \* cmw.peerDenialEvaluator
    deniedBy,    \* deniedBy[e]: peers application evaluator e denies
    conns,       \* peers the host has an open connection with
    cbPc,        \* cbPc[p]: where the Connected callback for p's connection is
    cbEv,        \* cbEv[p]: the evaluator that callback read
    sweepPc,     \* where the sweep goroutine is
    sweepPeers,  \* peers of network.Peers() the current sweep has yet to visit
    sweepEv      \* the evaluator the current sweep read

cmVars == <<evaluator, deniedBy, conns, cbPc, cbEv, sweepPc, sweepPeers, sweepEv,
            ctxCancelled>>

(* IsDenied of an evaluator: the disabled one denies nobody.               *)
IsDenied(e, p) == e # Disabled /\ p \in deniedBy[e]

-----------------------------------------------------------------------------
Init ==
    /\ evaluator = Disabled
    /\ deniedBy = [e \in Evaluators |-> {}]
    /\ conns = {}
    /\ cbPc = [p \in Peers |-> "none"]
    /\ cbEv = [p \in Peers |-> Disabled]
    /\ sweepPc = "check"
    /\ sweepPeers = {}
    /\ sweepEv = Disabled
    /\ ctxCancelled = FALSE

(* The host opens a connection with p and calls the notifiee's Connected.  *)
Connect(p) ==
    /\ ~ctxCancelled
    /\ p \notin conns
    /\ cbPc[p] = "none"
    /\ conns' = conns \cup {p}
    /\ cbPc' = [cbPc EXCEPT ![p] = "read"]
    /\ UNCHANGED <<evaluator, deniedBy, cbEv, sweepPc, sweepPeers, sweepEv, ctxCancelled>>

(* Connected: take the evaluator pointer under the read lock.              *)
ConnectedReadEvaluator(p) ==
    /\ cbPc[p] = "read"
    /\ cbEv' = [cbEv EXCEPT ![p] = evaluator]
    /\ cbPc' = [cbPc EXCEPT ![p] = "check"]
    /\ UNCHANGED <<evaluator, deniedBy, conns, sweepPc, sweepPeers, sweepEv, ctxCancelled>>

(* Connected: a denied peer's connection is closed, any other is handed to *)
(* the inner ConnectionMonitor.                                            *)
ConnectedCheck(p) ==
    /\ cbPc[p] = "check"
    /\ conns' = IF IsDenied(cbEv[p], p) THEN conns \ {p} ELSE conns
    /\ cbPc' = [cbPc EXCEPT ![p] = "none"]
    /\ UNCHANGED <<evaluator, deniedBy, cbEv, sweepPc, sweepPeers, sweepEv, ctxCancelled>>

(* The remote peer closes the connection; Disconnected is forwarded.       *)
Disconnect(p) ==
    /\ p \in conns
    /\ cbPc[p] = "none"
    /\ conns' = conns \ {p}
    /\ UNCHANGED <<evaluator, deniedBy, cbPc, cbEv, sweepPc, sweepPeers, sweepEv, ctxCancelled>>

(* Mutant: the sweep keeps the evaluator pointer it read first, as if the  *)
(* read were hoisted out of the goroutine's loop.                          *)
SweepSnapshotStaleEvaluator ==
    /\ sweepPc = "check"
    /\ sweepPeers' = conns
    /\ sweepEv' = sweepEv
    /\ sweepPc' = "scan"
    /\ UNCHANGED <<evaluator, deniedBy, conns, cbPc, cbEv, ctxCancelled>>

(* CheckConnectionsBlocking: network.Peers(), then the evaluator pointer.  *)
SweepSnapshot ==
    /\ sweepPc = "check"
    /\ sweepPeers' = conns
    /\ sweepEv' = evaluator
    /\ sweepPc' = "scan"
    /\ UNCHANGED <<evaluator, deniedBy, conns, cbPc, cbEv, ctxCancelled>>

(* One peer of the snapshot: ClosePeer if the evaluator denies it.         *)
SweepCheck(p) ==
    /\ sweepPc = "scan"
    /\ p \in sweepPeers
    /\ sweepPeers' = sweepPeers \ {p}
    /\ conns' = IF IsDenied(sweepEv, p) THEN conns \ {p} ELSE conns
    /\ UNCHANGED <<evaluator, deniedBy, cbPc, cbEv, sweepPc, sweepEv, ctxCancelled>>

(* The sweep ends; the goroutine waits durationCheckConnections, or        *)
(* returns once ctx is done.                                               *)
SweepWait ==
    /\ sweepPc = "scan"
    /\ sweepPeers = {}
    /\ sweepPc' = IF ctxCancelled THEN "done" ELSE "check"
    /\ UNCHANGED <<evaluator, deniedBy, conns, cbPc, cbEv, sweepPeers, sweepEv, ctxCancelled>>

(* SetPeerDenialEvaluator(handler), handler non-nil.                       *)
SetPeerDenialEvaluator(e) ==
    /\ evaluator' = e
    /\ UNCHANGED <<deniedBy, conns, cbPc, cbEv, sweepPc, sweepPeers, sweepEv, ctxCancelled>>

(* The application upserts p into its evaluator e, or a ban there ends.    *)
UpsertPeerID(e, p) ==
    /\ deniedBy' = [deniedBy EXCEPT ![e] = @ \cup {p}]
    /\ UNCHANGED <<evaluator, conns, cbPc, cbEv, sweepPc, sweepPeers, sweepEv, ctxCancelled>>

BanExpires(e, p) ==
    /\ p \in deniedBy[e]
    /\ deniedBy' = [deniedBy EXCEPT ![e] = @ \ {p}]
    /\ UNCHANGED <<evaluator, conns, cbPc, cbEv, sweepPc, sweepPeers, sweepEv, ctxCancelled>>

(* blacklistPid: upsert into the evaluator the wrapper currently holds,    *)
(* unless it already denies p; the disabled evaluator ignores the upsert.  *)
BlacklistPid(p) ==
    /\ ~IsDenied(evaluator, p)
    /\ deniedBy' = IF evaluator = Disabled THEN deniedBy
                   ELSE [deniedBy EXCEPT ![evaluator] = @ \cup {p}]
    /\ UNCHANGED <<evaluator, conns, cbPc, cbEv, sweepPc, sweepPeers, sweepEv, ctxCancelled>>

(* Close: the host closes every connection, later netMes.cancelFunc().     *)
CloseMessenger ==
    /\ ~ctxCancelled
    /\ conns' = {}
    /\ ctxCancelled' = TRUE
    /\ UNCHANGED <<evaluator, deniedBy, cbPc, cbEv, sweepPc, sweepPeers, sweepEv>>

Next ==
    \/ \E p \in Peers :
          \/ Connect(p) \/ ConnectedReadEvaluator(p) \/ ConnectedCheck(p)
          \/ Disconnect(p) \/ SweepCheck(p) \/ BlacklistPid(p)
          \/ \E e \in Evaluators : UpsertPeerID(e, p) \/ BanExpires(e, p)
    \/ SweepSnapshot \/ SweepWait
    \/ \E e \in Evaluators : SetPeerDenialEvaluator(e)
    \/ CloseMessenger

(* The sweep goroutine is woken by its timer; the host's notification      *)
(* goroutines run to completion.                                           *)
Fairness ==
    /\ WF_cmVars(SweepSnapshot)
    /\ WF_cmVars(SweepWait)
    /\ \A p \in Peers :
          /\ WF_cmVars(SweepCheck(p))
          /\ WF_cmVars(ConnectedReadEvaluator(p))
          /\ WF_cmVars(ConnectedCheck(p))

Spec == Init /\ [][Next]_cmVars /\ Fairness

-----------------------------------------------------------------------------
TypeOK ==
    /\ evaluator \in EvaluatorRefs
    /\ deniedBy \in [Evaluators -> SUBSET Peers]
    /\ conns \subseteq Peers
    /\ cbPc \in [Peers -> {"none", "read", "check"}]
    /\ cbEv \in [Peers -> EvaluatorRefs]
    /\ sweepPc \in {"check", "scan", "done"}
    /\ sweepPeers \subseteq Peers
    /\ sweepEv \in EvaluatorRefs
    /\ ctxCancelled \in BOOLEAN

(* Spec 3 and 4.5: the sweep and the Connected check keep a denied peer   *)
(* out.  Once the wrapper holds one evaluator for good and it denies p for *)
(* good, p is eventually never connected except while a Connected         *)
(* callback for it is still running, whatever connections existed, or     *)
(* were being notified against an older evaluator, when that began.  (If   *)
(* bans or evaluators keep changing, stale pointer reads defeat any such   *)
(* bound.)                                                                 *)
DeniedPeerKeptOut ==
    \A p \in Peers :
        (\E e \in Evaluators : <>[](evaluator = e /\ p \in deniedBy[e]))
            => <>[](p \in conns => cbPc[p] # "none")

=============================================================================
