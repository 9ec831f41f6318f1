-------------------------- MODULE WaitForConnections --------------------------
(***************************************************************************)
(* networkMessenger.WaitForConnections (src/libp2p/netMessenger.go): with  *)
(* minNumOfPeers = 0 the caller sleeps maxWaitingTime; otherwise           *)
(* waitForConnections makes one context with a timeout of maxWaitingTime,  *)
(* and shouldStopWaiting, called in a loop, makes a fresh context with a   *)
(* timeout of pollWaitForConnectionsInterval and selects on both: the      *)
(* overall deadline returns, the poll timeout returns whether enough peers *)
(* are connected, and the loop calls it again if not.                      *)
(*                                                                         *)
(* Time is counted in whole units and kept relative to the call: elapsed   *)
(* saturates at maxWaitingTime, pollLeft is what is left of the current    *)
(* poll timeout.  The number of connected peers changes as the host        *)
(* connects and disconnects, independently of the caller.                  *)
(***************************************************************************)
EXTENDS Naturals

CONSTANTS
    MaxWait,    \* maxWaitingTime
    Poll,       \* pollWaitForConnectionsInterval
    MaxPeers    \* peers the host may be connected to

ASSUME WaitAssumption ==
    /\ MaxWait \in Nat \ {0}
    /\ Poll \in Nat \ {0}
    /\ MaxPeers \in Nat

VARIABLES
    pc,         \* "idle", "sleep", "wait", "returned"
    minPeers,   \* the call's minNumOfPeers
    elapsed,    \* time since the call started, saturated at MaxWait
    pollLeft,   \* time left before the current poll context times out
    connected   \* len(netMes.ConnectedPeers())

wVars == <<pc, minPeers, elapsed, pollLeft, connected>>

Init ==
    /\ pc = "idle"
    /\ minPeers = 0
    /\ elapsed = 0
    /\ pollLeft = Poll
    /\ connected \in 0..MaxPeers

(* WaitForConnections(maxWaitingTime, minNumOfPeers) starts.               *)
WaitForConnectionsCall(n) ==
    /\ pc = "idle"
    /\ pc' = IF n = 0 THEN "sleep" ELSE "wait"
    /\ minPeers' = n
    /\ elapsed' = 0
    /\ pollLeft' = Poll
    /\ UNCHANGED connected

(* One unit of time passes.                                                *)
Tick ==
    /\ pc \in {"sleep", "wait"}
    /\ elapsed' = IF elapsed < MaxWait THEN elapsed + 1 ELSE MaxWait
    /\ pollLeft' = IF pollLeft > 0 THEN pollLeft - 1 ELSE 0
    /\ UNCHANGED <<pc, minPeers, connected>>

(* The host's connections change.                                          *)
PeersChange ==
    /\ connected' \in 0..MaxPeers
    /\ connected' # connected
    /\ UNCHANGED <<pc, minPeers, elapsed, pollLeft>>

(* time.Sleep(maxWaitingTime) returns.                                     *)
SleepDone ==
    /\ pc = "sleep"
    /\ elapsed = MaxWait
    /\ pc' = "returned"
    /\ UNCHANGED <<minPeers, elapsed, pollLeft, connected>>

(* The select takes <-ctxMaxWaitingTime.Done(): shouldStopWaiting returns  *)
(* true.                                                                   *)
DeadlineFires ==
    /\ pc = "wait"
    /\ elapsed = MaxWait
    /\ pc' = "returned"
    /\ UNCHANGED <<minPeers, elapsed, pollLeft, connected>>

(* Mutant: the overall context is created inside shouldStopWaiting, so     *)
(* every poll restarts the deadline.                                       *)
PollFiresResetsDeadline ==
    /\ pc = "wait"
    /\ pollLeft = 0
    /\ IF minPeers <= connected
         THEN /\ pc' = "returned"
              /\ UNCHANGED <<elapsed, pollLeft>>
         ELSE /\ pollLeft' = Poll
              /\ elapsed' = 0
              /\ UNCHANGED pc
    /\ UNCHANGED <<minPeers, connected>>

(* The select takes <-ctx.Done() of the poll context: return if at least   *)
(* minNumOfPeers are connected, else the loop calls shouldStopWaiting      *)
(* again with a fresh poll context.                                        *)
PollFires ==
    /\ pc = "wait"
    /\ pollLeft = 0
    /\ IF minPeers <= connected
         THEN /\ pc' = "returned"
              /\ UNCHANGED pollLeft
         ELSE /\ pollLeft' = Poll
              /\ UNCHANGED pc
    /\ UNCHANGED <<minPeers, elapsed, connected>>

(* The caller goes on and may call again.                                  *)
CallerContinues ==
    /\ pc = "returned"
    /\ pc' = "idle"
    /\ UNCHANGED <<minPeers, elapsed, pollLeft, connected>>

Next ==
    \/ \E n \in 0..MaxPeers + 1 : WaitForConnectionsCall(n)
    \/ Tick \/ PeersChange \/ SleepDone \/ DeadlineFires \/ PollFires
    \/ CallerContinues

(* Clocks advance, and the Go runtime eventually runs a goroutine whose    *)
(* timer channel is ready.                                                 *)
Fairness ==
    /\ WF_wVars(Tick)
    /\ WF_wVars(SleepDone)
    /\ WF_wVars(DeadlineFires)
    /\ WF_wVars(PollFires)

Spec == Init /\ [][Next]_wVars /\ Fairness

-----------------------------------------------------------------------------
(* Spec 4.7 (WaitForConnections waits the maxWaitingTime duration or until *)
(* the target is reached): every call returns, even when the host never   *)
(* reaches minNumOfPeers or the count only reaches it between two polls.   *)
WaitReturns == pc \in {"sleep", "wait"} ~> pc = "returned"

=============================================================================
