-------------------------- MODULE MessengerContext --------------------------
(***************************************************************************)
(* What every component of the network messenger shares: the topic names   *)
(* the application uses, and netMes.ctx, the context created in            *)
(* constructNode and cancelled by Close, under which pubsub, the sender    *)
(* loop and every background loop run.                                     *)
(***************************************************************************)
EXTENDS FiniteSets

CONSTANT Topics     \* topic names the application uses

ASSUME TopicsAssumption == Topics # {} /\ IsFiniteSet(Topics)

VARIABLE ctxCancelled   \* netMes.ctx has been cancelled by Close
=============================================================================
