----------------------------- MODULE ChannelFifos -----------------------------
(***************************************************************************)
(* What the outgoing channel load balancer promises (spec 4.2), without    *)
(* how it schedules: a set of named, bounded FIFO channels that starts     *)
(* with the default one.  AddChannel creates a channel, idempotently per   *)
(* name; a producer appends to a channel that exists and is not full, so   *)
(* it always had a valid enqueue target; collecting takes the head of some *)
(* existing non-empty channel.  Which channel the round robin serves, and  *)
(* that every channel is eventually served, are left to the detailed       *)
(* specification.                                                          *)
(***************************************************************************)
EXTENDS Sequences, Naturals

CONSTANTS
    Names,        \* channel names producers may ask for
    Items,        \* what producers enqueue
    DefaultName,  \* the default channel's name
    Cap           \* capacity of each channel

VARIABLES
    chans,   \* names of the channels added so far
    fifo     \* fifo[c]: the items buffered in channel c

fifoVars == <<chans, fifo>>

FifoInit ==
    /\ chans = {DefaultName}
    /\ fifo = [c \in Names |-> <<>>]

(* add_channel(name): an existing name is left as it is.                   *)
FifoAddChannel(c) ==
    /\ chans' = chans \cup {c}
    /\ UNCHANGED fifo

(* A producer's send on an existing channel that has room.                 *)
FifoPush(c, x) ==
    /\ c \in chans
    /\ Len(fifo[c]) < Cap
    /\ fifo' = [fifo EXCEPT ![c] = Append(@, x)]
    /\ UNCHANGED chans

(* collect_one() returning the head of an existing non-empty channel.      *)
FifoCollect(c) ==
    /\ c \in chans
    /\ fifo[c] # <<>>
    /\ fifo' = [fifo EXCEPT ![c] = Tail(@)]
    /\ UNCHANGED chans

FifoNext ==
    \E c \in Names :
        \/ FifoAddChannel(c)
        \/ \E x \in Items : FifoPush(c, x)
        \/ FifoCollect(c)

FifoSpec == FifoInit /\ [][FifoNext]_fifoVars

=============================================================================
